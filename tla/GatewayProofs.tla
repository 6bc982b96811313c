--------------------------- MODULE GatewayProofs ---------------------------
(***************************************************************************)
(* Proofs about Gateway: its type invariant, that rejected requests leave   *)
(* no trace in the window, and that the window keeps its limit, for any      *)
(* requests, limits and pools.                                              *)
(***************************************************************************)
EXTENDS Gateway, FiniteSetTheorems, TLAPS

-----------------------------------------------------------------------------
(* Types.                                                                   *)

\* The requests, and the event loops that are in an upload exactly while it runs.
LoopTypes ==
  /\ req \in [Requests -> Request]
  /\ loop \in [Processes -> Uploads \cup {None}]
  /\ \A r \in Uploads : loop[ProcessOf[r]] = r <=> req[r].step \notin {"new", "answered"}

\* What is left of the type invariant.
PlainTypes ==
  /\ window \subseteq Entry /\ expiry \in Nat
  /\ now \in 0..MaxTime /\ faults \in 0..MaxFaults
  /\ jobs \in [Processes -> Seq(Requests)]
  /\ broken \subseteq Processes

\* A change of a request's fields.
LEMMA AnswerFields ==
  ASSUME NEW q \in Request, NEW step \in Steps, NEW answer \in Answers
  PROVE  /\ [q EXCEPT !.step = step, !.answer = answer] \in Request
         /\ [q EXCEPT !.step = step, !.answer = answer].step = step
BY DEF Request

\* The same for its clock,
LEMMA ClockFields ==
  ASSUME NEW q \in Request, NEW step \in Steps, NEW clock \in 0..MaxTime
  PROVE  /\ [q EXCEPT !.step = step, !.clock = clock] \in Request
         /\ [q EXCEPT !.step = step, !.clock = clock].step = step
BY DEF Request

\* for whether it counts,
LEMMA CountedFields ==
  ASSUME NEW q \in Request, NEW step \in Steps, NEW counted \in BOOLEAN
  PROVE  /\ [q EXCEPT !.step = step, !.counted = counted] \in Request
         /\ [q EXCEPT !.step = step, !.counted = counted].step = step
BY DEF Request

\* and for its step alone.
LEMMA StepField ==
  ASSUME NEW q \in Request, NEW step \in Steps
  PROVE  [q EXCEPT !.step = step] \in Request /\ [q EXCEPT !.step = step].step = step
BY DEF Request

\* The end of some requests gives back the event loops they are in.
LEMMA AnsweredTypes ==
  ASSUME LoopTypes, NEW rs \in SUBSET Requests,
         \A r \in rs : req[r].step \notin {"new", "answered"},
         req' \in [Requests -> Request],
         \A r \in Requests : req'[r].step = IF r \in rs THEN "answered" ELSE req[r].step,
         loop' = Answered(rs)
  PROVE  LoopTypes'
<1> USE RequestAssumption
<1>1. loop' \in [Processes -> Uploads \cup {None}]
  BY DEF LoopTypes, Answered
<1>2. ASSUME NEW r \in Uploads PROVE (loop[ProcessOf[r]] = r <=> req[r].step \notin {"new", "answered"})'
  <2>1. ProcessOf[r] \in Processes /\ r \in Requests
    OBVIOUS
  <2>2. loop'[ProcessOf[r]] = IF loop[ProcessOf[r]] \in rs THEN None ELSE loop[ProcessOf[r]]
    BY <2>1 DEF Answered
  <2>3. r # None
    BY <2>1
  <2> QED
    BY <2>1, <2>2, <2>3 DEF LoopTypes
<1> QED
  BY <1>1, <1>2 DEF LoopTypes

\* One request is answered.
LEMMA AnswerTypes ==
  ASSUME LoopTypes, NEW r \in Requests, NEW answer \in Answers, Answer(r, answer),
         req[r].step \notin {"new", "answered"}
  PROVE  LoopTypes'
<1>1. req' \in [Requests -> Request] /\ \A q \in Requests : req'[q].step = IF q = r THEN "answered" ELSE req[q].step
  <2>1. "answered" \in Steps /\ req[r] \in Request
    BY DEF Steps, LoopTypes
  <2>2. [req[r] EXCEPT !.step = "answered", !.answer = answer] \in Request
        /\ [req[r] EXCEPT !.step = "answered", !.answer = answer].step = "answered"
    BY <2>1, AnswerFields
  <2>3. req' = [req EXCEPT ![r] = [req[r] EXCEPT !.step = "answered", !.answer = answer]]
    BY DEF Answer
  <2> QED
    BY <2>2, <2>3 DEF LoopTypes
<1> QED
  BY <1>1, AnsweredTypes DEF Answer

\* A running request goes on, with a step that is not its end.
LEMMA GoOnTypes ==
  ASSUME LoopTypes, NEW r \in Requests, req[r].step \notin {"new", "answered"},
         req' \in [Requests -> Request], UNCHANGED loop,
         req'[r].step \notin {"new", "answered"},
         \A q \in Requests : q # r => req'[q] = req[q]
  PROVE  LoopTypes'
BY RequestAssumption DEF LoopTypes

\* A call taken out of the pool leaves a sequence of requests.
LEMMA WithoutType ==
  ASSUME NEW s \in Seq(Requests), NEW i \in 1..Len(s)
  PROVE  Without(s, i) \in Seq(Requests)
<1>1. SubSeq(s, 1, i - 1) \in Seq(Requests) /\ SubSeq(s, i + 1, Len(s)) \in Seq(Requests)
  OBVIOUS
<1> QED
  BY <1>1 DEF Without

\* Requests keep their types, and an event loop is in its upload until that is answered.
LEMMA LoopStep == LoopTypes /\ PlainTypes /\ [Next]_vars => LoopTypes'
<1> SUFFICES ASSUME LoopTypes, PlainTypes, [Next]_vars PROVE LoopTypes'
  OBVIOUS
<1> USE RequestAssumption
<1>1. ASSUME NEW r \in Requests, Begin(r) PROVE LoopTypes'
  <2>1. r \in Requests /\ ProcessOf[r] \in Processes /\ req[r].step = "new" /\ loop[ProcessOf[r]] = None
    BY <1>1 DEF Begin, At
  <2>2. now \in 0..MaxTime
    BY DEF PlainTypes
  <2>3. req' \in [Requests -> Request] /\ \A q \in Requests : req'[q].step = IF q = r THEN "check" ELSE req[q].step
    <3>1. "check" \in Steps /\ req[r] \in Request
      BY DEF Steps, LoopTypes
    <3>2. [req[r] EXCEPT !.step = "check", !.clock = now] \in Request
          /\ [req[r] EXCEPT !.step = "check", !.clock = now].step = "check"
      BY <2>2, <3>1, ClockFields
    <3>3. req' = [req EXCEPT ![r] = [req[r] EXCEPT !.step = "check", !.clock = now]]
      BY <1>1 DEF Begin
    <3> QED
      BY <3>2, <3>3 DEF LoopTypes
  <2>4. loop' \in [Processes -> Uploads \cup {None}]
    BY <1>1, <2>1 DEF Begin, LoopTypes
  <2>5. ASSUME NEW q \in Uploads PROVE loop'[ProcessOf[q]] = q <=> req'[q].step \notin {"new", "answered"}
    <3>1. CASE q = r
      BY <1>1, <2>1, <2>3, <3>1 DEF Begin, LoopTypes
    <3>2. CASE q # r
      BY <1>1, <2>1, <2>3, <3>2 DEF Begin, LoopTypes
    <3> QED
      BY <3>1, <3>2
  <2> QED
    BY <2>3, <2>4, <2>5 DEF LoopTypes
<1>2. ASSUME NEW r \in Requests, Check(r) PROVE LoopTypes'
  <2>1. req[r] \in Request /\ "reject" \in Steps /\ "admitted" \in Steps
    BY DEF LoopTypes, Steps
  <2>2. [req[r] EXCEPT !.step = "reject"] \in Request /\ [req[r] EXCEPT !.step = "reject"].step = "reject"
    BY <2>1, StepField
  <2>3. [req[r] EXCEPT !.step = "admitted", !.counted = TRUE] \in Request
        /\ [req[r] EXCEPT !.step = "admitted", !.counted = TRUE].step = "admitted"
    BY <2>1, CountedFields
  <2>4. \/ req' = [req EXCEPT ![r] = [req[r] EXCEPT !.step = "reject"]]
        \/ req' = [req EXCEPT ![r] = [req[r] EXCEPT !.step = "admitted", !.counted = TRUE]]
    BY <1>2 DEF Check
  <2>5. req' \in [Requests -> Request] /\ req'[r].step \notin {"new", "answered"}
    BY <2>2, <2>3, <2>4 DEF LoopTypes
  <2>6. UNCHANGED loop /\ \A q \in Requests : q # r => req'[q] = req[q]
    BY <1>2 DEF LoopTypes, Check
  <2>7. req[r].step \notin {"new", "answered"}
    BY <1>2 DEF At, Check
  <2> QED
    BY <2>5, <2>6, <2>7, GoOnTypes
<1>3. ASSUME NEW r \in Requests, CheckFails(r) PROVE LoopTypes'
  <2>1. req' \in [Requests -> Request] /\ req'[r].step \notin {"new", "answered"}
    BY <1>3 DEF LoopTypes, Request, Steps, At, CheckFails
  <2>2. UNCHANGED loop /\ \A q \in Requests : q # r => req'[q] = req[q]
    BY <1>3 DEF LoopTypes, CheckFails
  <2>3. req[r].step \notin {"new", "answered"}
    BY <1>3 DEF At, CheckFails
  <2> QED
    BY <2>1, <2>2, <2>3, GoOnTypes
<1>4. ASSUME NEW r \in Requests, Reject(r) PROVE LoopTypes'
  <2>1. req[r].step \notin {"new", "answered"} /\ Answer(r, "429") /\ "429" \in Answers
    BY <1>4 DEF Reject, At, Answers
  <2> QED
    BY <2>1, AnswerTypes
<1>5. ASSUME NEW r \in Requests, RejectFails(r) PROVE LoopTypes'
  <2>1. req' \in [Requests -> Request] /\ req'[r].step \notin {"new", "answered"}
    BY <1>5 DEF LoopTypes, Request, Steps, At, RejectFails
  <2>2. UNCHANGED loop /\ \A q \in Requests : q # r => req'[q] = req[q]
    BY <1>5 DEF LoopTypes, RejectFails
  <2>3. req[r].step \notin {"new", "answered"}
    BY <1>5 DEF At, RejectFails
  <2> QED
    BY <2>1, <2>2, <2>3, GoOnTypes
<1>6. ASSUME NEW r \in Requests, Refuse(r) PROVE LoopTypes'
  <2>1. req[r].step \notin {"new", "answered"} /\ Answer(r, "refused") /\ "refused" \in Answers
    BY <1>6 DEF Refuse, At, Answers
  <2> QED
    BY <2>1, AnswerTypes
<1>7. ASSUME NEW r \in Requests, Submit(r) PROVE LoopTypes'
  <2>1. CASE ProcessOf[r] \in broken
    <3>1. req[r].step \notin {"new", "answered"} /\ Answer(r, "error") /\ "error" \in Answers
      BY <1>7, <2>1 DEF Submit, At, Answers
    <3> QED
      BY <3>1, AnswerTypes
  <2>2. CASE ProcessOf[r] \notin broken
    <3>1. req' \in [Requests -> Request] /\ req'[r].step \notin {"new", "answered"}
      <4>1. req[r] \in Request /\ "wait" \in Steps
        BY DEF LoopTypes, Steps
      <4>2. [req[r] EXCEPT !.step = "wait"] \in Request /\ [req[r] EXCEPT !.step = "wait"].step = "wait"
        BY <4>1, StepField
      <4>3. req' = [req EXCEPT ![r] = [req[r] EXCEPT !.step = "wait"]]
        BY <1>7, <2>2 DEF Submit
      <4> QED
        BY <4>2, <4>3 DEF LoopTypes
    <3>2. UNCHANGED loop /\ \A q \in Requests : q # r => req'[q] = req[q]
      BY <1>7, <2>2 DEF LoopTypes, Submit
    <3>3. req[r].step \notin {"new", "answered"}
      BY <1>7 DEF At, Submit
    <3> QED
      BY <3>1, <3>2, <3>3, GoOnTypes
  <2> QED
    BY <2>1, <2>2
<1>8. ASSUME NEW r \in Requests, TimeOut(r) PROVE LoopTypes'
  <2>1. req[r].step \notin {"new", "answered"} /\ Answer(r, "error") /\ "error" \in Answers
    BY <1>8 DEF TimeOut, At, Answers
  <2> QED
    BY <2>1, AnswerTypes
<1>9. ASSUME NEW p \in Processes, Finish(p) PROVE LoopTypes'
  <2>1. PICK i \in 1..Len(jobs[p]) :
          IF At(jobs[p][i], "wait") THEN Answer(jobs[p][i], "verdict") ELSE UNCHANGED <<req, loop>>
    BY <1>9 DEF Finish
  <2>2. jobs[p][i] \in Requests
    BY DEF PlainTypes
  <2>3. CASE At(jobs[p][i], "wait")
    BY <2>1, <2>2, <2>3, AnswerTypes DEF At, Answers
  <2>4. CASE ~At(jobs[p][i], "wait")
    BY <2>1, <2>4 DEF LoopTypes
  <2> QED
    BY <2>3, <2>4
<1>10. ASSUME NEW p \in Processes, Die(p) PROVE LoopTypes'
  <2> DEFINE waiting == {r \in Requests : ProcessOf[r] = p /\ At(r, "wait")}
  <2>1. \A r \in waiting : req[r].step \notin {"new", "answered"}
    BY DEF At
  <2>2. req' = [r \in Requests |->
          IF r \in waiting THEN [req[r] EXCEPT !.step = "answered", !.answer = "error"] ELSE req[r]]
    BY <1>10 DEF Die
  <2>3. loop' = Answered(waiting) /\ waiting \in SUBSET Requests
    BY <1>10 DEF Die
  <2> HIDE DEF waiting
  <2>4. \A r \in Requests : req'[r] \in Request /\ req'[r].step = IF r \in waiting THEN "answered" ELSE req[r].step
    <3> TAKE r \in Requests
    <3>1. req[r] \in Request /\ "answered" \in Steps /\ "error" \in Answers
      BY DEF LoopTypes, Steps, Answers
    <3>2. [req[r] EXCEPT !.step = "answered", !.answer = "error"] \in Request
          /\ [req[r] EXCEPT !.step = "answered", !.answer = "error"].step = "answered"
      BY <3>1, AnswerFields
    <3> QED
      BY <2>2, <3>1, <3>2
  <2>5. req' \in [Requests -> Request]
    BY <2>2, <2>4
  <2> QED
    BY <2>1, <2>3, <2>4, <2>5, AnsweredTypes
<1>11. CASE Expire \/ Tick
  BY <1>11 DEF Expire, Tick, LoopTypes
<1>12. CASE UNCHANGED vars
  BY <1>12 DEF vars, LoopTypes
<1> QED
  BY <1>1, <1>2, <1>3, <1>4, <1>5, <1>6, <1>7, <1>8, <1>9, <1>10, <1>11, <1>12 DEF Next, RequestStep

\* The window, the clock, the pools and the bounds keep their types.
LEMMA PlainStep == LoopTypes /\ PlainTypes /\ [Next]_vars => PlainTypes'
<1> SUFFICES ASSUME LoopTypes, PlainTypes, [Next]_vars PROVE PlainTypes'
  OBVIOUS
<1> USE RequestAssumption, BoundsAssumption, LimitAssumption DEF PlainTypes
<1>1. ASSUME NEW r \in Requests, Begin(r) PROVE PlainTypes'
  BY <1>1 DEF Begin
<1>2. ASSUME NEW r \in Requests, Check(r) PROVE PlainTypes'
  <2>1. [by |-> r, score |-> req[r].clock] \in Entry
    BY DEF LoopTypes, Request, Entry
  <2> QED
    BY <1>2, <2>1 DEF Check, CheckFails, Fault, Add, Recent
<1>3. ASSUME NEW r \in Requests, CheckFails(r) PROVE PlainTypes'
  <2>1. [by |-> r, score |-> req[r].clock] \in Entry
    BY DEF LoopTypes, Request, Entry
  <2> QED
    BY <1>3, <2>1 DEF Check, CheckFails, Fault, Add, Recent
<1>4. ASSUME NEW r \in Requests, Reject(r) PROVE PlainTypes'
  BY <1>4 DEF Reject, Answer, Answered, Newest
<1>5. ASSUME NEW r \in Requests, RejectFails(r) PROVE PlainTypes'
  BY <1>5 DEF RejectFails, Fault, Newest
<1>6. ASSUME NEW r \in Requests, Refuse(r) PROVE PlainTypes'
  BY <1>6 DEF Refuse, Answer, Answered
<1>7. ASSUME NEW r \in Requests, Submit(r) PROVE PlainTypes'
  <2>1. Append(jobs[ProcessOf[r]], r) \in Seq(Requests)
    OBVIOUS
  <2> QED
    BY <1>7, <2>1 DEF Submit
<1>8. ASSUME NEW r \in Requests, TimeOut(r) PROVE PlainTypes'
  BY <1>8 DEF TimeOut, Answer, Answered
<1>9. ASSUME NEW p \in Processes, Finish(p) PROVE PlainTypes'
  <2>1. PICK i \in 1..Len(jobs[p]) : jobs' = [jobs EXCEPT ![p] = Without(@, i)]
    BY <1>9 DEF Finish
  <2>2. Without(jobs[p], i) \in Seq(Requests)
    BY WithoutType
  <2>3. UNCHANGED <<window, expiry, now, broken, faults>>
    BY <1>9 DEF Finish
  <2> QED
    BY <2>1, <2>2, <2>3
<1>10. ASSUME NEW p \in Processes, Die(p) PROVE PlainTypes'
  <2>1. jobs' = [jobs EXCEPT ![p] = << >>] /\ broken' = broken \cup {p} /\ Fault /\ UNCHANGED <<window, expiry, now>>
    BY <1>10 DEF Die
  <2>2. << >> \in Seq(Requests)
    OBVIOUS
  <2> QED
    BY <2>1, <2>2 DEF Fault
<1>11. CASE Expire \/ Tick
  BY <1>11 DEF Expire, Tick
<1>12. CASE UNCHANGED vars
  BY <1>12 DEF vars
<1> QED
  BY <1>1, <1>2, <1>3, <1>4, <1>5, <1>6, <1>7, <1>8, <1>9, <1>10, <1>11, <1>12 DEF Next, RequestStep

-----------------------------------------------------------------------------
(* Rejected requests.                                                       *)

Rejecting == {r \in Requests : At(r, "reject")}

\* The invariant: the window is finite, and holds at most the limit, what was added
\* without an answer, and what is about to be removed.
Traces == IsFiniteSet(window) /\ RejectedLeaveNoTrace

\* Its three numbers are numbers.
LEMMA Numbers ==
  ASSUME TypeOK, Traces
  PROVE  /\ Cardinality(window) \in Nat /\ faults \in Nat /\ Limit \in Nat
         /\ IsFiniteSet(Rejecting) /\ Cardinality(Rejecting) \in Nat
         /\ Cardinality(window) <= Limit + faults + Cardinality(Rejecting)
<1>1. IsFiniteSet(Rejecting)
  BY RequestAssumption, FS_Subset DEF Rejecting
<1>2. faults \in Nat /\ Limit \in Nat
  BY LimitAssumption, BoundsAssumption DEF TypeOK
<1> QED
  BY <1>1, <1>2, FS_CardinalityType DEF Traces, RejectedLeaveNoTrace, Rejecting

\* When a request adds itself, what is recent and what is added is at most one
\* entry more than before, and one more than what is recent.
LEMMA AddedSize ==
  ASSUME TypeOK, Traces, NEW e, NEW time
  PROVE  /\ IsFiniteSet(Recent(time) \cup {e}) /\ Cardinality(Recent(time)) \in Nat
         /\ Cardinality(Recent(time) \cup {e}) \in Nat
         /\ Cardinality(Recent(time) \cup {e}) <= Cardinality(window) + 1
         /\ Cardinality(Recent(time) \cup {e}) <= Cardinality(Recent(time)) + 1
<1>1. IsFiniteSet(window) /\ Recent(time) \in SUBSET window
  BY DEF Traces, Recent
<1>2. IsFiniteSet(Recent(time)) /\ Cardinality(Recent(time)) <= Cardinality(window)
  BY <1>1, FS_Subset
<1>3. Cardinality(window) \in Nat /\ Cardinality(Recent(time)) \in Nat
  BY <1>1, <1>2, FS_CardinalityType
<1>4. /\ IsFiniteSet(Recent(time) \cup {e})
      /\ Cardinality(Recent(time) \cup {e}) = IF e \in Recent(time) THEN Cardinality(Recent(time)) ELSE Cardinality(Recent(time)) + 1
  BY <1>2, FS_AddElement
<1> QED
  BY <1>2, <1>3, <1>4

\* Removing an entry makes the window smaller by one.
LEMMA RemovedSize ==
  ASSUME TypeOK, Traces, NEW e \in window
  PROVE  IsFiniteSet(window \ {e}) /\ Cardinality(window \ {e}) = Cardinality(window) - 1
BY FS_RemoveElement DEF Traces

\* One request begins or ends to be about to remove an entry.
LEMMA RejectingSize ==
  ASSUME TypeOK, Traces, NEW r \in Requests,
         \A q \in Requests : q # r => req'[q] = req[q]
  PROVE  /\ ~At(r, "reject") /\ At(r, "reject")' => Cardinality(Rejecting') = Cardinality(Rejecting) + 1
         /\ At(r, "reject") /\ ~At(r, "reject")' => Cardinality(Rejecting') = Cardinality(Rejecting) - 1
         /\ (At(r, "reject") <=> At(r, "reject")') => Rejecting' = Rejecting
<1>1. IsFiniteSet(Rejecting)
  BY Numbers
<1>2. ASSUME ~At(r, "reject"), At(r, "reject")' PROVE Cardinality(Rejecting') = Cardinality(Rejecting) + 1
  <2>1. Rejecting' = Rejecting \cup {r} /\ r \notin Rejecting
    BY <1>2 DEF Rejecting, At
  <2> QED
    BY <1>1, <2>1, FS_AddElement
<1>3. ASSUME At(r, "reject"), ~At(r, "reject")' PROVE Cardinality(Rejecting') = Cardinality(Rejecting) - 1
  <2>1. Rejecting' = Rejecting \ {r} /\ r \in Rejecting
    BY <1>3 DEF Rejecting, At
  <2> QED
    BY <1>1, <2>1, FS_RemoveElement
<1>4. ASSUME At(r, "reject") <=> At(r, "reject")' PROVE Rejecting' = Rejecting
  BY <1>4 DEF Rejecting, At
<1> QED
  BY <1>2, <1>3, <1>4

\* A step that leaves the window, the faults and those to be rejected alone.
LEMMA NoTraceStutter ==
  ASSUME Traces, UNCHANGED <<window, faults>>,
         \A r \in Requests : At(r, "reject") <=> At(r, "reject")'
  PROVE  Traces'
<1>1. Rejecting' = Rejecting
  BY DEF Rejecting
<1> QED
  BY <1>1 DEF Traces, RejectedLeaveNoTrace, Rejecting

\* Initially the window is empty.
LEMMA TracesInit == Init => Traces
<1> SUFFICES ASSUME Init PROVE Traces
  OBVIOUS
<1>1. IsFiniteSet(window) /\ Cardinality(window) = 0 /\ faults = 0
  BY FS_EmptySet DEF Init
<1>2. IsFiniteSet(Rejecting) /\ Cardinality(Rejecting) \in Nat
  BY RequestAssumption, FS_Subset, FS_CardinalityType DEF Rejecting
<1> QED
  BY <1>1, <1>2, LimitAssumption DEF Traces, RejectedLeaveNoTrace, Rejecting

\* Every step keeps the bound.
LEMMA TracesStep == TypeOK /\ TypeOK' /\ Traces /\ [Next]_vars => Traces'
<1> SUFFICES ASSUME TypeOK, TypeOK', Traces, [Next]_vars PROVE Traces'
  OBVIOUS
<1>0. req \in [Requests -> Request]
  BY DEF TypeOK
<1>1. ASSUME NEW r \in Requests, Check(r) PROVE Traces'
  <2> DEFINE e == [by |-> r, score |-> req[r].clock]
  <2>1. At(r, "check") /\ window' = Recent(req[r].clock) \cup {e} /\ faults' = faults
    BY <1>1 DEF Check, Add
  <2>2. \A q \in Requests : q # r => req'[q] = req[q]
    BY <1>0, <1>1 DEF Check
  <2>3. CASE Cardinality(Recent(req[r].clock)) >= Limit
    <3>1. req' = [req EXCEPT ![r].step = "reject"]
      BY <1>1, <2>3 DEF Check
    <3>2. ~At(r, "reject") /\ At(r, "reject")'
      BY <1>0, <2>1, <3>1 DEF At, Request
    <3>3. Cardinality(Rejecting') = Cardinality(Rejecting) + 1
      BY <2>2, <3>2, RejectingSize
    <3>4. IsFiniteSet(window') /\ Cardinality(window') <= Cardinality(window) + 1 /\ Cardinality(window') \in Nat
      BY <2>1, AddedSize
    <3> QED
      BY <2>1, <3>3, <3>4, Numbers DEF Traces, RejectedLeaveNoTrace, Rejecting
  <2>4. CASE ~(Cardinality(Recent(req[r].clock)) >= Limit)
    <3>1. req' = [req EXCEPT ![r] = [@ EXCEPT !.step = "admitted", !.counted = TRUE]]
      BY <1>1, <2>4 DEF Check
    <3>2. ~At(r, "reject") /\ ~At(r, "reject")'
      BY <1>0, <2>1, <3>1 DEF At, Request
    <3>3. Rejecting' = Rejecting
      BY <2>2, <3>2, RejectingSize
    <3>4. /\ IsFiniteSet(window') /\ Cardinality(window') \in Nat
          /\ Cardinality(window') <= Cardinality(Recent(req[r].clock)) + 1
          /\ Cardinality(Recent(req[r].clock)) \in Nat
      BY <2>1, AddedSize
    <3>5. Cardinality(window') <= Limit
      BY <2>4, <3>4, Numbers
    <3> QED
      BY <2>1, <3>3, <3>4, <3>5, Numbers DEF Traces, RejectedLeaveNoTrace, Rejecting
  <2> QED
    BY <2>3, <2>4
<1>2. ASSUME NEW r \in Requests, CheckFails(r) PROVE Traces'
  <2>1. At(r, "check") /\ faults' = faults + 1 /\ req' = [req EXCEPT ![r].step = "admitted"]
    BY <1>2 DEF CheckFails, Fault
  <2>2. Rejecting' = Rejecting
    <3>1. ~At(r, "reject") /\ ~At(r, "reject")' /\ \A q \in Requests : q # r => req'[q] = req[q]
      BY <1>0, <2>1 DEF At, Request
    <3> QED
      BY <3>1, RejectingSize
  <2>3. IsFiniteSet(window') /\ Cardinality(window') <= Cardinality(window) + 1 /\ Cardinality(window') \in Nat
    <3>1. CASE window' = window
      BY <3>1, Numbers DEF Traces
    <3>2. CASE window' = Recent(req[r].clock) \cup {[by |-> r, score |-> req[r].clock]}
      BY <3>2, AddedSize
    <3> QED
      BY <1>2, <3>1, <3>2 DEF CheckFails, Add
  <2>4. Cardinality(window') <= Limit + faults' + Cardinality(Rejecting')
    BY <2>1, <2>2, <2>3, Numbers
  <2> QED
    BY <2>3, <2>4 DEF Traces, RejectedLeaveNoTrace, Rejecting
<1>3. ASSUME NEW r \in Requests, Reject(r) PROVE Traces'
  <2>1. At(r, "reject") /\ Answer(r, "429") /\ faults' = faults
    BY <1>3 DEF Reject
  <2>2. Cardinality(Rejecting') = Cardinality(Rejecting) - 1
    <3>1. ~At(r, "reject")' /\ \A q \in Requests : q # r => req'[q] = req[q]
      BY <1>0, <2>1 DEF At, Request, Answer
    <3> QED
      BY <2>1, <3>1, RejectingSize
  <2>3. CASE window = {}
    <3>1. window' = {} /\ IsFiniteSet(window') /\ Cardinality(window') = 0
      BY <1>3, <2>3, FS_EmptySet DEF Reject
    <3>2. IsFiniteSet(Rejecting') /\ Cardinality(Rejecting') \in Nat
      BY RequestAssumption, FS_Subset, FS_CardinalityType DEF Rejecting
    <3> QED
      BY <2>1, <3>1, <3>2, Numbers DEF Traces, RejectedLeaveNoTrace, Rejecting
  <2>4. CASE window # {}
    <3>1. PICK e \in window : window' = window \ {e}
      BY <1>3, <2>4 DEF Reject, Newest
    <3>2. IsFiniteSet(window') /\ Cardinality(window') = Cardinality(window) - 1
      BY <3>1, RemovedSize
    <3> QED
      BY <2>1, <2>2, <3>2, Numbers DEF Traces, RejectedLeaveNoTrace, Rejecting
  <2> QED
    BY <2>3, <2>4
<1>4. ASSUME NEW r \in Requests, RejectFails(r) PROVE Traces'
  <2>1. At(r, "reject") /\ faults' = faults + 1 /\ req' = [req EXCEPT ![r].step = "admitted"]
    BY <1>4 DEF RejectFails, Fault
  <2>2. Cardinality(Rejecting') = Cardinality(Rejecting) - 1
    <3>1. ~At(r, "reject")' /\ \A q \in Requests : q # r => req'[q] = req[q]
      BY <1>0, <2>1 DEF At, Request
    <3> QED
      BY <2>1, <3>1, RejectingSize
  <2>3. IsFiniteSet(window') /\ Cardinality(window') <= Cardinality(window) /\ Cardinality(window') \in Nat
    <3>1. window' \in SUBSET window
      BY <1>4 DEF RejectFails
    <3> QED
      BY <3>1, FS_Subset, FS_CardinalityType DEF Traces
  <2>4. Cardinality(window') <= Limit + faults' + Cardinality(Rejecting')
    BY <2>1, <2>2, <2>3, Numbers
  <2> QED
    BY <2>3, <2>4 DEF Traces, RejectedLeaveNoTrace, Rejecting
<1>5. ASSUME NEW r \in Requests, Begin(r) \/ Refuse(r) \/ Submit(r) \/ TimeOut(r) PROVE Traces'
  <2>1. UNCHANGED <<window, faults>>
    BY <1>5 DEF Begin, Refuse, Submit, TimeOut
  <2>2. \A q \in Requests : At(q, "reject") <=> At(q, "reject")'
    BY <1>0, <1>5 DEF Begin, Refuse, Submit, TimeOut, Answer, At, Request
  <2> QED
    BY <2>1, <2>2, NoTraceStutter
<1>6. ASSUME NEW p \in Processes, Finish(p) PROVE Traces'
  <2>1. UNCHANGED <<window, faults>>
    BY <1>6 DEF Finish
  <2>2. PICK i \in 1..Len(jobs[p]) :
          IF At(jobs[p][i], "wait") THEN Answer(jobs[p][i], "verdict") ELSE UNCHANGED <<req, loop>>
    BY <1>6 DEF Finish
  <2>3. \A q \in Requests : At(q, "reject") <=> At(q, "reject")'
    <3>1. CASE At(jobs[p][i], "wait")
      BY <1>0, <2>2, <3>1 DEF Answer, At, Request
    <3>2. CASE ~At(jobs[p][i], "wait")
      BY <2>2, <3>2 DEF At
    <3> QED
      BY <3>1, <3>2
  <2> QED
    BY <2>1, <2>3, NoTraceStutter
<1>7. ASSUME NEW p \in Processes, Die(p) PROVE Traces'
  <2>1. Rejecting' = Rejecting
    BY <1>0, <1>7 DEF Die, At, Request, Rejecting
  <2>2. window' = window /\ faults' = faults + 1
    BY <1>7 DEF Die, Fault
  <2> QED
    BY <2>1, <2>2, Numbers DEF Traces, RejectedLeaveNoTrace, Rejecting
<1>8. CASE Expire
  <2>1. window' = {} /\ faults' = faults /\ req' = req
    BY <1>8 DEF Expire
  <2>2. Rejecting' = Rejecting /\ IsFiniteSet(window') /\ Cardinality(window') = 0
    BY <2>1, FS_EmptySet DEF Rejecting, At
  <2>3. Cardinality(window') <= Limit + faults' + Cardinality(Rejecting')
    BY <2>1, <2>2, Numbers
  <2> QED
    BY <2>2, <2>3 DEF Traces, RejectedLeaveNoTrace, Rejecting
<1>9. CASE Tick \/ UNCHANGED vars
  <2>1. UNCHANGED <<window, faults, req>>
    BY <1>9 DEF Tick, vars
  <2> QED
    BY <2>1, NoTraceStutter DEF At
<1> QED
  BY <1>1, <1>2, <1>3, <1>4, <1>5, <1>6, <1>7, <1>8, <1>9 DEF Next, RequestStep

-----------------------------------------------------------------------------
(* The limit.                                                               *)

\* The requests that an entry of the window stands for.
Owners == Counted \cup Rejecting

\* Nobody is ahead of the clock, or behind it for longer than a check takes; what is
\* counted has been checked.
Clocks ==
  /\ \A r \in Requests : req[r].clock <= now
  /\ \A r \in Requests : At(r, "check") \/ At(r, "reject") => now <= req[r].clock + MaxDelay
  /\ \A r \in Requests : req[r].counted => req[r].step \notin {"new", "check", "reject"}

\* Entries are of requests that were checked, and expire before the key.
Entries ==
  \A e \in window :
    /\ req[e.by].step \notin {"new", "check"}
    /\ e.score <= now /\ e.score + Window <= expiry /\ expiry <= now + Window

\* Those who may have moved an entry from the time t on to before it.
Near(t) == {q \in Uncounted : t <= req[q].clock + MaxDelay}

\* An entry older than a request: each step of at most MaxDelay between the two was
\* made by another request.
Covers(r, e) ==
  \A t \in Nat : e.score < t /\ t <= req[r].clock =>
    req[r].clock < t + MaxDelay * Cardinality(Near(t))

\* Every owner has an entry of its own, or one that has expired.
Stands(m) ==
  /\ m \in [Owners -> Entry]
  /\ \A r \in Owners : Covers(r, m[r])
  /\ \A r \in Owners : m[r] \in window \/ m[r].score + Window <= now
  /\ \A r, q \in Owners : m[r] = m[q] /\ m[r] \in window => r = q

Represented == \E m : Stands(m)

\* The invariant.
Limited == Clocks /\ Entries /\ Represented /\ LimitHolds

\* Products with a delay.
LEMMA Products ==
  ASSUME NEW d \in Nat, NEW a \in Nat, NEW b \in Nat
  PROVE  /\ d * a \in Nat /\ d * (1 + a) = d + d * a
         /\ a <= b => d * a <= d * b
<1>1. d * a \in Nat /\ d * (1 + a) = d + d * a
  OBVIOUS
<1>2. ASSUME a <= b PROVE d * a <= d * b
  <2>1. PICK c \in Nat : b = a + c
    <3>1. b - a \in Nat /\ b = a + (b - a)
      BY <1>2
    <3> QED
      BY <3>1
  <2>2. d * b = d * a + d * c /\ d * c \in Nat /\ d * a \in Nat
    BY <2>1
  <2> QED
    BY <2>2
<1> QED
  BY <1>1, <1>2

\* The types of what the limit is about.
LEMMA LimitTypes ==
  ASSUME TypeOK
  PROVE  /\ \A r \in Requests :
              /\ req[r].clock \in Nat /\ req[r].counted \in BOOLEAN /\ req[r].step \in Steps
         /\ now \in Nat /\ MaxDelay \in Nat /\ Window \in Nat /\ MaxDelay < Window /\ Limit \in Nat
         /\ \A t : IsFiniteSet(Near(t)) /\ Cardinality(Near(t)) \in Nat
         /\ Counted \subseteq Requests /\ Owners \subseteq Requests /\ Uncounted \subseteq Requests
         /\ window \subseteq Entry /\ \A e \in Entry : e.score \in Nat /\ e.by \in Requests
<1>1. req \in [Requests -> Request] /\ now \in 0..MaxTime /\ MaxTime \in Nat
  BY BoundsAssumption DEF TypeOK
<1>2. \A r \in Requests : req[r].clock \in Nat /\ req[r].counted \in BOOLEAN /\ req[r].step \in Steps
  BY <1>1 DEF Request
<1>3. \A t : IsFiniteSet(Near(t)) /\ Cardinality(Near(t)) \in Nat
  <2> TAKE t
  <2>1. Near(t) \in SUBSET Requests
    BY DEF Near, Uncounted
  <2> QED
    BY <2>1, RequestAssumption, FS_Subset, FS_CardinalityType
<1>4. Counted \subseteq Requests /\ Owners \subseteq Requests /\ Uncounted \subseteq Requests
  BY DEF Counted, Owners, Rejecting, Uncounted
<1>5. window \subseteq Entry /\ \A e \in Entry : e.score \in Nat /\ e.by \in Requests
  BY <1>1 DEF TypeOK, Entry
<1> QED
  BY <1>1, <1>2, <1>3, <1>4, <1>5, LimitAssumption

\* The rest of a handler: the limiter has answered, and keeps no trace of it.
Handler(r) == Refuse(r) \/ Submit(r) \/ TimeOut(r)

\* What it changes of the requests.
OnlyHandled ==
  /\ UNCHANGED <<window, expiry, now>>
  /\ \A r \in Requests :
       /\ req'[r].clock = req[r].clock /\ req'[r].counted = req[r].counted
       /\ \/ req'[r].step = req[r].step
          \/ req[r].step \in {"admitted", "wait"} /\ req'[r].step \in {"wait", "answered"}

\* The steps of handlers and pools change no more than that.
LEMMA HandlerSteps ==
  ASSUME TypeOK, \/ \E r \in Requests : Handler(r)
                 \/ \E p \in Processes : Finish(p) \/ Die(p)
  PROVE  OnlyHandled
<1>0. req \in [Requests -> Request]
  BY DEF TypeOK
<1>1. ASSUME NEW r \in Requests, NEW answer, Answer(r, answer), At(r, "admitted") \/ At(r, "wait"),
             UNCHANGED <<window, expiry, now>>
      PROVE  OnlyHandled
  BY <1>0, <1>1 DEF Answer, At, Request, OnlyHandled
<1>2. ASSUME NEW r \in Requests, Refuse(r) \/ TimeOut(r) PROVE OnlyHandled
  BY <1>1, <1>2 DEF Refuse, TimeOut
<1>3. ASSUME NEW r \in Requests, Submit(r) PROVE OnlyHandled
  <2>1. CASE ProcessOf[r] \in broken
    BY <1>1, <1>3, <2>1 DEF Submit
  <2>2. CASE ProcessOf[r] \notin broken
    <3>1. req' = [req EXCEPT ![r].step = "wait"] /\ At(r, "admitted")
      BY <1>3, <2>2 DEF Submit
    <3>2. UNCHANGED <<window, expiry, now>>
      BY <1>3 DEF Submit
    <3> QED
      BY <1>0, <3>1, <3>2 DEF At, Request, OnlyHandled
  <2> QED
    BY <2>1, <2>2
<1>4. ASSUME NEW p \in Processes, Finish(p) PROVE OnlyHandled
  <2>1. PICK i \in 1..Len(jobs[p]) :
          IF At(jobs[p][i], "wait") THEN Answer(jobs[p][i], "verdict") ELSE UNCHANGED <<req, loop>>
    BY <1>4 DEF Finish
  <2>2. jobs[p][i] \in Requests
    BY DEF TypeOK
  <2>3. UNCHANGED <<window, expiry, now>>
    BY <1>4 DEF Finish
  <2>4. CASE At(jobs[p][i], "wait")
    BY <1>1, <2>1, <2>2, <2>3, <2>4
  <2>5. CASE ~At(jobs[p][i], "wait")
    BY <2>1, <2>3, <2>5 DEF OnlyHandled
  <2> QED
    BY <2>4, <2>5
<1>5. ASSUME NEW p \in Processes, Die(p) PROVE OnlyHandled
  <2> DEFINE waiting == {r \in Requests : ProcessOf[r] = p /\ At(r, "wait")}
  <2>1. req' = [r \in Requests |->
          IF r \in waiting THEN [req[r] EXCEPT !.step = "answered", !.answer = "error"] ELSE req[r]]
    BY <1>5 DEF Die
  <2>2. UNCHANGED <<window, expiry, now>> /\ \A r \in waiting : req[r].step = "wait"
    BY <1>5 DEF Die, At
  <2> HIDE DEF waiting
  <2>3. ASSUME NEW r \in Requests
        PROVE  /\ req'[r].clock = req[r].clock /\ req'[r].counted = req[r].counted
               /\ req'[r].step = IF r \in waiting THEN "answered" ELSE req[r].step
    BY <1>0, <2>1 DEF Request
  <2> QED
    BY <2>2, <2>3 DEF OnlyHandled
<1> QED
  BY <1>2, <1>3, <1>4, <1>5 DEF Handler


\* What each step of the limiter changes of the request that makes it, and that it
\* leaves the clock and the other requests alone.
Alone(r) == now' = now /\ \A q \in Requests : q # r => req'[q] = req[q]

\* The begin.
LEMMA BeginStep ==
  ASSUME TypeOK, NEW r \in Requests, Begin(r)
  PROVE  /\ Alone(r) /\ UNCHANGED <<window, expiry>> /\ At(r, "new")
         /\ req'[r].step = "check" /\ req'[r].clock = now /\ req'[r].counted = req[r].counted
<1>0. req \in [Requests -> Request]
  BY DEF TypeOK
<1>1. req' = [req EXCEPT ![r] = [req[r] EXCEPT !.step = "check", !.clock = now]]
  BY DEF Begin
<1>2. req'[r].step = "check" /\ req'[r].clock = now /\ req'[r].counted = req[r].counted
  BY <1>0, <1>1 DEF Request
<1>3. Alone(r)
  BY <1>0, <1>1 DEF Begin, Alone
<1> QED
  BY <1>2, <1>3 DEF Begin

\* The check.
LEMMA CheckStep ==
  ASSUME TypeOK, NEW r \in Requests, Check(r)
  PROVE  /\ Alone(r) /\ Add(r) /\ At(r, "check") /\ req'[r].clock = req[r].clock
         /\ \/ req'[r].step = "reject" /\ req'[r].counted = req[r].counted
            \/ /\ req'[r].step = "admitted" /\ req'[r].counted
               /\ ~(Cardinality(Recent(req[r].clock)) >= Limit)
<1>0. req \in [Requests -> Request]
  BY DEF TypeOK
<1>1. \/ req' = [req EXCEPT ![r].step = "reject"]
      \/ /\ req' = [req EXCEPT ![r] = [req[r] EXCEPT !.step = "admitted", !.counted = TRUE]]
         /\ ~(Cardinality(Recent(req[r].clock)) >= Limit)
  BY DEF Check
<1>2. /\ req'[r].clock = req[r].clock
      /\ \/ req'[r].step = "reject" /\ req'[r].counted = req[r].counted
         \/ /\ req'[r].step = "admitted" /\ req'[r].counted
            /\ ~(Cardinality(Recent(req[r].clock)) >= Limit)
  BY <1>0, <1>1 DEF Request
<1>3. Alone(r)
  BY <1>0, <1>1 DEF Check, Alone
<1> QED
  BY <1>2, <1>3 DEF Check

\* A check that Redis does not answer.
LEMMA CheckFailsStep ==
  ASSUME TypeOK, NEW r \in Requests, CheckFails(r)
  PROVE  /\ Alone(r) /\ (Add(r) \/ UNCHANGED <<window, expiry>>) /\ At(r, "check")
         /\ req'[r].clock = req[r].clock
         /\ req'[r].step = "admitted" /\ req'[r].counted = req[r].counted
<1>0. req \in [Requests -> Request]
  BY DEF TypeOK
<1>1. req' = [req EXCEPT ![r].step = "admitted"]
  BY DEF CheckFails
<1>2. /\ req'[r].clock = req[r].clock
      /\ req'[r].step = "admitted" /\ req'[r].counted = req[r].counted
  BY <1>0, <1>1 DEF Request
<1>3. Alone(r)
  BY <1>0, <1>1 DEF CheckFails, Alone
<1> QED
  BY <1>2, <1>3 DEF CheckFails

\* A rejection, whether or not Redis answers it.
LEMMA RejectStep ==
  ASSUME TypeOK, NEW r \in Requests, Reject(r) \/ RejectFails(r)
  PROVE  /\ Alone(r) /\ expiry' = expiry /\ At(r, "reject") /\ req'[r].clock = req[r].clock
         /\ window' = window \/ \E e \in Newest : window' = window \ {e}
         /\ req'[r].step \in {"admitted", "answered"} /\ req'[r].counted = req[r].counted
<1>0. req \in [Requests -> Request]
  BY DEF TypeOK
<1>1. \/ req' = [req EXCEPT ![r] = [req[r] EXCEPT !.step = "answered", !.answer = "429"]]
      \/ req' = [req EXCEPT ![r].step = "admitted"]
  BY DEF Reject, RejectFails, Answer
<1>2. /\ req'[r].clock = req[r].clock
      /\ req'[r].step \in {"admitted", "answered"} /\ req'[r].counted = req[r].counted
  BY <1>0, <1>1 DEF Request
<1>3. now' = now /\ expiry' = expiry /\ At(r, "reject")
  BY DEF Reject, RejectFails
<1>4. Alone(r)
  BY <1>0, <1>1, <1>3 DEF Alone
<1>5. window' = window \/ \E e \in Newest : window' = window \ {e}
  BY DEF Reject, RejectFails
<1> QED
  BY <1>2, <1>3, <1>4, <1>5

\* Nobody is counted, nobody's answer is taken back, and whoever has begun keeps the
\* time it read.
Going ==
  /\ now <= now' /\ Counted' = Counted /\ Uncounted \subseteq Uncounted'
  /\ Rejecting' \subseteq Rejecting
  /\ \A r \in Requests : req[r].step # "new" => req'[r].clock = req[r].clock

\* The steps of which that is true.
Goes(r) == Begin(r) \/ CheckFails(r) \/ Reject(r) \/ RejectFails(r)

\* They do.
LEMMA GoesOn ==
  ASSUME TypeOK, Clocks, OnlyHandled \/ Expire \/ Tick \/ UNCHANGED vars \/ \E r \in Requests : Goes(r)
  PROVE  Going
<1>0. \A r \in Requests : req[r].clock \in Nat /\ req[r].counted \in BOOLEAN
  BY LimitTypes
<1>n. now \in Nat
  BY LimitTypes
<1>1. CASE OnlyHandled
  BY <1>0, <1>n, <1>1 DEF OnlyHandled, Going, Counted, Uncounted, Rejecting, At
<1>2. CASE Expire \/ Tick \/ UNCHANGED vars
  <2>1. req' = req /\ now <= now'
    BY <1>n, <1>2 DEF Expire, Tick, vars
  <2> QED
    BY <2>1 DEF Going, Counted, Uncounted, Rejecting, At
<1>3. ASSUME NEW r \in Requests, Goes(r) PROVE Going
  <2>1. /\ Alone(r) /\ req'[r].counted = req[r].counted
        /\ req[r].step \in {"new", "check", "reject"} /\ req'[r].step # "reject"
        /\ req[r].step = "new" \/ req'[r].clock = req[r].clock
    <3>1. CASE Begin(r)
      BY <3>1, BeginStep DEF At
    <3>2. CASE CheckFails(r)
      BY <3>2, CheckFailsStep DEF At
    <3>3. CASE Reject(r) \/ RejectFails(r)
      BY <3>3, RejectStep DEF At
    <3> QED
      BY <1>3, <3>1, <3>2, <3>3 DEF Goes
  <2>2. now' = now /\ \A q \in Requests : q # r => req'[q] = req[q]
    BY <2>1 DEF Alone
  <2>3. Counted' = Counted
    BY <2>1, <2>2 DEF Counted
  <2>4. Uncounted \subseteq Uncounted' /\ Rejecting' \subseteq Rejecting
    BY <2>1, <2>2 DEF Uncounted, Rejecting, At
  <2> QED
    BY <1>n, <2>1, <2>2, <2>3, <2>4 DEF Going
<1> QED
  BY <1>1, <1>2, <1>3

\* A counted check changes nothing of the others.
LEMMA ChecksOn ==
  ASSUME TypeOK, Clocks, NEW r \in Requests, Check(r)
  PROVE  /\ now' = now /\ Uncounted' = Uncounted
         /\ \A q \in Requests : req'[q].clock = req[q].clock
         /\ Owners' = Owners \cup {r} /\ r \notin Owners
         /\ \/ Counted' = Counted
            \/ Counted' = Counted \cup {r} /\ ~(Cardinality(Recent(req[r].clock)) >= Limit)
<1>1. /\ Alone(r) /\ At(r, "check") /\ req'[r].clock = req[r].clock
      /\ \/ req'[r].step = "reject" /\ req'[r].counted = req[r].counted
         \/ /\ req'[r].step = "admitted" /\ req'[r].counted
            /\ ~(Cardinality(Recent(req[r].clock)) >= Limit)
  BY CheckStep
<1>2. now' = now /\ (\A q \in Requests : q # r => req'[q] = req[q]) /\ req[r].step = "check" /\ ~req[r].counted
  BY <1>1, LimitTypes DEF Alone, At, Clocks
<1>3. Uncounted' = Uncounted
  BY <1>1, <1>2 DEF Uncounted
<1>4. CASE req'[r].step = "reject" /\ req'[r].counted = req[r].counted
  <2>1. Counted' = Counted
    BY <1>2, <1>4 DEF Counted
  <2>2. Rejecting' = Rejecting \cup {r} /\ r \notin Rejecting /\ r \notin Counted
    BY <1>2, <1>4 DEF Rejecting, At, Counted
  <2> QED
    BY <1>1, <1>2, <1>3, <2>1, <2>2 DEF Owners
<1>5. CASE req'[r].step = "admitted" /\ req'[r].counted /\ ~(Cardinality(Recent(req[r].clock)) >= Limit)
  <2>1. Counted' = Counted \cup {r}
    BY <1>2, <1>5 DEF Counted
  <2>2. Rejecting' = Rejecting /\ r \notin Rejecting /\ r \notin Counted
    BY <1>2, <1>5 DEF Rejecting, At, Counted
  <2> QED
    BY <1>1, <1>2, <1>3, <1>5, <2>1, <2>2 DEF Owners
<1> QED
  BY <1>1, <1>4, <1>5

\* With more requests answered, an entry that could be moved so far still can.
LEMMA CoversStays ==
  ASSUME TypeOK, TypeOK', Clocks, Uncounted \subseteq Uncounted',
         \A q \in Requests : req[q].step # "new" => req'[q].clock = req[q].clock,
         NEW r \in Requests, req[r].step # "new", NEW e \in Entry, Covers(r, e)
  PROVE  Covers(r, e)'
<1>1. \A t : Near(t) \subseteq Near(t)'
  BY DEF Near, Uncounted
<1>2. ASSUME NEW t \in Nat, e.score < t, t <= req'[r].clock
      PROVE  req'[r].clock < t + MaxDelay * Cardinality(Near(t)')
  <2> DEFINE a == Cardinality(Near(t)) b == Cardinality(Near(t)')
  <2>1. IsFiniteSet(Near(t)') /\ a \in Nat /\ b \in Nat /\ MaxDelay \in Nat
    <3>1. a \in Nat /\ MaxDelay \in Nat
      BY LimitTypes
    <3>2. Near(t)' \in SUBSET Requests
      BY DEF Near, Uncounted
    <3> QED
      BY <3>1, <3>2, RequestAssumption, FS_Subset, FS_CardinalityType
  <2>2. a <= b
    BY <1>1, <2>1, FS_Subset
  <2>3. req'[r].clock = req[r].clock /\ req[r].clock \in Nat
    BY LimitTypes
  <2>4. req[r].clock < t + MaxDelay * a
    BY <1>2, <2>3 DEF Covers
  <2> HIDE DEF a, b
  <2>5. MaxDelay * a \in Nat /\ MaxDelay * b \in Nat /\ MaxDelay * a <= MaxDelay * b
    BY <2>1, <2>2, Products
  <2>6. req'[r].clock < t + MaxDelay * b
    BY <2>3, <2>4, <2>5
  <2> QED
    BY <2>6 DEF b
<1> QED
  BY <1>2 DEF Covers

\* Requests keep the entries they have, in a step that takes none that still count.
LEMMA StandsStays ==
  ASSUME TypeOK, TypeOK', Clocks, Going, NEW m, Stands(m),
         \A e \in window \ window' : e.score + Window <= now',
         \A e \in window' \ window : e.score + Window > now
  PROVE  Represented'
<1>0. /\ now \in Nat /\ now' \in Nat /\ now <= now' /\ Window \in Nat /\ window \subseteq Entry
      /\ \A e \in Entry : e.score \in Nat
  <2>1. now' \in Nat
    BY BoundsAssumption DEF TypeOK
  <2> QED
    BY <2>1, LimitTypes DEF Going
<1>1. Owners' \subseteq Owners /\ Owners \subseteq Requests
  BY LimitTypes DEF Owners, Going
<1>2. /\ m \in [Owners -> Entry]
      /\ \A r \in Owners : Covers(r, m[r])
      /\ \A r \in Owners : m[r] \in window \/ m[r].score + Window <= now
      /\ \A r, q \in Owners : m[r] = m[q] /\ m[r] \in window => r = q
  BY DEF Stands
<1>3. PICK n : n = [r \in Owners' |-> m[r]]
  OBVIOUS
<1>4. n \in [Owners' -> Entry] /\ \A r \in Owners' : r \in Owners /\ n[r] = m[r] /\ n[r] \in Entry
  BY <1>1, <1>2, <1>3
<1>5. ASSUME NEW r \in Owners' PROVE Covers(r, n[r])'
  <2>1. PICK e \in Entry : e = n[r] /\ e = m[r]
    BY <1>4
  <2>2. r \in Requests /\ req[r].step # "new" /\ Covers(r, e)
    BY <1>1, <1>2, <1>4, <2>1 DEF Owners, Counted, Rejecting, Clocks, At
  <2>3. Covers(r, e)'
    BY <2>2, CoversStays DEF Going
  <2> QED
    BY <2>1, <2>3
<1>6. ASSUME NEW r \in Owners' PROVE n[r] \in window' \/ n[r].score + Window <= now'
  <2>1. n[r] = m[r] /\ m[r].score \in Nat /\ (m[r] \in window \/ m[r].score + Window <= now)
    BY <1>0, <1>2, <1>4
  <2> QED
    BY <1>0, <2>1
<1>7. ASSUME NEW r \in Owners', NEW q \in Owners', n[r] = n[q], n[r] \in window' PROVE r = q
  <2>1. r \in Owners /\ q \in Owners /\ m[r] = m[q] /\ m[r] \in window' /\ m[r] = n[r]
    BY <1>4, <1>7
  <2>2. m[r] \in window
    <3> SUFFICES ASSUME m[r] \notin window PROVE FALSE
      OBVIOUS
    <3>1. m[r].score + Window <= now /\ m[r].score + Window > now /\ m[r].score \in Nat
      BY <1>0, <1>2, <1>4, <2>1
    <3> QED
      BY <1>0, <3>1
  <2> QED
    BY <1>2, <2>1, <2>2
<1>8. Stands(n)'
  BY <1>4, <1>5, <1>6, <1>7 DEF Stands
<1> QED
  BY <1>8 DEF Represented

\* A rejected request that takes another's entry leaves it its own: what may be
\* between the two is at most MaxDelay more, and one more request was answered.
LEMMA Exchange ==
  ASSUME TypeOK, TypeOK', Clocks, NEW r \in Requests, Reject(r) \/ RejectFails(r),
         NEW x \in Owners, NEW e \in Entry, Covers(r, e)
  PROVE  Covers(x, e)'
<1>0. /\ x \in Requests /\ req[r].clock \in Nat /\ req[x].clock \in Nat /\ now \in Nat /\ MaxDelay \in Nat
      /\ e.score \in Nat
  BY LimitTypes
<1>1. /\ Alone(r) /\ At(r, "reject") /\ req'[r].clock = req[r].clock
      /\ req'[r].step \in {"admitted", "answered"} /\ req'[r].counted = req[r].counted
  BY RejectStep
<1>2. req[x].clock <= now /\ now <= req[r].clock + MaxDelay /\ req'[x].clock = req[x].clock
  BY <1>0, <1>1 DEF Clocks, At, Alone
<1>3. Uncounted' = Uncounted \cup {r} /\ r \notin Uncounted
  <2>1. req[r].step = "reject" /\ ~req[r].counted /\ ~req'[r].counted
    BY <1>1, LimitTypes DEF At, Clocks
  <2> QED
    BY <1>1, <2>1 DEF Uncounted, Alone
<1>4. ASSUME NEW t \in Nat, e.score < t, t <= req'[x].clock
      PROVE  req'[x].clock < t + MaxDelay * Cardinality(Near(t)')
  <2>1. t <= req[x].clock /\ t <= req[r].clock + MaxDelay
    BY <1>0, <1>2, <1>4
  <2>2. Near(t)' = Near(t) \cup {r} /\ r \notin Near(t)
    <3>1. \A q \in Requests : req'[q].clock = req[q].clock
      BY <1>1 DEF Alone
    <3> QED
      BY <1>3, <2>1, <3>1 DEF Near, Uncounted
  <2> DEFINE a == Cardinality(Near(t))
  <2>3. IsFiniteSet(Near(t)) /\ a \in Nat
    BY LimitTypes
  <2>4. Cardinality(Near(t)') = 1 + a
    <3>1. Cardinality(Near(t) \cup {r}) = Cardinality(Near(t)) + 1
      BY <2>2, <2>3, FS_AddElement
    <3> QED
      BY <2>2, <2>3, <3>1
  <2>5. t <= req[r].clock => req[r].clock < t + MaxDelay * a
    BY <1>4 DEF Covers
  <2> HIDE DEF a
  <2>6. MaxDelay * a \in Nat /\ MaxDelay * (1 + a) = MaxDelay + MaxDelay * a
    BY <1>0, <2>3, Products
  <2>7. req[x].clock < t + (MaxDelay + MaxDelay * a)
    BY <1>0, <1>2, <2>5, <2>6, <1>4
  <2> QED
    BY <1>2, <2>4, <2>6, <2>7
<1> QED
  BY <1>4 DEF Covers

\* A rejection: whoever had the entry that is removed gets that of the rejected request.
LEMMA StandsRejected ==
  ASSUME TypeOK, TypeOK', Clocks, NEW r \in Requests, Reject(r) \/ RejectFails(r),
         NEW m, Stands(m), NEW e \in window, window' = window \ {e}
  PROVE  Represented'
<1>1. /\ Alone(r) /\ At(r, "reject") /\ req'[r].step \in {"admitted", "answered"}
      /\ req'[r].counted = req[r].counted /\ now' = now
  BY RejectStep DEF Alone
<1>2. Owners' = Owners \ {r} /\ r \in Owners /\ Owners \subseteq Requests
  <2>1. req[r].step = "reject" /\ ~req[r].counted /\ ~req'[r].counted /\ req'[r].step # "reject"
    BY <1>1, LimitTypes DEF At, Clocks
  <2>2. Counted' = Counted /\ r \notin Counted
    BY <1>1, <2>1 DEF Counted, Alone
  <2>3. Rejecting' = Rejecting \ {r} /\ r \in Rejecting
    BY <1>1, <2>1 DEF Rejecting, At, Alone
  <2> QED
    BY <2>2, <2>3, LimitTypes DEF Owners
<1>3. /\ m \in [Owners -> Entry]
      /\ \A q \in Owners : Covers(q, m[q])
      /\ \A q \in Owners : m[q] \in window \/ m[q].score + Window <= now
      /\ \A x, q \in Owners : m[x] = m[q] /\ m[x] \in window => x = q
  BY DEF Stands
<1>4. PICK n : n = [q \in Owners' |-> IF m[q] = e THEN m[r] ELSE m[q]]
  OBVIOUS
<1>5. /\ n \in [Owners' -> Entry]
      /\ \A q \in Owners' :
           /\ q \in Owners /\ q # r /\ n[q] \in Entry
           /\ (m[q] = e /\ n[q] = m[r]) \/ (m[q] # e /\ n[q] = m[q])
  BY <1>2, <1>3, <1>4
<1>6. ASSUME NEW q \in Owners' PROVE Covers(q, n[q])'
  <2>1. PICK f \in Entry : f = n[q]
    BY <1>5
  <2>2. CASE m[q] = e /\ n[q] = m[r]
    <3>1. Covers(r, f)
      BY <1>2, <1>3, <2>1, <2>2
    <3>2. Covers(q, f)'
      BY <1>5, <3>1, Exchange
    <3> QED
      BY <2>1, <3>2
  <2>3. CASE n[q] = m[q]
    <3>1. Covers(q, f) /\ q \in Requests /\ req[q].step # "new"
      BY <1>2, <1>3, <1>5, <2>1, <2>3 DEF Owners, Counted, Rejecting, Clocks, At
    <3>2. Going
      BY GoesOn DEF Goes
    <3>3. Covers(q, f)'
      BY <3>1, <3>2, CoversStays DEF Going
    <3> QED
      BY <2>1, <3>3
  <2> QED
    BY <1>5, <2>2, <2>3
<1>7. ASSUME NEW q \in Owners' PROVE n[q] \in window' \/ n[q].score + Window <= now'
  <2>1. CASE m[q] = e /\ n[q] = m[r]
    <3>1. m[r] # e
      BY <1>2, <1>3, <1>5, <2>1
    <3> QED
      BY <1>1, <1>2, <1>3, <2>1, <3>1
  <2>2. CASE m[q] # e /\ n[q] = m[q]
    BY <1>1, <1>3, <1>5, <2>2
  <2> QED
    BY <1>5, <2>1, <2>2
<1>8. ASSUME NEW x \in Owners', NEW q \in Owners', n[x] = n[q], n[x] \in window' PROVE x = q
  <2>1. n[x] \in window /\ n[q] \in window /\ x \in Owners /\ q \in Owners /\ r \in Owners /\ x # r /\ q # r
    BY <1>2, <1>5, <1>8
  <2>2. CASE m[x] = e /\ m[q] = e
    BY <1>3, <2>1, <2>2
  <2>3. CASE m[x] = e /\ m[q] # e
    <3>1. m[r] = m[q] /\ m[q] \in window
      BY <1>5, <1>8, <2>1, <2>3
    <3> QED
      BY <1>3, <2>1, <3>1
  <2>4. CASE m[x] # e /\ m[q] = e
    <3>1. m[r] = m[x] /\ m[x] \in window
      BY <1>5, <1>8, <2>1, <2>4
    <3> QED
      BY <1>3, <2>1, <3>1
  <2>5. CASE m[x] # e /\ m[q] # e
    <3>1. m[x] = m[q] /\ m[x] \in window
      BY <1>5, <1>8, <2>1, <2>5
    <3> QED
      BY <1>3, <2>1, <3>1
  <2> QED
    BY <2>2, <2>3, <2>4, <2>5
<1>9. Stands(n)'
  BY <1>5, <1>6, <1>7, <1>8 DEF Stands
<1> QED
  BY <1>9 DEF Represented

\* A check: the request gets the entry it adds.
LEMMA StandsChecked ==
  ASSUME TypeOK, TypeOK', Clocks, Entries, NEW r \in Requests, Check(r), NEW m, Stands(m)
  PROVE  Represented'
<1>0. /\ now \in Nat /\ Window \in Nat /\ MaxDelay \in Nat /\ MaxDelay < Window /\ window \subseteq Entry
      /\ req[r].clock \in Nat /\ \A e \in Entry : e.score \in Nat
  BY LimitTypes
<1>1. /\ now' = now /\ Uncounted' = Uncounted /\ Owners' = Owners \cup {r} /\ r \notin Owners
      /\ \A q \in Requests : req'[q].clock = req[q].clock
  BY ChecksOn
<1>2. PICK a : a = [by |-> r, score |-> req[r].clock]
  OBVIOUS
<1>3. /\ a \in Entry /\ a.by = r /\ a.score = req[r].clock
      /\ window' = Recent(req[r].clock) \cup {a} /\ At(r, "check")
  <2>1. window' = Recent(req[r].clock) \cup {a} /\ At(r, "check")
    BY <1>2, CheckStep DEF Add
  <2>2. a \in Entry /\ a.by = r /\ a.score = req[r].clock
    BY <1>2 DEF Entry, TypeOK, Request
  <2> QED
    BY <2>1, <2>2
<1>4. req[r].clock <= now /\ now <= req[r].clock + MaxDelay /\ Owners \subseteq Requests
  BY <1>3, LimitTypes DEF Clocks
<1>5. /\ m \in [Owners -> Entry]
      /\ \A q \in Owners : Covers(q, m[q])
      /\ \A q \in Owners : m[q] \in window \/ m[q].score + Window <= now
      /\ \A x, q \in Owners : m[x] = m[q] /\ m[x] \in window => x = q
  BY DEF Stands
<1>6. PICK n : n = [q \in Owners' |-> IF q = r THEN a ELSE m[q]]
  OBVIOUS
<1>7. /\ n \in [Owners' -> Entry] /\ n[r] = a
      /\ \A q \in Owners : q # r /\ q \in Owners' /\ n[q] = m[q] /\ m[q] \in Entry
      /\ \A q \in Owners' : q = r \/ q \in Owners
  BY <1>1, <1>3, <1>5, <1>6
<1>8. ASSUME NEW q \in Owners' PROVE Covers(q, n[q])'
  <2>1. PICK f \in Entry : f = n[q]
    BY <1>7
  <2>2. CASE q = r
    <3>1. f.score = req'[q].clock /\ f.score \in Nat
      BY <1>0, <1>1, <1>3, <1>7, <2>1, <2>2
    <3>2. Covers(q, f)'
      BY <3>1 DEF Covers
    <3> QED
      BY <2>1, <3>2
  <2>3. CASE q \in Owners
    <3>1. Covers(q, f) /\ q \in Requests /\ req[q].step # "new"
      BY <1>4, <1>5, <1>7, <2>1, <2>3 DEF Owners, Counted, Rejecting, Clocks, At
    <3>2. Covers(q, f)'
      BY <1>1, <3>1, CoversStays
    <3> QED
      BY <2>1, <3>2
  <2> QED
    BY <1>7, <2>2, <2>3
\* What has not expired by the time of the check stays.
<1>9. ASSUME NEW f \in Entry, f \in window, ~(f.score + Window <= now) PROVE f \in window'
  BY <1>0, <1>3, <1>4, <1>9 DEF Recent
<1>10. ASSUME NEW q \in Owners' PROVE n[q] \in window' \/ n[q].score + Window <= now'
  <2>1. CASE q = r
    BY <1>3, <1>7, <2>1
  <2>2. CASE q \in Owners
    BY <1>1, <1>5, <1>7, <1>9, <2>2
  <2> QED
    BY <1>7, <2>1, <2>2
\* Nobody has the new entry.
<1>11. ASSUME NEW q \in Owners PROVE m[q] # a
  <2> SUFFICES ASSUME m[q] = a PROVE FALSE
    OBVIOUS
  <2>1. CASE a \in window
    BY <1>3, <2>1 DEF Entries, At
  <2>2. CASE a.score + Window <= now
    BY <1>0, <1>3, <1>4, <2>2
  <2> QED
    BY <1>5, <2>1, <2>2
<1>12. ASSUME NEW x \in Owners', NEW q \in Owners', n[x] = n[q], n[x] \in window' PROVE x = q
  <2>1. CASE x = r \/ q = r
    BY <1>7, <1>11, <1>12, <2>1
  <2>2. CASE x # r /\ q # r
    <3>1. x \in Owners /\ q \in Owners /\ m[x] = m[q] /\ m[x] # a /\ m[x] \in window'
      BY <1>7, <1>11, <1>12, <2>2
    <3>2. m[x] \in window
      BY <1>3, <3>1 DEF Recent
    <3> QED
      BY <1>5, <3>1, <3>2
  <2> QED
    BY <2>1, <2>2
<1>13. Stands(n)'
  BY <1>7, <1>8, <1>10, <1>12 DEF Stands
<1> QED
  BY <1>13 DEF Represented

\* Clocks and entries stay as they are said to be.
LEMMA ClocksStep == TypeOK /\ TypeOK' /\ Clocks /\ [Next]_vars => Clocks'
<1> SUFFICES ASSUME TypeOK, TypeOK', Clocks, [Next]_vars PROVE Clocks'
  OBVIOUS
<1>0. /\ now \in Nat /\ MaxDelay \in Nat
      /\ \A r \in Requests : req[r].clock \in Nat /\ req[r].counted \in BOOLEAN
  BY LimitTypes
<1>1. ASSUME NEW r \in Requests, Goes(r) \/ Check(r) PROVE Clocks'
  <2>1. /\ Alone(r)
        /\ \/ req'[r].clock = now
           \/ /\ req'[r].clock = req[r].clock /\ req[r].clock <= now
              /\ now <= req[r].clock + MaxDelay
        /\ req'[r].counted => req'[r].step \notin {"new", "check", "reject"}
    <3>1. CASE Begin(r)
      <4>1. ~req[r].counted
        BY <3>1, BeginStep DEF Clocks, At
      <4> QED
        BY <3>1, <4>1, BeginStep
    <3>2. CASE CheckFails(r)
      BY <3>2, CheckFailsStep DEF At, Clocks
    <3>3. CASE Reject(r) \/ RejectFails(r)
      BY <3>3, RejectStep DEF At, Clocks
    <3>4. CASE Check(r)
      <4>1. ~req[r].counted
        BY <3>4, CheckStep DEF Clocks, At
      <4> QED
        BY <3>4, <4>1, CheckStep DEF At, Clocks
    <3> QED
      BY <1>1, <3>1, <3>2, <3>3, <3>4 DEF Goes
  <2>2. now' = now /\ \A q \in Requests : q # r => req'[q] = req[q]
    BY <2>1 DEF Alone
  <2> QED
    BY <1>0, <2>1, <2>2 DEF Clocks, At
<1>2. CASE OnlyHandled
  BY <1>0, <1>2 DEF OnlyHandled, Clocks, At
<1>3. CASE Tick
  <2>1. /\ req' = req /\ now' = now + 1
        /\ \A r \in Requests : At(r, "check") \/ At(r, "reject") => now' <= req[r].clock + MaxDelay
    BY <1>3 DEF Tick
  <2> QED
    BY <1>0, <2>1 DEF Clocks, At
<1>4. CASE Expire \/ UNCHANGED vars
  BY <1>4 DEF Expire, vars, Clocks, At
<1> QED
  BY <1>1, <1>2, <1>3, <1>4, HandlerSteps DEF Next, RequestStep, Goes, Handler

\* The entries.
LEMMA EntriesStep == TypeOK /\ TypeOK' /\ Clocks /\ Entries /\ [Next]_vars => Entries'
<1> SUFFICES ASSUME TypeOK, TypeOK', Clocks, Entries, [Next]_vars PROVE Entries'
  OBVIOUS
<1>0. /\ now \in Nat /\ expiry \in Nat /\ Window \in Nat /\ window \subseteq Entry
      /\ \A e \in Entry : e.score \in Nat /\ e.by \in Requests
  BY LimitTypes DEF TypeOK
\* Nobody goes back to an earlier step, and only additions have the key kept longer.
<1>1. ASSUME window' \subseteq window, expiry' = expiry, now' \in Nat, now <= now',
             \A r \in Requests : req[r].step \notin {"new", "check"} => req'[r].step \notin {"new", "check"}
      PROVE  Entries'
  <2>1. ASSUME NEW e \in window'
        PROVE  /\ req'[e.by].step \notin {"new", "check"}
               /\ e.score <= now' /\ e.score + Window <= expiry' /\ expiry' <= now' + Window
    <3>1. e \in window /\ e \in Entry /\ e.by \in Requests /\ e.score \in Nat
      BY <1>0, <1>1, <2>1
    <3>2. /\ req[e.by].step \notin {"new", "check"}
          /\ e.score <= now /\ e.score + Window <= expiry /\ expiry <= now + Window
      BY <3>1 DEF Entries
    <3> QED
      BY <1>0, <1>1, <3>1, <3>2
  <2> QED
    BY <2>1 DEF Entries
\* An addition.
<1>2. ASSUME NEW r \in Requests, Alone(r), Add(r), At(r, "check"),
             req'[r].step \in {"reject", "admitted"}
      PROVE  Entries'
  <2>1. PICK a : a = [by |-> r, score |-> req[r].clock]
    OBVIOUS
  <2>2. a.by = r /\ a.score = req[r].clock /\ req[r].clock \in Nat /\ req[r].clock <= now
    BY <2>1, LimitTypes DEF Clocks
  <2>3. window' \subseteq window \cup {a} /\ expiry' = now + Window /\ now' = now
    BY <1>2, <2>1 DEF Add, Recent, Alone
  <2>4. ASSUME NEW e \in window'
        PROVE  /\ req'[e.by].step \notin {"new", "check"}
               /\ e.score <= now' /\ e.score + Window <= expiry' /\ expiry' <= now' + Window
    <3>1. CASE e = a
      BY <1>0, <1>2, <2>2, <2>3, <3>1
    <3>2. CASE e \in window
      <4>1. e.by \in Requests /\ e.score \in Nat
        BY <1>0, <3>2
      <4>2. req[e.by].step \notin {"new", "check"} /\ e.score <= now
        BY <3>2 DEF Entries
      <4>3. req'[e.by] = req[e.by]
        BY <1>2, <4>1, <4>2 DEF Alone, At
      <4> QED
        BY <1>0, <2>3, <4>1, <4>2, <4>3
    <3> QED
      BY <2>3, <3>1, <3>2
  <2> QED
    BY <2>4 DEF Entries
<1>3. ASSUME NEW r \in Requests, Check(r) PROVE Entries'
  BY <1>2, <1>3, CheckStep
<1>4. ASSUME NEW r \in Requests, CheckFails(r) PROVE Entries'
  <2>1. /\ Alone(r) /\ At(r, "check") /\ req'[r].step = "admitted"
        /\ Add(r) \/ UNCHANGED <<window, expiry>>
    BY <1>4, CheckFailsStep
  <2>2. CASE Add(r)
    BY <1>2, <2>1, <2>2
  <2>3. CASE UNCHANGED <<window, expiry>>
    BY <1>0, <1>1, <2>1, <2>3 DEF Alone
  <2> QED
    BY <2>1, <2>2, <2>3
<1>5. ASSUME NEW r \in Requests, Begin(r) \/ Reject(r) \/ RejectFails(r) PROVE Entries'
  <2>1. /\ Alone(r) /\ expiry' = expiry /\ window' \subseteq window
        /\ req[r].step = "new" \/ req'[r].step \in {"admitted", "answered"}
    <3>1. CASE Begin(r)
      BY <3>1, BeginStep DEF At
    <3>2. CASE Reject(r) \/ RejectFails(r)
      BY <3>2, RejectStep
    <3> QED
      BY <1>5, <3>1, <3>2
  <2> QED
    BY <1>0, <1>1, <2>1 DEF Alone
<1>6. CASE OnlyHandled
  BY <1>0, <1>1, <1>6 DEF OnlyHandled
<1>7. CASE Tick \/ Expire \/ UNCHANGED vars
  <2>1. window' \subseteq window /\ expiry' = expiry /\ req' = req /\ (now' = now \/ now' = now + 1)
    BY <1>7 DEF Tick, Expire, vars
  <2> QED
    BY <1>0, <1>1, <2>1
<1> QED
  BY <1>3, <1>4, <1>5, <1>6, <1>7, HandlerSteps DEF Next, RequestStep, Handler

\* Every counted request, and every one about to be rejected, keeps an entry.
LEMMA RepresentedStep ==
  TypeOK /\ TypeOK' /\ Clocks /\ Entries /\ Represented /\ [Next]_vars => Represented'
<1> SUFFICES ASSUME TypeOK, TypeOK', Clocks, Entries, Represented, [Next]_vars PROVE Represented'
  OBVIOUS
<1>0. /\ now \in Nat /\ Window \in Nat /\ MaxDelay \in Nat /\ MaxDelay < Window /\ window \subseteq Entry
      /\ \A e \in Entry : e.score \in Nat
  BY LimitTypes
<1>m. PICK m : Stands(m)
  BY DEF Represented
<1>1. ASSUME Going, UNCHANGED window PROVE Represented'
  BY <1>1, <1>m, StandsStays
<1>2. ASSUME NEW r \in Requests, Begin(r) PROVE Represented'
  <2>1. Going /\ UNCHANGED window
    BY <1>2, GoesOn, BeginStep DEF Goes
  <2> QED
    BY <1>1, <2>1
<1>3. ASSUME NEW r \in Requests, Check(r) PROVE Represented'
  BY <1>3, <1>m, StandsChecked
<1>4. ASSUME NEW r \in Requests, CheckFails(r) PROVE Represented'
  <2>1. Going /\ Alone(r) /\ At(r, "check") /\ (Add(r) \/ UNCHANGED window)
    BY <1>4, GoesOn, CheckFailsStep DEF Goes
  <2>2. CASE UNCHANGED window
    BY <1>1, <2>1, <2>2
  <2>3. CASE Add(r)
    <3>1. req[r].clock \in Nat /\ req[r].clock <= now /\ now <= req[r].clock + MaxDelay /\ now' = now
      BY <2>1, LimitTypes DEF Clocks, Alone
    <3>2. ASSUME NEW e \in window \ window' PROVE e.score + Window <= now'
      BY <1>0, <2>3, <3>1, <3>2 DEF Add, Recent
    <3>3. ASSUME NEW e \in window' \ window PROVE e.score + Window > now
      <4>1. e.score = req[r].clock
        BY <2>3, <3>3 DEF Add, Recent
      <4> QED
        BY <1>0, <3>1, <4>1
    <3> QED
      BY <1>m, <2>1, <3>2, <3>3, StandsStays
  <2> QED
    BY <2>1, <2>2, <2>3
<1>5. ASSUME NEW r \in Requests, Reject(r) \/ RejectFails(r) PROVE Represented'
  <2>1. window' = window \/ \E e \in Newest : window' = window \ {e}
    BY <1>5, RejectStep
  <2>2. CASE window' = window
    BY <1>1, <1>5, <2>2, GoesOn DEF Goes
  <2>3. CASE \E e \in Newest : window' = window \ {e}
    <3>1. PICK e \in window : window' = window \ {e}
      BY <2>3 DEF Newest
    <3> QED
      BY <1>5, <1>m, <3>1, StandsRejected
  <2> QED
    BY <2>1, <2>2, <2>3
<1>6. CASE OnlyHandled
  BY <1>1, <1>6, GoesOn DEF OnlyHandled
<1>7. CASE Expire
  <2>1. window' = {} /\ now' = now /\ now = expiry
    BY <1>7 DEF Expire
  <2>2. \A e \in window \ window' : e.score + Window <= now'
    BY <2>1 DEF Entries
  <2> QED
    BY <1>m, <1>7, <2>1, <2>2, GoesOn, StandsStays
<1>8. CASE Tick \/ UNCHANGED vars
  BY <1>1, <1>8, GoesOn DEF Tick, vars
<1> QED
  BY <1>2, <1>3, <1>4, <1>5, <1>6, <1>7, <1>8, HandlerSteps DEF Next, RequestStep, Handler

\* Those who count towards the slack of a request.
Missed(r) == {q \in Uncounted : req[r].clock < req[q].clock + MaxDelay + Window}

\* The slack, as a number.
LEMMA SlackType ==
  ASSUME TypeOK, NEW r \in Requests
  PROVE  /\ IsFiniteSet(Missed(r)) /\ Cardinality(Missed(r)) \in Nat
         /\ MaxDelay * Cardinality(Missed(r)) \in Nat
         /\ Slack(r) = MaxDelay + MaxDelay * Cardinality(Missed(r))
<1>1. Missed(r) \in SUBSET Requests
  BY DEF Missed, Uncounted
<1>2. IsFiniteSet(Missed(r)) /\ Cardinality(Missed(r)) \in Nat
  BY <1>1, RequestAssumption, FS_Subset, FS_CardinalityType
<1>3. PICK k \in Nat : k = Cardinality(Missed(r))
  BY <1>2
<1>4. MaxDelay * k \in Nat /\ MaxDelay * (1 + k) = MaxDelay + MaxDelay * k
  BY LimitAssumption, Products
<1>5. Slack(r) = MaxDelay * (1 + k)
  BY <1>3 DEF Slack, Missed
<1> QED
  BY <1>2, <1>3, <1>4, <1>5

\* When a check counts, the entry of whoever was counted less than a window ago,
\* less the slack, is still there and recent.
LEMMA StillRecent ==
  ASSUME TypeOK, Clocks, NEW m, Stands(m),
         NEW r \in Requests, NEW z \in Requests, NEW x \in Counted,
         req[r].clock <= req[x].clock, req[r].clock <= req[z].clock,
         req[z].clock + Slack(r) < req[r].clock + Window, now <= req[z].clock + MaxDelay
  PROVE  m[x] \in Recent(req[z].clock)
<1> DEFINE c == req[r].clock   d == req[z].clock   e == m[x]   k == Cardinality(Missed(r))
<1>0. /\ c \in Nat /\ d \in Nat /\ req[x].clock \in Nat /\ x \in Requests /\ x \in Owners
      /\ MaxDelay \in Nat /\ Window \in Nat /\ now \in Nat
  BY LimitTypes DEF Owners
<1>1. e \in Entry /\ e.score \in Nat /\ Covers(x, e) /\ (e \in window \/ e.score + Window <= now)
  BY <1>0, LimitTypes DEF Stands
<1>2. k \in Nat /\ MaxDelay * k \in Nat /\ Slack(r) = MaxDelay + MaxDelay * k
  BY SlackType
<1> SUFFICES ASSUME e \notin Recent(d) PROVE FALSE
  OBVIOUS
<1>3. e.score + Window <= d + MaxDelay
  BY <1>0, <1>1 DEF Recent
<1>4. e.score + MaxDelay * k < c
  BY <1>0, <1>1, <1>2, <1>3
\* A time between the entry and r, less than a window before r.
<1>5. PICK t \in Nat : e.score < t /\ t <= c /\ c < t + Window /\ t + MaxDelay * k <= c
  <2>1. CASE c < e.score + 1 + Window
    <3>1. e.score + 1 \in Nat /\ e.score < e.score + 1 /\ e.score + 1 <= c
          /\ c < (e.score + 1) + Window /\ (e.score + 1) + MaxDelay * k <= c
      BY <1>0, <1>1, <1>2, <1>4, <2>1
    <3> QED
      BY <3>1
  <2>2. CASE ~(c < e.score + 1 + Window)
    <3>1. d + MaxDelay + MaxDelay * k < c + Window
      BY <1>0, <1>2
    <3>2. MaxDelay * k < Window
      BY <1>0, <1>2, <3>1
    <3>3. /\ c - Window + 1 \in Nat /\ e.score < c - Window + 1 /\ c - Window + 1 <= c
          /\ c < (c - Window + 1) + Window /\ (c - Window + 1) + MaxDelay * k <= c
      BY <1>0, <1>1, <1>2, <2>2, <3>2
    <3> QED
      BY <3>3
  <2> QED
    BY <2>1, <2>2
<1>6. Near(t) \subseteq Missed(r)
  <2>1. ASSUME NEW q \in Near(t) PROVE q \in Missed(r)
    <3>1. q \in Uncounted /\ t <= req[q].clock + MaxDelay /\ req[q].clock \in Nat
      BY LimitTypes DEF Near
    <3>2. c < req[q].clock + MaxDelay + Window
      BY <1>0, <1>5, <3>1
    <3> QED
      BY <3>1, <3>2 DEF Missed
  <2> QED
    BY <2>1
<1>7. MaxDelay * Cardinality(Near(t)) <= MaxDelay * k /\ MaxDelay * Cardinality(Near(t)) \in Nat
  <2>1. Cardinality(Near(t)) <= k /\ Cardinality(Near(t)) \in Nat
    BY <1>6, LimitTypes, SlackType, FS_Subset
  <2>2. PICK n \in Nat : n = Cardinality(Near(t))
    BY <2>1
  <2>3. PICK l \in Nat : l = k
    BY <1>2
  <2>4. MaxDelay * n <= MaxDelay * l /\ MaxDelay * n \in Nat
    BY <1>0, <2>1, <2>2, <2>3, Products
  <2> QED
    BY <2>2, <2>3, <2>4
<1>8. req[x].clock < t + MaxDelay * Cardinality(Near(t))
  <2>1. t <= req[x].clock
    BY <1>0, <1>5
  <2> QED
    BY <1>1, <1>5, <2>1 DEF Covers
<1>9. req[x].clock < c
  BY <1>0, <1>2, <1>5, <1>7, <1>8
<1> QED
  BY <1>0, <1>9

\* Where nobody is counted, the spans only get shorter.
LEMMA SpanShrinks ==
  ASSUME TypeOK, TypeOK', Clocks, Counted' = Counted, Uncounted \subseteq Uncounted',
         \A q \in Requests : req[q].step # "new" => req'[q].clock = req[q].clock,
         NEW r \in Counted
  PROVE  Span(r)' \subseteq Span(r)
<1>1. r \in Requests /\ \A q \in Counted : q \in Requests /\ req'[q].clock = req[q].clock /\ req[q].clock \in Nat
  BY LimitTypes DEF Counted, Clocks
<1>2. Missed(r) \subseteq Missed(r)'
  BY <1>1 DEF Missed, Uncounted
<1>3. PICK a \in Nat, b \in Nat : a = Cardinality(Missed(r)) /\ b = Cardinality(Missed(r)')
  <2>1. Missed(r)' \in SUBSET Requests
    BY DEF Missed, Uncounted
  <2> QED
    BY <1>1, <2>1, RequestAssumption, FS_Subset, FS_CardinalityType, SlackType
<1>4. a <= b
  <2>1. Missed(r)' \in SUBSET Requests
    BY DEF Missed, Uncounted
  <2>2. IsFiniteSet(Missed(r)')
    BY <2>1, RequestAssumption, FS_Subset
  <2> QED
    BY <1>2, <1>3, <2>2, FS_Subset
<1>5. /\ MaxDelay * a \in Nat /\ MaxDelay * b \in Nat /\ MaxDelay * a <= MaxDelay * b
      /\ MaxDelay * (1 + b) = MaxDelay + MaxDelay * b /\ MaxDelay \in Nat
  BY <1>4, LimitAssumption, Products
<1>6. Slack(r) = MaxDelay + MaxDelay * a /\ Slack(r)' = MaxDelay * (1 + b)
  BY <1>1, <1>3, SlackType DEF Slack, Missed
<1>7. Slack(r) \in Nat /\ Slack(r)' \in Nat /\ Slack(r) <= Slack(r)' /\ Window \in Nat
  BY <1>5, <1>6, LimitAssumption
<1>8. ASSUME NEW q \in Span(r)' PROVE q \in Span(r)
  <2>1. q \in Counted /\ req'[r].clock <= req'[q].clock /\ req'[q].clock + Slack(r)' < req'[r].clock + Window
    BY <1>8 DEF Span
  <2>2. req[r].clock <= req[q].clock /\ req[q].clock + Slack(r) < req[r].clock + Window
    BY <1>1, <1>7, <2>1
  <2> QED
    BY <2>1, <2>2 DEF Span
<1> QED
  BY <1>8

\* A span is finite, and a smaller one no longer.
LEMMA SpanSize ==
  ASSUME NEW S, NEW T, S \subseteq T, T \subseteq Requests
  PROVE  Cardinality(S) <= Cardinality(T) /\ Cardinality(S) \in Nat /\ Cardinality(T) \in Nat
BY RequestAssumption, FS_Subset, FS_CardinalityType

\* The check that counts finds an entry for everybody in the spans that it is in.
LEMMA SpanCounts ==
  ASSUME TypeOK, TypeOK', Traces, Clocks, Represented, LimitHolds,
         NEW z \in Requests, Check(z), Counted' = Counted \cup {z},
         ~(Cardinality(Recent(req[z].clock)) >= Limit)
  PROVE  LimitHolds'
<1>1. /\ now' = now /\ Uncounted' = Uncounted /\ z \notin Owners
      /\ \A q \in Requests : req'[q].clock = req[q].clock
  BY ChecksOn
<1>2. z \notin Counted /\ Counted \subseteq Requests /\ Limit \in Nat
  BY <1>1, LimitTypes DEF Owners
<1>3. now <= req[z].clock + MaxDelay /\ req[z].clock \in Nat
  BY CheckStep, LimitTypes DEF Clocks
<1>4. ASSUME NEW r \in Counted' PROVE Cardinality(Span(r)') <= Limit
  <2>0. r \in Requests /\ (r = z \/ r \in Counted) /\ req[r].clock \in Nat
    BY <1>2, LimitTypes
  <2>1. Slack(r)' = Slack(r)
    <3>1. Missed(r)' = Missed(r)
      BY <1>1, <2>0 DEF Missed, Uncounted
    <3> QED
      BY <3>1 DEF Slack, Missed
  <2>2. PICK S : S = Span(r)'
    OBVIOUS
  <2>3. S = {q \in Counted \cup {z} : /\ req[r].clock <= req[q].clock
                                     /\ req[q].clock + Slack(r) < req[r].clock + Window}
    <3>1. \A q \in Counted \cup {z} : req'[q].clock = req[q].clock /\ req'[r].clock = req[r].clock
      BY <1>1, <1>2, <2>0
    <3> QED
      BY <2>1, <2>2, <3>1 DEF Span
  <2>4. CASE z \notin S /\ r \in Counted
    <3>1. S \subseteq Span(r) /\ Span(r) \subseteq Requests
      BY <1>2, <2>3, <2>4 DEF Span
    <3>2. Cardinality(S) <= Cardinality(Span(r)) /\ Cardinality(S) \in Nat /\ Cardinality(Span(r)) \in Nat
      BY <3>1, SpanSize
    <3>3. Cardinality(Span(r)) <= Limit
      BY <2>4 DEF LimitHolds
    <3> QED
      BY <1>2, <2>2, <3>2, <3>3
  <2>5. CASE z \notin S /\ r = z
    <3>1. Slack(r) \in Nat /\ Window \in Nat
      BY <2>0, SlackType, LimitAssumption
    <3>2. ~(req[r].clock + Slack(r) < req[r].clock + Window)
      BY <1>3, <2>3, <2>5
    <3>3. ASSUME NEW q \in S PROVE FALSE
      <4>1. q \in Requests /\ req[q].clock \in Nat
        BY <1>2, <2>3, LimitTypes
      <4>2. req[r].clock <= req[q].clock /\ req[q].clock + Slack(r) < req[r].clock + Window
        BY <2>3
      <4> QED
        BY <2>0, <3>1, <3>2, <4>1, <4>2
    <3>4. S = {}
      BY <3>3
    <3> QED
      BY <1>2, <2>2, <3>4, FS_EmptySet
  <2>6. CASE z \in S
    <3>1. req[r].clock <= req[z].clock /\ req[z].clock + Slack(r) < req[r].clock + Window
      BY <2>3, <2>6
    <3>2. PICK m : Stands(m)
      BY DEF Represented
    <3>3. PICK T : T = S \ {z}
      OBVIOUS
    <3>4. ASSUME NEW x \in T PROVE x \in Owners /\ m[x] \in Recent(req[z].clock) /\ m[x] \in window
      <4>1. x \in Counted /\ req[r].clock <= req[x].clock
        BY <2>3, <3>3
      <4>2. m[x] \in Recent(req[z].clock)
        BY <1>3, <2>0, <3>1, <3>2, <4>1, StillRecent
      <4> QED
        BY <4>1, <4>2 DEF Recent, Owners
    <3>5. PICK f : f = [x \in T |-> m[x]]
      OBVIOUS
    <3>6. f \in Injection(T, Recent(req[z].clock))
      <4>1. f \in [T -> Recent(req[z].clock)]
        BY <3>4, <3>5
      <4>2. ASSUME NEW x \in T, NEW y \in T, f[x] = f[y] PROVE x = y
        <5>1. m[x] = m[y] /\ x \in Owners /\ y \in Owners /\ m[x] \in window
          BY <3>4, <3>5, <4>2
        <5> QED
          BY <3>2, <5>1 DEF Stands
      <4> QED
        BY <4>1, <4>2 DEF Injection, IsInjective
    <3>7. IsFiniteSet(Recent(req[z].clock)) /\ Cardinality(Recent(req[z].clock)) \in Nat
      <4>1. Recent(req[z].clock) \in SUBSET window /\ IsFiniteSet(window)
        BY DEF Recent, Traces
      <4> QED
        BY <4>1, FS_Subset, FS_CardinalityType
    <3>8. Cardinality(T) <= Cardinality(Recent(req[z].clock))
      BY <3>6, <3>7, FS_Injection
    <3>9. IsFiniteSet(S) /\ Cardinality(T) = Cardinality(S) - 1 /\ Cardinality(S) \in Nat
      <4>1. S \in SUBSET Requests
        BY <1>2, <2>3
      <4>2. IsFiniteSet(S)
        BY <4>1, RequestAssumption, FS_Subset
      <4> QED
        BY <2>6, <3>3, <4>2, FS_RemoveElement, FS_CardinalityType
    <3> QED
      BY <1>2, <2>2, <3>7, <3>8, <3>9
  <2> QED
    BY <2>0, <2>4, <2>5, <2>6
<1> QED
  BY <1>4 DEF LimitHolds

\* Every step keeps the limit.
LEMMA LimitStep ==
  TypeOK /\ TypeOK' /\ Traces /\ Clocks /\ Represented /\ LimitHolds /\ [Next]_vars => LimitHolds'
<1> SUFFICES ASSUME TypeOK, TypeOK', Traces, Clocks, Represented, LimitHolds, [Next]_vars
             PROVE  LimitHolds'
  OBVIOUS
<1>1. ASSUME Counted' = Counted, Uncounted \subseteq Uncounted',
             \A q \in Requests : req[q].step # "new" => req'[q].clock = req[q].clock
      PROVE  LimitHolds'
  <2>1. ASSUME NEW r \in Counted' PROVE Cardinality(Span(r)') <= Limit
    <3>1. r \in Counted /\ Span(r)' \subseteq Span(r) /\ Span(r) \subseteq Requests
      BY <1>1, SpanShrinks DEF Span, Counted
    <3>2. PICK S : S = Span(r)'
      OBVIOUS
    <3>3. Cardinality(S) <= Cardinality(Span(r)) /\ Cardinality(S) \in Nat /\ Cardinality(Span(r)) \in Nat
      BY <3>1, <3>2, SpanSize
    <3>4. Cardinality(Span(r)) <= Limit /\ Limit \in Nat
      BY <3>1, LimitAssumption DEF LimitHolds
    <3> QED
      BY <3>2, <3>3, <3>4
  <2> QED
    BY <2>1 DEF LimitHolds
<1>2. ASSUME NEW r \in Requests, Check(r) PROVE LimitHolds'
  <2>1. /\ Uncounted' = Uncounted /\ \A q \in Requests : req'[q].clock = req[q].clock
        /\ \/ Counted' = Counted
           \/ Counted' = Counted \cup {r} /\ ~(Cardinality(Recent(req[r].clock)) >= Limit)
    BY <1>2, ChecksOn
  <2>2. CASE Counted' = Counted
    BY <1>1, <2>1, <2>2
  <2>3. CASE Counted' = Counted \cup {r} /\ ~(Cardinality(Recent(req[r].clock)) >= Limit)
    BY <1>2, <2>3, SpanCounts
  <2> QED
    BY <2>1, <2>2, <2>3
<1>3. ASSUME OnlyHandled \/ Expire \/ Tick \/ UNCHANGED vars \/ \E r \in Requests : Goes(r)
      PROVE  LimitHolds'
  BY <1>1, <1>3, GoesOn DEF Going
<1> QED
  BY <1>2, <1>3, HandlerSteps DEF Next, RequestStep, Handler, Goes

-----------------------------------------------------------------------------
(* Theorems.                                                                *)

\* Type correctness of the portal's admission, and that an event loop is in an
\* upload exactly from its begin to its answer.
THEOREM TypeCorrect == Spec => []TypeOK
<1>1. TypeOK <=> LoopTypes /\ PlainTypes
  BY DEF TypeOK, LoopTypes, PlainTypes
<1>2. Init => LoopTypes
  BY RequestAssumption, BoundsAssumption DEF Init, LoopTypes, Request, Steps, Answers
<1>3. Init => PlainTypes
  BY BoundsAssumption DEF Init, PlainTypes
<1>4. LoopTypes /\ PlainTypes /\ [Next]_vars => LoopTypes' /\ PlainTypes'
  BY LoopStep, PlainStep
<1> QED
  BY <1>1, <1>2, <1>3, <1>4, PTL DEF Spec

\* Rejected requests leave no trace: whatever order the commands of any number of
\* requests come in, the window never holds more than the limit, those about to be
\* rejected, and what Redis has not answered.
THEOREM NoTraceLeft == Spec => []RejectedLeaveNoTrace
<1>1. Init => Traces
  BY TracesInit
<1>2. Traces => RejectedLeaveNoTrace
  BY DEF Traces
<1> QED
  BY <1>1, <1>2, TracesStep, TypeCorrect, PTL DEF Spec

\* The limit of the sliding window: however many requests overlap, in any order of
\* their commands, and also when rejected requests remove each other's entries, no
\* more than Limit are counted within a window less the slack.
THEOREM LimitKept == Spec => []LimitHolds
<1>1. Init => Traces
  BY TracesInit
<1>2. Init => Limited
  <2> SUFFICES ASSUME Init PROVE Limited
    OBVIOUS
  <2>1. Clocks /\ Entries /\ Owners = {} /\ Counted = {}
    BY LimitAssumption DEF Init, Clocks, Entries, Owners, Counted, Rejecting, At
  <2>2. PICK m : m = [q \in {} |-> q]
    OBVIOUS
  <2>3. Stands(m)
    BY <2>1, <2>2 DEF Stands
  <2> QED
    BY <2>1, <2>3 DEF Limited, Represented, LimitHolds
<1>3. TypeOK /\ TypeOK' /\ Traces /\ Limited /\ [Next]_vars => Limited'
  BY ClocksStep, EntriesStep, RepresentedStep, LimitStep DEF Limited
<1>4. Limited => LimitHolds
  BY DEF Limited
<1> QED
  BY <1>1, <1>2, <1>3, <1>4, TracesStep, TypeCorrect, PTL DEF Spec
=============================================================================
