--------------------------- MODULE AuditLogProofs ---------------------------
(***************************************************************************)
(* Proofs about AuditLog, and that it implements AppendOnlyLog, for any     *)
(* number of threads, entries and crashes.                                  *)
(***************************************************************************)
EXTENDS AuditLog, SequenceTheorems, FiniteSetTheorems, TLAPS

(***************************************************************************)
(* Type correctness needs one more fact: only a file with a line in it can  *)
(* end in an unterminated line.                                            *)
(***************************************************************************)
TypeInv == TypeOK /\ (cut => live # <<>>)

LEMMA EntryType ==
  ASSUME TypeOK, NEW t \in Threads
  PROVE  LineOf(t) \in Entry
<1>1. ObjOf[t] \in Loggers
  BY ObjOfAssumption
<1>2. hmacKey[ObjOf[t]] \in Keys /\ pending[t] \in Draft
  BY <1>1 DEF TypeOK
<1>. QED
  BY <1>2 DEF LineOf, Entry, Draft

LEMMA AppendType ==
  ASSUME TypeInv, NEW t \in Threads, NEW outcome \in Outcomes,
         AppendTo(LineOf(t), outcome)
  PROVE  live' \in Seq(Line) /\ cut' \in BOOLEAN /\ (cut' => live' # <<>>)
<1>. DEFINE e == LineOf(t)
<1>1. e \in Line /\ Junk \in Line
  BY EntryType DEF TypeInv, Line
<1>. HIDE DEF e
<1>2. live \in Seq(Line) /\ cut \in BOOLEAN /\ (cut => live # <<>>)
  BY DEF TypeInv, TypeOK
<1>3. CASE outcome = "none"
  BY <1>2, <1>3 DEF AppendTo, AfterAppend
<1>4. CASE outcome # "none" /\ cut
  <2>1. Len(live) \in 1..Len(live)
    BY <1>2, <1>4, EmptySeq, LenProperties
  <2>2. live' = [live EXCEPT ![Len(live)] = Junk]
    BY <1>4 DEF AppendTo, AfterAppend
  <2>3. live' \in Seq(Line) /\ Len(live') = Len(live)
    BY <1>1, <1>2, <2>1, <2>2, ExceptSeq
  <2>4. live' # <<>>
    BY <2>1, <2>3
  <2>. QED
    BY <2>3, <2>4, <1>4 DEF AppendTo
<1>5. CASE outcome # "none" /\ ~cut
  <2>1. live' = Append(live, IF outcome = "part" THEN Junk ELSE e)
    BY <1>5 DEF AppendTo, AfterAppend, e
  <2>. QED
    BY <1>1, <1>2, <2>1, AppendProperties, <1>5 DEF AppendTo
<1>. QED
  BY <1>3, <1>4, <1>5, <1>2

LEMMA LastLineType ==
  ASSUME NEW f \in Seq(Line), f # <<>>, f[Len(f)] # Junk
  PROVE  f[Len(f)] \in Entry /\ f[Len(f)].hash \in Nat /\ f[Len(f)].seq \in Nat
<1>1. Len(f) \in 1..Len(f)
  BY EmptySeq
<1>2. f[Len(f)] \in Line
  BY <1>1, ElementOfSeq
<1>. QED
  BY <1>2 DEF Line, Entry

LEMMA DieType ==
  ASSUME TypeInv, NEW l \in Loggers, Die(l),
         live' \in Seq(Line), cut' \in BOOLEAN, cut' => live' # <<>>
  PROVE  TypeInv'
BY DEF Die, TypeInv, TypeOK, Steps, BootSteps, memVars

LEMMA TypeStep == TypeInv /\ [Next]_vars => TypeInv'
<1>. SUFFICES ASSUME TypeInv, [Next]_vars
              PROVE  TypeInv'
  OBVIOUS
<1>. USE DEF TypeInv, TypeOK, fileVars, bootVars, memVars, callVars
<1>1. ASSUME NEW l \in Loggers, BootStep(l)
      PROVE  TypeInv'
  <2>1. CASE ReadKey(l)
    BY <2>1 DEF ReadKey, BootSteps, Keys
  <2>2. CASE DrawKey(l)
    BY <2>2 DEF DrawKey, BootSteps, Keys
  <2>3. CASE OpenKeyFile(l)
    BY <2>3 DEF OpenKeyFile, BootSteps, Keys
  <2>4. CASE StoreKey(l)
    BY <2>4 DEF StoreKey, BootSteps, Keys
  <2>5. CASE LoadTail(l)
    <3>1. LoadLastHash(live) \in Nat /\ LoadLastSequence(live) \in Nat
      BY LastLineType DEF LoadLastHash, LoadLastSequence, GENESIS
    <3>. QED
      BY <2>5, <3>1 DEF LoadTail, BootSteps
  <2>. QED
    BY <1>1, <2>1, <2>2, <2>3, <2>4, <2>5 DEF BootStep
<1>2. ASSUME NEW l \in Loggers, Crash(l)
      PROVE  TypeInv'
  BY <1>2, DieType DEF Crash
<1>3. ASSUME NEW t \in Threads, Acquire(t)
      PROVE  TypeInv'
  BY <1>3, ObjOfAssumption DEF Acquire, Goto, Steps
<1>4. ASSUME NEW t \in Threads, CallStep(t)
      PROVE  TypeInv'
  <2>. DEFINE l == ObjOf[t]
  <2>. l \in Loggers
    BY ObjOfAssumption
  <2>1. CASE RotateLog(t)
    <3>1. PICK s \in Stamps :
            /\ archives' = [archives EXCEPT ![s] = live]
            /\ clock' = IF SameSecond THEN s ELSE s + 1
      BY <2>1 DEF RotateLog
    <3>2. archives' \in [Stamps -> Seq(Line)] /\ clock' \in Nat
      BY <3>1 DEF Stamps
    <3>3. live' \in Seq(Line) /\ cut' = FALSE
      BY <2>1, EmptySeq DEF RotateLog
    <3>. QED
      BY <2>1, <3>2, <3>3 DEF RotateLog, Goto, Steps, GENESIS
  <2>2. CASE BuildEntry(t)
    BY <2>2 DEF BuildEntry, Goto, Steps, Draft
  <2>3. CASE BuildRaises(t)
    BY <2>3 DEF BuildRaises, Release, Goto, Steps
  <2>4. CASE AppendLine(t)
    <3>1. live' \in Seq(Line) /\ cut' \in BOOLEAN /\ (cut' => live' # <<>>)
      BY <2>4, AppendType DEF AppendLine, Outcomes
    <3>. QED
      BY <2>4, <3>1 DEF AppendLine, Goto, Steps
  <2>5. ASSUME NEW outcome \in ErrorOutcomes, AppendRaises(t, outcome)
        PROVE  TypeInv'
    <3>1. live' \in Seq(Line) /\ cut' \in BOOLEAN /\ (cut' => live' # <<>>)
      BY <2>5, AppendType, FaultAssumption DEF AppendRaises
    <3>. QED
      BY <2>5, <3>1 DEF AppendRaises, Release, Goto, Steps
  <2>6. CASE Commit(t)
    BY <2>6 DEF Commit, Release, Goto, Steps, Draft
  <2>. QED
    BY <1>4, <2>1, <2>2, <2>3, <2>4, <2>5, <2>6 DEF CallStep
<1>5. ASSUME NEW t \in Threads, NEW outcome \in CrashOutcomes,
             CrashInAppend(t, outcome)
      PROVE  TypeInv'
  <2>1. live' \in Seq(Line) /\ cut' \in BOOLEAN /\ (cut' => live' # <<>>)
    BY <1>5, AppendType, FaultAssumption DEF CrashInAppend, Outcomes
  <2>. QED
    BY <1>5, <2>1, DieType, ObjOfAssumption DEF CrashInAppend
<1>6. CASE UNCHANGED vars
  BY <1>6 DEF vars
<1>. QED
  BY <1>1, <1>2, <1>3, <1>4, <1>5, <1>6 DEF Next

LEMMA TypeInit == Init => TypeInv
<1>1. <<>> \in Seq(Line)
  BY EmptySeq
<1>2. NoEntry \in Draft /\ EmptyKey \in Keys /\ NoKey \in Keys \cup {NoKey}
  BY DEF NoEntry, Draft, Keys, GENESIS
<1>. SUFFICES ASSUME Init
              PROVE  TypeInv
  OBVIOUS
<1>3. live \in Seq(Line) /\ cut \in BOOLEAN /\ ~cut
  BY <1>1 DEF Init
<1>4. archives \in [Stamps -> Seq(Line)]
  BY <1>1 DEF Init
<1>5. boot \in [Loggers -> BootSteps] /\ pc \in [Threads -> Steps]
  BY DEF Init, BootSteps, Steps
<1>6. /\ keyFile \in Keys \cup {NoKey}
      /\ hmacKey \in [Loggers -> Keys]
      /\ pending \in [Threads -> Draft]
  BY <1>2 DEF Init
<1>7. /\ clock \in Nat /\ freshHash \in Nat /\ acked \subseteq Nat
      /\ boots \in Nat
      /\ lastHash \in [Loggers -> Nat] /\ sequence \in [Loggers -> Nat]
      /\ lock \in [Loggers -> Threads \cup {NoThread}]
  BY DEF Init, GENESIS
<1>. QED
  BY <1>3, <1>4, <1>5, <1>6, <1>7 DEF TypeInv, TypeOK

\* Every variable keeps its type, whatever the bounds and the faults allowed.
THEOREM TypeCorrect == Spec => []TypeOK
<1>1. Init => TypeInv
  BY TypeInit
<1>2. TypeInv => TypeOK
  BY DEF TypeInv
<1>. QED
  BY <1>1, <1>2, TypeStep, PTL DEF Spec

-----------------------------------------------------------------------------
(***************************************************************************)
(* The links, for a log used by one AuditLogger object, when no append      *)
(* raises after its whole line is in the file.  The cached hash is that of  *)
(* the last line whenever the next append makes a line of its own behind    *)
(* one that parses; the thread between append and commit holds the hash.    *)
(***************************************************************************)
SoleObject == \A l, m \in Loggers : l = m

TailIs(h) ==
  /\ live = <<>> => h = GENESIS
  /\ live # <<>> /\ ~cut /\ live[Len(live)] # Junk => h = live[Len(live)].hash

LockInv ==
  \A t \in Threads : pc[t] # "idle" => lock[ObjOf[t]] = t /\ boot[ObjOf[t]] = "up"
CacheInv ==
  /\ \A l \in Loggers : boot[l] = "up" /\ (\A t \in Threads : pc[t] # "commit")
                        => TailIs(lastHash[l])
  /\ \A t \in Threads : pc[t] = "commit" => TailIs(pending[t].hash)
  /\ \A t \in Threads : pc[t] = "write" => pending[t].prev = lastHash[ObjOf[t]]

LinkInv == TypeInv /\ LockInv /\ CacheInv /\ EntriesLinked

\* At most one thread is inside log_event.
LEMMA Exclusion ==
  ASSUME SoleObject, LockInv, NEW t \in Threads, NEW u \in Threads,
         pc[t] # "idle", pc[u] # "idle"
  PROVE  t = u
BY ObjOfAssumption DEF SoleObject, LockInv

\* The effect of an append on the lines of the file, position by position.
LEMMA AppendEffect ==
  ASSUME NEW f \in Seq(Line), NEW e \in Entry, NEW unterminated \in BOOLEAN,
         NEW outcome \in Outcomes, outcome # "none", unterminated => f # <<>>,
         NEW g, g = AfterAppend(f, unterminated, e, outcome)
  PROVE  /\ g \in Seq(Line) /\ g # <<>> /\ Len(g) \in Nat \ {0}
         /\ Len(g) = IF unterminated THEN Len(f) ELSE Len(f) + 1
         /\ \A i \in 1..Len(g) : i # Len(g) => g[i] = f[i]
         /\ g[Len(g)] = IF unterminated \/ outcome = "part" THEN Junk ELSE e
<1>1. e \in Line /\ Junk \in Line
  BY DEF Line
<1>2. CASE unterminated
  <2>1. Len(f) \in 1..Len(f)
    BY <1>2, EmptySeq
  <2>2. g = [f EXCEPT ![Len(f)] = Junk]
    BY <1>2 DEF AfterAppend
  <2>3. /\ g \in Seq(Line) /\ Len(g) = Len(f)
        /\ \A i \in 1..Len(f) : g[i] = IF i = Len(f) THEN Junk ELSE f[i]
    BY <1>1, <2>1, <2>2, ExceptSeq
  <2>4. g # <<>> /\ Len(g) \in Nat \ {0}
    BY <2>1, <2>3, LenProperties
  <2>. QED
    BY <1>2, <2>1, <2>3, <2>4
<1>3. CASE ~unterminated
  <2>. DEFINE line == IF outcome = "part" THEN Junk ELSE e
  <2>1. g = Append(f, line) /\ line \in Line
    BY <1>1, <1>3 DEF AfterAppend
  <2>. HIDE DEF line
  <2>2. /\ g \in Seq(Line) /\ g # <<>> /\ Len(g) = Len(f) + 1
        /\ \A i \in 1..Len(f) : g[i] = f[i]
        /\ g[Len(f) + 1] = line
    BY <2>1, AppendProperties
  <2>3. Len(f) \in Nat
    BY LenProperties
  <2>. QED
    BY <1>3, <2>2, <2>3 DEF line
<1>. QED
  BY <1>2, <1>3

\* What an append does to a linked file whose tail the new entry names.
LEMMA AppendLinked ==
  ASSUME TypeInv, LinkedFile(live), NEW e \in Entry, TailIs(e.prev),
         NEW outcome \in Outcomes, AppendTo(e, outcome), outcome # "none"
  PROVE  /\ LinkedFile(live')
         /\ live' # <<>>
         /\ live'[Len(live')] # Junk => live'[Len(live')] = e
         /\ cut' = (outcome # "full")
         /\ outcome = "part" => live'[Len(live')] = Junk
<1>. DEFINE g == live'
<1>1. live \in Seq(Line) /\ cut \in BOOLEAN /\ (cut => live # <<>>) /\ Len(live) \in Nat
  BY LenProperties DEF TypeInv, TypeOK
<1>2. g = AfterAppend(live, cut, e, outcome) /\ cut' = (outcome # "full")
  BY DEF AppendTo
<1>3. /\ g # <<>> /\ Len(g) \in Nat \ {0}
      /\ Len(g) = IF cut THEN Len(live) ELSE Len(live) + 1
      /\ \A i \in 1..Len(g) : i # Len(g) => g[i] = live[i]
      /\ g[Len(g)] = IF cut \/ outcome = "part" THEN Junk ELSE e
  BY <1>1, <1>2, AppendEffect
<1>. HIDE DEF g
<1>4. ASSUME NEW i \in 1..Len(g), g[i] # Junk, i = 1 \/ g[i - 1] # Junk
      PROVE  Linked(g, i)
  <2>1. CASE i # Len(g)
    <3>1. i \in 1..Len(live) /\ g[i] = live[i] /\ (i # 1 => g[i - 1] = live[i - 1])
      BY <1>1, <1>3, <2>1
    <3>. QED
      BY <1>4, <3>1 DEF LinkedFile, Linked
  <2>2. CASE i = Len(g)
    <3>1. g[i] = e /\ ~cut /\ i = Len(live) + 1
      BY <1>1, <1>3, <1>4, <2>2
    <3>2. CASE i = 1
      BY <1>1, <1>4, <3>1, <3>2, EmptySeq DEF TailIs, Linked
    <3>3. CASE i # 1
      <4>1. g[i - 1] = live[Len(live)] /\ live # <<>>
        BY <1>1, <1>3, <3>1, <3>3, EmptySeq
      <4>. QED
        BY <1>4, <3>1, <3>3, <4>1 DEF TailIs, Linked
    <3>. QED
      BY <3>2, <3>3
  <2>. QED
    BY <2>1, <2>2
<1>. QED
  BY <1>2, <1>3, <1>4 DEF LinkedFile, g

\* The locks and the program counters, step by step.
LEMMA LockStep == SoleObject /\ TypeInv /\ LockInv /\ [Next]_vars => LockInv'
<1>. SUFFICES ASSUME SoleObject, TypeInv, LockInv, [Next]_vars
              PROVE  LockInv'
  OBVIOUS
<1>. USE ObjOfAssumption DEF LockInv, TypeInv, TypeOK, fileVars, bootVars,
                             memVars, callVars
<1>1. ASSUME NEW l \in Loggers, BootStep(l)
      PROVE  LockInv'
  BY <1>1 DEF BootStep, ReadKey, DrawKey, OpenKeyFile, StoreKey, LoadTail
<1>2. ASSUME NEW l \in Loggers, Die(l)
      PROVE  LockInv'
  BY <1>2 DEF Die
<1>3. ASSUME NEW t \in Threads, Acquire(t)
      PROVE  LockInv'
  BY <1>3, MarkerAssumption DEF Acquire, Goto
<1>4. ASSUME NEW t \in Threads, pc[t] # "idle", Release(t), UNCHANGED boot
      PROVE  LockInv'
  BY <1>4, Exclusion DEF Release, Goto
<1>5. ASSUME NEW t \in Threads, pc[t] # "idle", NEW step, Goto(t, step),
             UNCHANGED <<lock, boot>>
      PROVE  LockInv'
  BY <1>5 DEF Goto
<1>6. ASSUME NEW t \in Threads, CallStep(t)
      PROVE  LockInv'
  <2>1. CASE RotateLog(t)
    BY <2>1, <1>5 DEF RotateLog
  <2>2. CASE BuildEntry(t)
    BY <2>2, <1>5 DEF BuildEntry
  <2>3. CASE BuildRaises(t)
    BY <2>3, <1>4 DEF BuildRaises
  <2>4. CASE AppendLine(t)
    BY <2>4, <1>5 DEF AppendLine
  <2>5. ASSUME NEW outcome \in ErrorOutcomes, AppendRaises(t, outcome)
        PROVE  LockInv'
    BY <2>5, <1>4 DEF AppendRaises
  <2>6. CASE Commit(t)
    BY <2>6, <1>4 DEF Commit
  <2>. QED
    BY <1>6, <2>1, <2>2, <2>3, <2>4, <2>5, <2>6 DEF CallStep
<1>7. CASE UNCHANGED vars
  BY <1>7 DEF vars
<1>. QED
  BY <1>1, <1>2, <1>3, <1>6, <1>7 DEF Next, Crash, CrashInAppend

\* The cached tail and the links, step by step.
LEMMA LinkStep ==
  ASSUME SoleObject, "full" \notin ErrorOutcomes, LinkInv, [Next]_vars
  PROVE  CacheInv' /\ EntriesLinked'
<1>. USE ObjOfAssumption DEF LinkInv
<1>1. TypeInv' /\ LockInv'
  BY TypeStep, LockStep
<1>2. ASSUME UNCHANGED <<live, archives>>
      PROVE  EntriesLinked'
  BY <1>2 DEF EntriesLinked, Files
<1>3. ASSUME UNCHANGED <<live, cut>>, NEW h
      PROVE  TailIs(h)' = TailIs(h)
  BY <1>3 DEF TailIs
<1>4. ASSUME UNCHANGED <<live, cut, lastHash, pending>>,
             \A l \in Loggers : boot'[l] = "up" =>
                boot[l] = "up" \/ TailIs(lastHash[l]),
             \A t \in Threads : pc'[t] \in {"commit", "write"} => pc'[t] = pc[t],
             \A t \in Threads : pc[t] = "commit" =>
                pc'[t] = "commit" \/ \A l \in Loggers : boot'[l] # "up"
      PROVE  CacheInv'
  BY <1>4 DEF CacheInv, TailIs
<1>5. ASSUME NEW l \in Loggers, BootStep(l)
      PROVE  CacheInv' /\ EntriesLinked'
  <2>. USE DEF fileVars, memVars, callVars, TypeInv, TypeOK
  <2>1. CASE ReadKey(l) \/ DrawKey(l) \/ OpenKeyFile(l) \/ StoreKey(l)
    <3>1. /\ UNCHANGED <<live, cut, archives, lastHash, pending, pc>>
          /\ \A m \in Loggers : boot'[m] = "up" => boot[m] = "up"
      BY <2>1 DEF ReadKey, DrawKey, OpenKeyFile, StoreKey
    <3>. QED
      BY <3>1, <1>2, <1>4
  <2>2. CASE LoadTail(l)
    <3>1. /\ UNCHANGED <<live, cut, archives, pending, pc>>
          /\ \A m \in Loggers : lastHash'[m] = LoadLastHash(live)
          /\ boot[l] = "load"
      BY <2>2 DEF LoadTail, SoleObject
    <3>2. TailIs(LoadLastHash(live))
      BY DEF TailIs, LoadLastHash
    <3>3. \A t \in Threads : pc[t] = "idle"
      BY <3>1 DEF LockInv, SoleObject
    <3>. QED
      BY <3>1, <3>2, <3>3, <1>2, <1>3 DEF CacheInv
  <2>. QED
    BY <1>5, <2>1, <2>2 DEF BootStep
<1>6. ASSUME NEW l \in Loggers, Crash(l)
      PROVE  CacheInv' /\ EntriesLinked'
  <2>1. /\ UNCHANGED <<live, cut, archives, lastHash, pending>>
        /\ \A m \in Loggers : boot'[m] # "up"
        /\ \A t \in Threads : pc'[t] = "idle"
    BY <1>6 DEF Crash, Die, memVars, SoleObject, TypeInv, TypeOK
  <2>. QED
    BY <2>1, <1>2, <1>4
<1>7. ASSUME NEW t \in Threads, Acquire(t)
      PROVE  CacheInv' /\ EntriesLinked'
  <2>1. /\ UNCHANGED <<live, cut, archives, lastHash, pending, boot>>
        /\ pc[t] = "idle" /\ pc' = [pc EXCEPT ![t] = "check"]
    BY <1>7 DEF Acquire, Goto, fileVars, bootVars, memVars
  <2>. QED
    BY <2>1, <1>2, <1>4 DEF TypeInv, TypeOK
<1>8. ASSUME NEW t \in Threads, pc[t] # "idle", NEW u \in Threads, u # t
      PROVE  pc[u] = "idle"
  BY <1>8, Exclusion
<1>9. ASSUME NEW t \in Threads, pc[t] = "write", NEW outcome \in Outcomes,
             AppendTo(LineOf(t), outcome), outcome # "none"
      PROVE  /\ LinkedFile(live')
             /\ live' # <<>>
             /\ live'[Len(live')] # Junk => live'[Len(live')].hash = pending[t].hash
             /\ cut' = (outcome # "full")
             /\ outcome = "part" => live'[Len(live')] = Junk
  <2>1. LineOf(t) \in Entry /\ LinkedFile(live)
    BY EntryType DEF TypeInv, EntriesLinked, Files
  <2>2. \A u \in Threads : pc[u] # "commit"
    BY <1>8, <1>9
  <2>3. boot[ObjOf[t]] = "up" /\ pending[t].prev = lastHash[ObjOf[t]]
    BY <1>9 DEF LockInv, CacheInv
  <2>4. TailIs(LineOf(t).prev)
    BY <2>2, <2>3 DEF CacheInv, LineOf
  <2>5. LineOf(t).hash = pending[t].hash
    BY DEF LineOf
  <2>. QED
    BY <1>9, <2>1, <2>4, <2>5, AppendLinked
<1>10. ASSUME NEW t \in Threads, CallStep(t)
       PROVE  CacheInv' /\ EntriesLinked'
  <2>. USE DEF TypeInv, TypeOK
  <2>. DEFINE l == ObjOf[t]
  <2>. l \in Loggers /\ \A m \in Loggers : m = l
    BY DEF SoleObject
  <2>1. CASE RotateLog(t)
    <3>1. PICK s \in Stamps : archives' = [archives EXCEPT ![s] = live]
      BY <2>1 DEF RotateLog
    <3>2. live' = <<>> /\ lastHash'[l] = GENESIS /\ pc' = [pc EXCEPT ![t] = "build"]
      BY <2>1 DEF RotateLog, Goto
    <3>3. EntriesLinked'
      <4>1. \A f \in Files' : f \in Files \/ f = <<>>
        BY <3>1, <3>2 DEF Files
      <4>. QED
        BY <4>1 DEF EntriesLinked, LinkedFile
    <3>4. \A u \in Threads : pc'[u] \notin {"write", "commit"}
      BY <2>1, <3>2, <1>8 DEF RotateLog
    <3>. QED
      BY <3>2, <3>3, <3>4 DEF CacheInv, TailIs
  <2>2. CASE BuildEntry(t)
    <3>1. /\ UNCHANGED <<live, cut, archives, lastHash, boot>>
          /\ pc[t] # "idle" /\ pc[t] # "commit" /\ pc' = [pc EXCEPT ![t] = "write"]
          /\ pending'[t].prev = lastHash[l]
      BY <2>2 DEF BuildEntry, Goto, fileVars, bootVars
    <3>2. \A u \in Threads : pc[u] # "commit" /\ pc'[u] # "commit"
      BY <3>1, <1>8
    <3>3. \A u \in Threads : pc'[u] = "write" => u = t
      BY <3>1, <1>8
    <3>. QED
      BY <3>1, <3>2, <3>3, <1>2, <1>3 DEF CacheInv
  <2>3. CASE BuildRaises(t)
    <3>1. /\ UNCHANGED <<live, cut, archives, lastHash, pending, boot>>
          /\ pc[t] # "commit" /\ pc' = [pc EXCEPT ![t] = "idle"]
      BY <2>3 DEF BuildRaises, Release, Goto, fileVars, bootVars
    <3>. QED
      BY <3>1, <1>2, <1>4
  <2>4. CASE AppendLine(t)
    <3>1. /\ UNCHANGED <<archives, lastHash, pending, boot>>
          /\ pc[t] = "write" /\ pc' = [pc EXCEPT ![t] = "commit"]
          /\ AppendTo(LineOf(t), "full")
      BY <2>4 DEF AppendLine, Goto, bootVars, memVars
    <3>2. /\ LinkedFile(live') /\ live' # <<>>
          /\ live'[Len(live')] # Junk => live'[Len(live')].hash = pending[t].hash
      BY <3>1, <1>9 DEF Outcomes
    <3>3. \A u \in Threads : pc'[u] # "write" /\ (pc'[u] = "commit" => u = t)
      BY <3>1, <1>8
    <3>. QED
      BY <3>1, <3>2, <3>3 DEF CacheInv, TailIs, EntriesLinked, Files
  <2>5. ASSUME NEW outcome \in ErrorOutcomes, AppendRaises(t, outcome)
        PROVE  CacheInv' /\ EntriesLinked'
    <3>1. /\ UNCHANGED <<archives, lastHash, pending, boot>>
          /\ pc[t] = "write" /\ pc' = [pc EXCEPT ![t] = "idle"]
          /\ AppendTo(LineOf(t), outcome) /\ outcome \in Outcomes \ {"full"}
      BY <2>5, FaultAssumption DEF AppendRaises, Release, Goto, bootVars, memVars
    <3>2. CASE outcome = "none"
      <4>1. UNCHANGED <<live, cut>>
        BY <3>1, <3>2 DEF AppendTo, AfterAppend
      <4>. QED
        BY <3>1, <4>1, <1>2, <1>4
    <3>3. CASE outcome # "none"
      <4>1. LinkedFile(live') /\ live' # <<>> /\ cut'
        BY <3>1, <3>3, <1>9
      <4>2. \A u \in Threads : pc'[u] = "idle"
        BY <3>1, <1>8
      <4>. QED
        BY <3>1, <4>1, <4>2 DEF CacheInv, TailIs, EntriesLinked, Files
    <3>. QED
      BY <3>2, <3>3
  <2>6. CASE Commit(t)
    <3>1. /\ UNCHANGED <<live, cut, archives, pending, boot>>
          /\ pc[t] = "commit" /\ pc' = [pc EXCEPT ![t] = "idle"]
          /\ lastHash'[l] = pending[t].hash
      BY <2>6 DEF Commit, Release, Goto, bootVars, fileVars
    <3>2. \A u \in Threads : pc'[u] = "idle"
      BY <3>1, <1>8
    <3>3. TailIs(pending[t].hash)
      BY <3>1 DEF CacheInv
    <3>. QED
      BY <3>1, <3>2, <3>3, <1>2, <1>3 DEF CacheInv
  <2>. QED
    BY <1>10, <2>1, <2>2, <2>3, <2>4, <2>5, <2>6 DEF CallStep
<1>11. ASSUME NEW t \in Threads, NEW outcome \in CrashOutcomes,
              CrashInAppend(t, outcome)
       PROVE  CacheInv' /\ EntriesLinked'
  <2>1. /\ UNCHANGED <<archives>>
        /\ pc[t] = "write"
        /\ AppendTo(LineOf(t), outcome) /\ outcome \in Outcomes \ {"none"}
        /\ \A m \in Loggers : boot'[m] # "up"
        /\ \A u \in Threads : pc'[u] = "idle"
    BY <1>11, FaultAssumption DEF CrashInAppend, Die, SoleObject, Outcomes,
                                  TypeInv, TypeOK
  <2>2. LinkedFile(live')
    BY <2>1, <1>9
  <2>. QED
    BY <2>1, <2>2 DEF CacheInv, EntriesLinked, Files
<1>12. CASE UNCHANGED vars
  <2>1. UNCHANGED <<live, cut, archives, lastHash, pending, boot, pc>>
    BY <1>12 DEF vars, fileVars, bootVars, memVars, callVars
  <2>. QED
    BY <2>1, <1>2, <1>4
<1>. QED
  BY <1>5, <1>6, <1>7, <1>10, <1>11, <1>12 DEF Next

LEMMA LinkInit == Init => LinkInv
<1>. SUFFICES ASSUME Init
              PROVE  LinkInv
  OBVIOUS
<1>1. TypeInv
  BY TypeInit
<1>2. LockInv /\ CacheInv
  BY DEF Init, LockInv, CacheInv
<1>3. EntriesLinked
  BY DEF Init, EntriesLinked, Files, LinkedFile
<1>. QED
  BY <1>1, <1>2, <1>3 DEF LinkInv

\* With one AuditLogger object, and appends that are reported to the caller as
\* failed only when the line is not complete, every pair of parsable neighbours
\* in the log and in the rotated files stays linked, through errors, torn
\* appends, crashes, reloads and rotations.
THEOREM LogLinked ==
  ASSUME SoleObject, "full" \notin ErrorOutcomes
  PROVE  Spec => []EntriesLinked
<1>1. Init => LinkInv
  BY LinkInit
<1>2. LinkInv /\ [Next]_vars => LinkInv'
  BY TypeStep, LockStep, LinkStep DEF LinkInv
<1>3. LinkInv => EntriesLinked
  BY DEF LinkInv
<1>. QED
  BY <1>1, <1>2, <1>3, PTL DEF Spec

-----------------------------------------------------------------------------
(***************************************************************************)
(* The whole chain, when in addition no append leaves part of a line: then  *)
(* no line is ever junk, and all of them carry the key that is in the key   *)
(* file, because no file has a line before the key file is complete.        *)
(***************************************************************************)
WholeLines == ErrorOutcomes \subseteq {"none"} /\ CrashOutcomes = {}

NoLines == \A f \in Files : f = <<>>
LineInv ==
  /\ ~cut
  /\ \A f \in Files : \A i \in 1..Len(f) : f[i] # Junk /\ f[i].key = keyFile
KeyInv ==
  /\ \A l \in Loggers : boot[l] \in {"load", "up"} => keyFile # NoKey /\ hmacKey[l] = keyFile
  /\ \A l \in Loggers : boot[l] \in {"generate", "store"} => NoLines
  /\ keyFile = NoKey => NoLines

ChainInv == LinkInv /\ LineInv /\ KeyInv

LEMMA LiveIsFile == live \in Files
BY DEF Files

\* An append adds one line at the end of the log and leaves the others alone.
LEMMA AppendedLine ==
  ASSUME TypeInv, NEW t \in Threads, live' = Append(live, LineOf(t)),
         UNCHANGED archives, NEW f \in Files', NEW i \in 1..Len(f)
  PROVE  \/ f \in Files
         \/ f = live' /\ i = Len(live) + 1 /\ f[i] = LineOf(t)
         \/ f = live' /\ i \in 1..Len(live) /\ f[i] = live[i]
<1>1. live \in Seq(Line) /\ LineOf(t) \in Line
  BY EntryType DEF TypeInv, TypeOK, Line
<1>2. /\ Len(live') = Len(live) + 1 /\ Len(live) \in Nat
      /\ \A j \in 1..Len(live) : live'[j] = live[j]
      /\ live'[Len(live) + 1] = LineOf(t)
  BY <1>1, AppendProperties, LenProperties
<1>3. f = live' \/ f \in Files
  BY DEF Files
<1>. QED
  BY <1>2, <1>3

LEMMA ChainStep ==
  ASSUME SoleObject, WholeLines, ChainInv, [Next]_vars
  PROVE  LineInv' /\ KeyInv'
<1>. USE ObjOfAssumption DEF ChainInv, LinkInv, TypeInv, TypeOK
<1>1. \A l, m \in Loggers : l = m
  BY DEF SoleObject
<1>2. ASSUME NEW t \in Threads, pc[t] # "idle"
      PROVE  boot[ObjOf[t]] = "up" /\ keyFile # NoKey /\ hmacKey[ObjOf[t]] = keyFile
  BY <1>2 DEF LockInv, KeyInv
<1>3. ASSUME UNCHANGED <<live, archives>>
      PROVE  Files' = Files /\ NoLines' = NoLines
  BY <1>3 DEF Files, NoLines
<1>4. ASSUME UNCHANGED <<live, cut, archives, keyFile, hmacKey>>,
             \A l \in Loggers : boot'[l] \in {boot[l], "down"}
      PROVE  LineInv' /\ KeyInv'
  BY <1>3, <1>4 DEF LineInv, KeyInv
<1>5. ASSUME NEW l \in Loggers, BootStep(l)
      PROVE  LineInv' /\ KeyInv'
  <2>. UNCHANGED <<live, cut, archives>>
    BY <1>5 DEF BootStep, ReadKey, DrawKey, OpenKeyFile, StoreKey, LoadTail, fileVars
  <2>1. CASE ReadKey(l)
    BY <2>1, <1>1, <1>3 DEF ReadKey, LineInv, KeyInv
  <2>2. CASE DrawKey(l)
    BY <2>2, <1>1, <1>3 DEF DrawKey, LineInv, KeyInv
  <2>3. CASE OpenKeyFile(l)
    <3>1. NoLines /\ NoLines'
      BY <2>3, <1>3 DEF OpenKeyFile, KeyInv
    <3>2. \A m \in Loggers : boot'[m] = "store"
      BY <2>3, <1>1 DEF OpenKeyFile
    <3>3. LineInv'
      BY <3>1, <1>3 DEF LineInv, NoLines
    <3>. QED
      BY <3>1, <3>2, <3>3 DEF KeyInv
  <2>4. CASE StoreKey(l)
    <3>1. NoLines /\ NoLines'
      BY <2>4, <1>3 DEF StoreKey, KeyInv
    <3>2. \A m \in Loggers : boot'[m] = "load" /\ hmacKey'[m] = keyFile'
      BY <2>4, <1>1 DEF StoreKey
    <3>3. LineInv'
      BY <3>1, <1>3 DEF LineInv, NoLines
    <3>4. keyFile' # NoKey
      BY <2>4, MarkerAssumption DEF StoreKey, Keys
    <3>. QED
      BY <3>1, <3>2, <3>3, <3>4 DEF KeyInv
  <2>5. CASE LoadTail(l)
    BY <2>5, <1>1, <1>3 DEF LoadTail, LineInv, KeyInv
  <2>. QED
    BY <1>5, <2>1, <2>2, <2>3, <2>4, <2>5 DEF BootStep
<1>6. ASSUME NEW l \in Loggers, Crash(l)
      PROVE  LineInv' /\ KeyInv'
  BY <1>6, <1>4 DEF Crash, Die
<1>7. ASSUME NEW t \in Threads,
             Acquire(t) \/ BuildEntry(t) \/ BuildRaises(t) \/ Commit(t)
      PROVE  LineInv' /\ KeyInv'
  BY <1>7, <1>4 DEF Acquire, BuildEntry, BuildRaises, Commit, fileVars, bootVars
<1>8. ASSUME NEW t \in Threads, NEW outcome \in ErrorOutcomes, AppendRaises(t, outcome)
      PROVE  LineInv' /\ KeyInv'
  BY <1>8, <1>4 DEF AppendRaises, AppendTo, AfterAppend, WholeLines, LineInv, bootVars
<1>9. ASSUME NEW t \in Threads, AppendLine(t)
      PROVE  LineInv' /\ KeyInv'
  <2>1. live' = Append(live, LineOf(t)) /\ ~cut'
    BY <1>9 DEF AppendLine, AppendTo, AfterAppend, LineInv
  <2>2. UNCHANGED <<archives, keyFile, hmacKey, boot>> /\ pc[t] # "idle"
    BY <1>9 DEF AppendLine, bootVars
  <2>3. LineOf(t) # Junk /\ LineOf(t).key = keyFile
    BY <1>2, <2>2 DEF LineOf, Junk
  <2>4. LineInv'
    <3>1. ASSUME NEW f \in Files', NEW i \in 1..Len(f)
          PROVE  f[i] # Junk /\ f[i].key = keyFile
      <4>1. \/ f \in Files
            \/ f[i] = LineOf(t)
            \/ i \in 1..Len(live) /\ f[i] = live[i]
        BY <2>1, <2>2, AppendedLine
      <4>. QED
        BY <2>3, <4>1, LiveIsFile DEF LineInv
    <3>. QED
      BY <2>1, <2>2, <3>1 DEF LineInv
  <2>5. \A l \in Loggers : boot'[l] = "up"
    BY <1>1, <1>2, <2>2
  <2>. QED
    BY <1>2, <2>2, <2>4, <2>5 DEF KeyInv
<1>10. ASSUME NEW t \in Threads, RotateLog(t)
       PROVE  LineInv' /\ KeyInv'
  <2>1. PICK s \in Stamps : archives' = [archives EXCEPT ![s] = live]
    BY <1>10 DEF RotateLog
  <2>2. live' = <<>> /\ cut' = FALSE /\ UNCHANGED <<keyFile, hmacKey, boot>> /\ pc[t] # "idle"
    BY <1>10 DEF RotateLog, bootVars
  <2>3. \A f \in Files' : f \in Files \/ f = <<>>
    BY <2>1, <2>2 DEF Files
  <2>4. \A l \in Loggers : boot'[l] = "up"
    BY <1>1, <1>2, <2>2
  <2>. QED
    BY <1>2, <2>2, <2>3, <2>4 DEF LineInv, KeyInv
<1>11. CASE UNCHANGED vars
  BY <1>11, <1>4 DEF vars, fileVars, bootVars
<1>. QED
  BY <1>5, <1>6, <1>7, <1>8, <1>9, <1>10, <1>11 DEF Next, CallStep, WholeLines

LEMMA ChainInit == Init => ChainInv
<1>1. Init => LineInv /\ KeyInv
  BY DEF Init, LineInv, KeyInv, NoLines, Files
<1>. QED
  BY <1>1, LinkInit DEF ChainInv

LEMMA ChainNext ==
  ASSUME SoleObject, WholeLines
  PROVE  ChainInv /\ [Next]_vars => ChainInv'
<1>1. "full" \notin ErrorOutcomes
  BY DEF WholeLines
<1>. QED
  BY <1>1, TypeStep, LockStep, LinkStep, ChainStep DEF ChainInv, LinkInv

\* A single AuditLogger object whose appends are all or nothing keeps every file
\* verifiable: verify_chain is True in every state, whatever the interleaving of
\* the threads, the failing calls, the crashes and the restarts.
THEOREM ChainVerifies ==
  ASSUME SoleObject, WholeLines
  PROVE  Spec => []ChainIntact
<1>1. Init => ChainInv
  BY ChainInit
<1>2. ChainInv /\ [Next]_vars => ChainInv'
  BY ChainNext
<1>3. ChainInv => ChainIntact
  <2>1. ASSUME ChainInv, NEW f \in Files
        PROVE  VerifyChain(f, keyFile)
    <3>1. LinkedFile(f) /\ \A i \in 1..Len(f) : f[i] # Junk /\ f[i].key = keyFile
      BY <2>1 DEF ChainInv, LinkInv, EntriesLinked, LineInv
    <3>2. Len(f) \in Nat
      BY <2>1 DEF Files, ChainInv, LinkInv, TypeInv, TypeOK
    <3>. QED
      BY <3>1, <3>2 DEF LinkedFile, VerifyChain
  <2>. QED
    BY <2>1 DEF ChainIntact, ChainInv, KeyInv
<1>. QED
  BY <1>1, <1>2, <1>3, PTL DEF Spec

-----------------------------------------------------------------------------
(***************************************************************************)
(* The numbers, with torn lines: the cached number bounds those of the run  *)
(* of parsable lines at the end of the log, and the entry a thread is about *)
(* to append has a larger one than all of these.                            *)
(***************************************************************************)
Parsable(f, i, j) == \A k \in i..j : f[k] # Junk
TailBelow(n) == \A i \in 1..Len(live) : Parsable(live, i, Len(live)) => live[i].seq <= n

SeqInv ==
  /\ SeqIncreasing
  /\ \A l \in Loggers : boot[l] = "up" => TailBelow(sequence[l])
  /\ \A t \in Threads : pc[t] = "write" =>
       /\ pending[t].seq = sequence[ObjOf[t]]
       /\ \A i \in 1..Len(live) : Parsable(live, i, Len(live)) => live[i].seq < pending[t].seq

LEMMA SeqTypes ==
  ASSUME TypeInv, NEW i \in 1..Len(live), live[i] # Junk
  PROVE  live[i].seq \in Nat
<1>1. live[i] \in Line
  BY ElementOfSeq DEF TypeInv, TypeOK
<1>. QED
  BY <1>1 DEF Line, Entry

\* An append numbered above the parsable end of the log keeps the order, however
\* much of the line arrives.
LEMMA AppendNumbers ==
  ASSUME TypeInv, SeqIncreasing, NEW t \in Threads, NEW outcome \in Outcomes,
         AppendTo(LineOf(t), outcome), UNCHANGED archives,
         NEW n \in Nat, LineOf(t).seq = n,
         \A i \in 1..Len(live) : Parsable(live, i, Len(live)) => live[i].seq < n
  PROVE  /\ SeqIncreasing'
         /\ \A i \in 1..Len(live') : Parsable(live', i, Len(live')) => live'[i].seq <= n
<1>1. PICK e : e = LineOf(t)
  OBVIOUS
<1>2. PICK f, g : f = live /\ g = live'
  OBVIOUS
<1>3. f \in Seq(Line) /\ e \in Entry /\ cut \in BOOLEAN /\ (cut => f # <<>>) /\ Len(f) \in Nat
  BY <1>1, <1>2, EntryType, LenProperties DEF TypeInv, TypeOK
<1>4. g = AfterAppend(f, cut, e, outcome)
  BY <1>1, <1>2 DEF AppendTo
<1>5. ASSUME NEW i \in 1..Len(f), Parsable(f, i, Len(f))
      PROVE  f[i].seq \in Nat /\ f[i].seq < n
  BY <1>2, <1>3, <1>5, SeqTypes DEF Parsable
<1>6. ASSUME NEW i \in 1..Len(f), NEW j \in 1..Len(f), i < j, Parsable(f, i, j)
      PROVE  f[i].seq < f[j].seq
  BY <1>2, <1>6 DEF SeqIncreasing, Files, Parsable
<1>7. SUFFICES
        /\ \A i, j \in 1..Len(g) : i < j /\ Parsable(g, i, j) => g[i].seq < g[j].seq
        /\ \A i \in 1..Len(g) : Parsable(g, i, Len(g)) => g[i].seq <= n
  <2>1. ASSUME NEW h \in Files', h # g
        PROVE  h \in Files
    BY <1>2, <2>1 DEF Files
  <2>. QED
    BY <1>2, <2>1 DEF SeqIncreasing, Parsable
<1>8. CASE outcome = "none"
  <2>1. g = f
    BY <1>4, <1>8 DEF AfterAppend
  <2>. QED
    BY <2>1, <1>5, <1>6
<1>9. CASE outcome # "none"
  <2>1. /\ Len(g) \in Nat \ {0}
        /\ Len(g) = IF cut THEN Len(f) ELSE Len(f) + 1
        /\ \A i \in 1..Len(g) : i # Len(g) => g[i] = f[i]
        /\ g[Len(g)] = IF cut \/ outcome = "part" THEN Junk ELSE e
    BY <1>3, <1>4, <1>9, AppendEffect
  <2>. PICK last : last = Len(g)
    OBVIOUS
  <2>2. ASSUME NEW i \in 1..last, i # last
        PROVE  i \in 1..Len(f) /\ g[i] = f[i]
    BY <2>1, <2>2, <1>3
  <2>3. ASSUME NEW i \in 1..last, Parsable(g, i, last)
        PROVE  g[last] = e /\ last = Len(f) + 1 /\ (i # last => Parsable(f, i, Len(f)))
    <3>1. g[last] # Junk
      BY <2>1, <2>3 DEF Parsable
    <3>2. g[last] = e /\ last = Len(f) + 1
      BY <2>1, <3>1
    <3>3. ASSUME NEW k \in i..Len(f)
          PROVE  f[k] # Junk
      <4>1. k \in i..last /\ k \in 1..last /\ k # last
        BY <3>2, <1>3
      <4>. QED
        BY <4>1, <2>2, <2>3 DEF Parsable
    <3>. QED
      BY <3>2, <3>3 DEF Parsable
  <2>4. ASSUME NEW i \in 1..last, Parsable(g, i, last)
        PROVE  g[i].seq <= n /\ (i # last => g[i].seq < g[last].seq)
    <3>1. e.seq = n
      BY <1>1
    <3>2. CASE i = last
      BY <3>1, <3>2, <2>3, <2>4
    <3>3. CASE i # last
      <4>1. g[i].seq \in Nat /\ g[i].seq < n
        BY <3>3, <2>2, <2>3, <2>4, <1>5
      <4>. QED
        BY <3>1, <4>1, <2>3, <2>4
    <3>. QED
      BY <3>2, <3>3
  <2>5. ASSUME NEW i \in 1..last, NEW j \in 1..last, i < j, Parsable(g, i, j), j # last
        PROVE  g[i].seq < g[j].seq
    <3>1. /\ i \in 1..Len(f) /\ j \in 1..Len(f) /\ g[i] = f[i] /\ g[j] = f[j]
          /\ \A k \in i..j : k \in 1..last /\ k # last
      BY <2>1, <2>2, <2>5
    <3>2. Parsable(f, i, j)
      BY <3>1, <2>2, <2>5 DEF Parsable
    <3>. QED
      BY <3>1, <3>2, <2>5, <1>6
  <2>. QED
    BY <2>1, <2>4, <2>5
<1>. QED
  BY <1>8, <1>9

LEMMA SeqStep ==
  ASSUME SoleObject, TypeInv, LockInv, SeqInv, [Next]_vars
  PROVE  SeqInv'
<1>. USE ObjOfAssumption DEF TypeInv, TypeOK
<1>1. \A l, m \in Loggers : l = m
  BY DEF SoleObject
<1>2. ASSUME NEW t \in Threads, pc[t] # "idle"
      PROVE  /\ boot[ObjOf[t]] = "up"
             /\ \A u \in Threads : u # t => pc[u] = "idle"
  BY <1>2, Exclusion DEF LockInv
<1>3. ASSUME UNCHANGED <<live, archives>>
      PROVE  /\ SeqIncreasing'
             /\ \A n : TailBelow(n)' <=> TailBelow(n)
  BY <1>3 DEF SeqInv, SeqIncreasing, Files, TailBelow
<1>4. ASSUME UNCHANGED <<live, archives, sequence, pending>>,
             \A l \in Loggers : boot'[l] \in {boot[l], "down"} \/ boot'[l] # "up",
             \A t \in Threads : pc'[t] = "write" => pc[t] = "write"
      PROVE  SeqInv'
  BY <1>3, <1>4 DEF SeqInv, TailBelow
<1>5. ASSUME NEW l \in Loggers, BootStep(l)
      PROVE  SeqInv'
  <2>. USE DEF fileVars, memVars, callVars
  <2>1. CASE ReadKey(l) \/ DrawKey(l) \/ OpenKeyFile(l) \/ StoreKey(l)
    BY <2>1, <1>4 DEF ReadKey, DrawKey, OpenKeyFile, StoreKey
  <2>2. CASE LoadTail(l)
    <3>1. /\ UNCHANGED <<live, archives, pending, pc>>
          /\ \A m \in Loggers : sequence'[m] = LoadLastSequence(live)
          /\ boot[l] = "load"
      BY <2>2, <1>1 DEF LoadTail
    <3>2. \A t \in Threads : pc[t] = "idle"
      BY <3>1, <1>1, <1>2
    <3>3. TailBelow(LoadLastSequence(live))
      <4>1. SUFFICES ASSUME NEW i \in 1..Len(live), Parsable(live, i, Len(live))
                     PROVE  live[i].seq <= LoadLastSequence(live)
        BY DEF TailBelow
      <4>2. live # <<>> /\ Len(live) \in 1..Len(live) /\ live[Len(live)] # Junk /\ live[i] # Junk
        BY <4>1, EmptySeq DEF Parsable
      <4>3. LoadLastSequence(live) = live[Len(live)].seq
        BY <4>2 DEF LoadLastSequence
      <4>4. i # Len(live) => live[i].seq < live[Len(live)].seq
        <5>1. \A j, k \in 1..Len(live) :
                j < k /\ Parsable(live, j, k) => live[j].seq < live[k].seq
          BY LiveIsFile DEF SeqInv, SeqIncreasing, Parsable
        <5>2. i # Len(live) => i < Len(live)
          OBVIOUS
        <5>. QED
          BY <4>1, <4>2, <5>1, <5>2
      <4>5. live[i].seq \in Nat /\ live[Len(live)].seq \in Nat
        BY <4>2, SeqTypes
      <4>. QED
        BY <4>3, <4>4, <4>5
    <3>. QED
      BY <3>1, <3>2, <3>3, <1>3 DEF SeqInv, TailBelow
  <2>. QED
    BY <1>5, <2>1, <2>2 DEF BootStep
<1>6. ASSUME NEW l \in Loggers, Crash(l)
      PROVE  SeqInv'
  BY <1>6, <1>4 DEF Crash, Die, memVars
<1>7. ASSUME NEW t \in Threads, Acquire(t)
      PROVE  SeqInv'
  BY <1>7, <1>4 DEF Acquire, Goto, fileVars, bootVars, memVars
<1>8. ASSUME NEW t \in Threads, Commit(t)
      PROVE  SeqInv'
  BY <1>8, <1>4 DEF Commit, Release, Goto, fileVars, bootVars
<1>9. ASSUME NEW t \in Threads, BuildEntry(t) \/ BuildRaises(t)
      PROVE  SeqInv'
  <2>. DEFINE l == ObjOf[t]
  <2>1. /\ UNCHANGED <<live, archives, boot>> /\ pc[t] # "idle"
        /\ sequence' = [sequence EXCEPT ![l] = @ + 1]
    BY <1>9 DEF BuildEntry, BuildRaises, fileVars, bootVars
  <2>2. \A i \in 1..Len(live) : Parsable(live, i, Len(live)) =>
          live[i].seq \in Nat /\ live[i].seq <= sequence[l]
    <3>1. \A i \in 1..Len(live) : Parsable(live, i, Len(live)) => live[i] # Junk
      BY DEF Parsable
    <3>. QED
      BY <2>1, <3>1, <1>2, SeqTypes DEF SeqInv, TailBelow
  <2>3. sequence[l] \in Nat /\ \A m \in Loggers : sequence'[m] = sequence[l] + 1
    BY <2>1, <1>1
  <2>4. ASSUME NEW u \in Threads, pc'[u] = "write"
        PROVE  u = t /\ pending'[t].seq = sequence[l] + 1
    BY <2>4, <2>1, <1>2, <1>9 DEF BuildEntry, BuildRaises, Goto, Release
  <2>5. \A i \in 1..Len(live) : Parsable(live, i, Len(live)) => live[i].seq < sequence[l] + 1
    BY <2>2, <2>3
  <2>6. TailBelow(sequence[l] + 1)
    BY <2>2, <2>3 DEF TailBelow
  <2>. QED
    BY <2>1, <2>3, <2>4, <2>5, <2>6, <1>3 DEF SeqInv, TailBelow
<1>10. ASSUME NEW t \in Threads, pc[t] = "write", NEW outcome \in Outcomes,
              AppendTo(LineOf(t), outcome), UNCHANGED <<archives, sequence>>,
              \A u \in Threads : pc'[u] # "write"
       PROVE  SeqInv'
  <2>1. PICK n : n = sequence[ObjOf[t]]
    OBVIOUS
  <2>2. /\ n \in Nat /\ LineOf(t).seq = n
        /\ \A i \in 1..Len(live) : Parsable(live, i, Len(live)) => live[i].seq < n
    BY <2>1, <1>10 DEF SeqInv, LineOf
  <2>3. /\ SeqIncreasing'
        /\ \A i \in 1..Len(live') : Parsable(live', i, Len(live')) => live'[i].seq <= n
    BY <2>2, <1>10, AppendNumbers DEF SeqInv
  <2>4. \A l \in Loggers : sequence'[l] = n
    BY <2>1, <1>1, <1>10
  <2>. QED
    BY <2>3, <2>4, <1>10 DEF SeqInv, TailBelow
<1>11. ASSUME NEW t \in Threads, AppendLine(t)
       PROVE  SeqInv'
  <2>1. /\ pc[t] = "write" /\ AppendTo(LineOf(t), "full") /\ UNCHANGED <<archives, sequence>>
        /\ pc' = [pc EXCEPT ![t] = "commit"]
    BY <1>11 DEF AppendLine, Goto, memVars
  <2>2. \A u \in Threads : pc'[u] # "write"
    BY <2>1, <1>2
  <2>. QED
    BY <2>1, <2>2, <1>10 DEF Outcomes
<1>12. ASSUME NEW t \in Threads, NEW outcome \in ErrorOutcomes, AppendRaises(t, outcome)
       PROVE  SeqInv'
  <2>1. /\ pc[t] = "write" /\ AppendTo(LineOf(t), outcome) /\ UNCHANGED <<archives, sequence>>
        /\ pc' = [pc EXCEPT ![t] = "idle"] /\ outcome \in Outcomes
    BY <1>12, FaultAssumption DEF AppendRaises, Release, Goto, memVars
  <2>2. \A u \in Threads : pc'[u] # "write"
    BY <2>1, <1>2
  <2>. QED
    BY <2>1, <2>2, <1>10
<1>13. ASSUME NEW t \in Threads, NEW outcome \in CrashOutcomes, CrashInAppend(t, outcome)
       PROVE  SeqInv'
  <2>1. /\ pc[t] = "write" /\ AppendTo(LineOf(t), outcome) /\ UNCHANGED <<archives, sequence>>
        /\ \A u \in Threads : pc'[u] = "idle" /\ outcome \in Outcomes
    BY <1>13, <1>1, FaultAssumption DEF CrashInAppend, Die, memVars, Outcomes
  <2>. QED
    BY <2>1, <1>10
<1>14. ASSUME NEW t \in Threads, RotateLog(t)
       PROVE  SeqInv'
  <2>1. PICK s \in Stamps : archives' = [archives EXCEPT ![s] = live]
    BY <1>14 DEF RotateLog
  <2>2. live' = <<>> /\ pc[t] # "idle" /\ pc' = [pc EXCEPT ![t] = "build"]
    BY <1>14 DEF RotateLog, Goto
  <2>3. \A f \in Files' : f \in Files \/ f = <<>>
    BY <2>1, <2>2 DEF Files
  <2>4. \A u \in Threads : pc'[u] # "write"
    BY <2>2, <1>2
  <2>5. SeqIncreasing'
    BY <2>3 DEF SeqInv, SeqIncreasing
  <2>. QED
    BY <2>2, <2>4, <2>5 DEF SeqInv, TailBelow
<1>15. CASE UNCHANGED vars
  BY <1>15, <1>4 DEF vars, fileVars, bootVars, memVars, callVars
<1>. QED
  BY <1>5, <1>6, <1>7, <1>8, <1>9, <1>11, <1>12, <1>13, <1>14, <1>15
     DEF Next, CallStep

\* With one AuditLogger object the sequence numbers of every file grow strictly
\* along the lines that parse one after the other, whatever appends fail or are
\* cut short and wherever the process dies: a failed call may leave a gap, and
\* no restart repeats a number without a damaged line in between.
THEOREM SequenceGrows ==
  ASSUME SoleObject
  PROVE  Spec => []SeqIncreasing
<1>. DEFINE Inv == TypeInv /\ LockInv /\ SeqInv
<1>1. Init => Inv
  <2>1. Init => SeqInv
    BY DEF Init, SeqInv, SeqIncreasing, Files, TailBelow
  <2>2. Init => LockInv
    BY DEF Init, LockInv
  <2>. QED
    BY <2>1, <2>2, TypeInit
<1>2. Inv /\ [Next]_vars => Inv'
  BY TypeStep, LockStep, SeqStep
<1>3. Inv => SeqIncreasing
  BY DEF SeqInv
<1>. QED
  BY <1>1, <1>2, <1>3, PTL DEF Spec

-----------------------------------------------------------------------------
(***************************************************************************)
(* For the refinement: when no append leaves part of a line, what log_event *)
(* has returned stays readable if rotations fall into different seconds, so *)
(* that a rotated file is never the target of a rename.                     *)
(***************************************************************************)
Readable(h) ==
  \E f \in Files : \E i \in 1..Len(f) : f[i] # Junk /\ f[i].hash = h

AckInv ==
  /\ \A h \in acked : Readable(h)
  /\ \A t \in Threads : pc[t] = "commit" => Readable(pending[t].hash)
  /\ \A s \in Stamps : s >= clock => archives[s] = <<>>

\* A hash that can be read back can be read back after any step.
LEMMA ReadableStep ==
  ASSUME WholeLines, ChainInv, AckInv, [Next]_vars, NEW h, Readable(h)
  PROVE  Readable(h)'
<1>. PICK f \in Files : \E i \in 1..Len(f) : f[i] # Junk /\ f[i].hash = h
  BY DEF Readable
<1>. PICK i \in 1..Len(f) : f[i] # Junk /\ f[i].hash = h
  OBVIOUS
<1>. USE DEF ChainInv, LinkInv, TypeInv, TypeOK, fileVars
<1>1. CASE UNCHANGED <<live, archives>>
  BY <1>1 DEF Readable, Files
<1>2. ASSUME NEW t \in Threads, AppendLine(t)
      PROVE  Readable(h)'
  <2>1. live' = Append(live, LineOf(t)) /\ UNCHANGED archives
    BY <1>2 DEF AppendLine, AppendTo, AfterAppend, LineInv
  <2>2. Len(live') = Len(live) + 1 /\ Len(live) \in Nat
        /\ \A j \in 1..Len(live) : live'[j] = live[j]
    BY <2>1, EntryType, AppendProperties, LenProperties DEF Line
  <2>3. CASE f = live
    <3>1. i \in 1..Len(live') /\ live'[i] = f[i] /\ live' \in Files'
      BY <2>2, <2>3 DEF Files
    <3>. QED
      BY <3>1 DEF Readable
  <2>4. CASE f # live
    <3>1. f \in Files'
      BY <2>1, <2>4 DEF Files
    <3>. QED
      BY <3>1 DEF Readable
  <2>. QED
    BY <2>3, <2>4
<1>3. ASSUME NEW t \in Threads, RotateLog(t)
      PROVE  Readable(h)'
  <2>1. PICK s \in Stamps : s >= clock /\ archives' = [archives EXCEPT ![s] = live]
    BY <1>3 DEF RotateLog
  <2>2. f # <<>>
    OBVIOUS
  <2>3. f \in Files'
    <3>1. CASE f = live
      BY <2>1, <3>1 DEF Files
    <3>2. CASE f # live
      <4>1. PICK r \in Stamps : f = archives[r]
        BY <3>2 DEF Files
      <4>2. archives'[r] = f
        BY <2>1, <2>2, <4>1 DEF AckInv
      <4>. QED
        BY <4>2 DEF Files
    <3>. QED
      BY <3>1, <3>2
  <2>. QED
    BY <2>3 DEF Readable
<1>4. ASSUME NEW t \in Threads, NEW outcome \in ErrorOutcomes, AppendRaises(t, outcome)
      PROVE  UNCHANGED <<live, archives>>
  BY <1>4 DEF AppendRaises, AppendTo, AfterAppend, WholeLines
<1>5. ASSUME NEW l \in Loggers, BootStep(l) \/ Crash(l)
      PROVE  UNCHANGED <<live, archives>>
  BY <1>5 DEF BootStep, ReadKey, DrawKey, OpenKeyFile, StoreKey, LoadTail, Crash, Die
<1>6. ASSUME NEW t \in Threads, Acquire(t) \/ BuildEntry(t) \/ BuildRaises(t) \/ Commit(t)
      PROVE  UNCHANGED <<live, archives>>
  BY <1>6 DEF Acquire, BuildEntry, BuildRaises, Commit
<1>. QED
  BY <1>1, <1>2, <1>3, <1>4, <1>5, <1>6 DEF Next, CallStep, WholeLines, vars

LEMMA AckStep ==
  ASSUME SoleObject, WholeLines, ~SameSecond, ChainInv, AckInv, [Next]_vars
  PROVE  AckInv'
<1>. USE DEF ChainInv, LinkInv, TypeInv, TypeOK
<1>1. \A h : Readable(h) => Readable(h)'
  BY ReadableStep
<1>2. \A h \in acked : Readable(h)
  BY DEF AckInv
<1>3. ASSUME \A h \in acked' : Readable(h)'
      PROVE  (\A h \in acked : Readable(h))'
  BY <1>3
<1>4. ASSUME UNCHANGED <<archives, clock, pending, acked>>,
             \A t \in Threads : pc'[t] = "commit" => pc[t] = "commit"
      PROVE  AckInv'
  BY <1>1, <1>2, <1>3, <1>4 DEF AckInv
<1>5. ASSUME NEW l \in Loggers, BootStep(l)
      PROVE  AckInv'
  BY <1>5, <1>4 DEF BootStep, ReadKey, DrawKey, OpenKeyFile, StoreKey, LoadTail,
                    fileVars, callVars
<1>6. ASSUME NEW l \in Loggers, Die(l)
      PROVE  AckInv'
  BY <1>6, <1>4 DEF Die
<1>7. ASSUME NEW t \in Threads, Acquire(t)
      PROVE  AckInv'
  BY <1>7, <1>4 DEF Acquire, Goto, fileVars
<1>8. ASSUME NEW t \in Threads, BuildEntry(t)
      PROVE  AckInv'
  <2>1. /\ UNCHANGED <<archives, clock, acked>>
        /\ pending' = [pending EXCEPT ![t] = pending'[t]]
        /\ pc' = [pc EXCEPT ![t] = "write"]
    BY <1>8 DEF BuildEntry, Goto, fileVars
  <2>2. \A u \in Threads : pc'[u] = "commit" =>
          pc[u] = "commit" /\ pending'[u] = pending[u]
    BY <2>1
  <2>. QED
    BY <2>1, <2>2, <1>1, <1>2, <1>3 DEF AckInv
<1>9. ASSUME NEW t \in Threads, BuildRaises(t)
      PROVE  AckInv'
  BY <1>9, <1>4 DEF BuildRaises, Release, Goto, fileVars
<1>10. ASSUME NEW t \in Threads, NEW outcome \in ErrorOutcomes, AppendRaises(t, outcome)
       PROVE  AckInv'
  BY <1>10, <1>4 DEF AppendRaises, Release, Goto
<1>11. ASSUME NEW t \in Threads, AppendLine(t)
       PROVE  AckInv'
  <2>1. /\ UNCHANGED <<archives, clock, acked, pending>>
        /\ pc' = [pc EXCEPT ![t] = "commit"]
        /\ live' = Append(live, LineOf(t))
    BY <1>11 DEF AppendLine, Goto, AppendTo, AfterAppend, LineInv
  <2>2. /\ Len(live') = Len(live) + 1 /\ Len(live) \in Nat
        /\ live'[Len(live) + 1] = LineOf(t)
    BY <2>1, EntryType, AppendProperties, LenProperties DEF Line
  <2>3. Len(live) + 1 \in 1..Len(live') /\ live' \in Files'
    BY <2>2 DEF Files
  <2>4. LineOf(t) # Junk /\ LineOf(t).hash = pending'[t].hash
    BY <2>1 DEF LineOf, Junk
  <2>5. Readable(pending[t].hash)'
    BY <2>2, <2>3, <2>4 DEF Readable
  <2>. QED
    BY <2>1, <2>5, <1>1, <1>2, <1>3 DEF AckInv
<1>12. ASSUME NEW t \in Threads, Commit(t)
       PROVE  AckInv'
  <2>1. /\ UNCHANGED <<archives, clock, pending>> /\ pc[t] = "commit"
        /\ pc' = [pc EXCEPT ![t] = "idle"]
        /\ acked' = acked \cup {pending[t].hash}
    BY <1>12 DEF Commit, Release, Goto, fileVars
  <2>2. \A h \in acked' : Readable(h)
    BY <2>1, <1>2 DEF AckInv
  <2>. QED
    BY <2>1, <2>2, <1>1, <1>3 DEF AckInv
<1>13. ASSUME NEW t \in Threads, RotateLog(t)
       PROVE  AckInv'
  <2>1. PICK s \in Stamps :
          /\ s >= clock /\ archives' = [archives EXCEPT ![s] = live]
          /\ clock' = s + 1
    BY <1>13 DEF RotateLog
  <2>2. \A r \in Stamps : r >= clock' => archives'[r] = <<>>
    BY <2>1 DEF AckInv, Stamps
  <2>3. UNCHANGED <<acked, pending>> /\ pc' = [pc EXCEPT ![t] = "build"]
    BY <1>13 DEF RotateLog, Goto
  <2>. QED
    BY <2>2, <2>3, <1>1, <1>2, <1>3 DEF AckInv
<1>14. CASE UNCHANGED vars
  BY <1>14, <1>4 DEF vars, fileVars, callVars
<1>. QED
  BY <1>5, <1>6, <1>7, <1>8, <1>9, <1>10, <1>11, <1>12, <1>13, <1>14
     DEF Next, CallStep, WholeLines, Crash

-----------------------------------------------------------------------------
(***************************************************************************)
(* The refinement of AppendOnlyLog.  An append must bring a hash no file    *)
(* holds: every hash in a file, and the one a thread is about to write, is   *)
(* below freshHash, and no file holds the latter.                           *)
(***************************************************************************)
FreshInv ==
  /\ freshHash \in 1..(MaxEntries + 1)
  /\ \A f \in Files : \A i \in 1..Len(f) : f[i].hash \in 1..(freshHash - 1)
  /\ \A t \in Threads : pc[t] \in {"check", "build"} => freshHash <= MaxEntries
  /\ \A t \in Threads : pc[t] = "write" =>
       /\ pending[t].hash \in 1..(freshHash - 1)
       /\ \A f \in Files : \A i \in 1..Len(f) : f[i].hash # pending[t].hash

\* The hashes in the files, the hash about to be written and the next unused
\* one, step by step.
LEMMA FreshStep ==
  ASSUME SoleObject, WholeLines, ChainInv, FreshInv, [Next]_vars
  PROVE  FreshInv'
<1>. USE ObjOfAssumption, BoundsAssumption DEF ChainInv, LinkInv, TypeInv, TypeOK
<1>1. ASSUME NEW t \in Threads, pc[t] # "idle"
      PROVE  \A u \in Threads : u # t => pc[u] = "idle"
  BY <1>1, Exclusion
<1>2. ASSUME UNCHANGED <<live, archives, pending, freshHash>>,
             \A t \in Threads : pc'[t] \in {pc[t], "idle", "commit"}
      PROVE  FreshInv'
  <2>1. Files' = Files
    BY <1>2 DEF Files
  <2>. QED
    BY <1>2, <2>1 DEF FreshInv
<1>3. ASSUME NEW l \in Loggers, BootStep(l)
      PROVE  FreshInv'
  BY <1>3, <1>2 DEF BootStep, ReadKey, DrawKey, OpenKeyFile, StoreKey, LoadTail,
                    fileVars, callVars
<1>4. ASSUME NEW l \in Loggers, Crash(l)
      PROVE  FreshInv'
  BY <1>4, <1>2 DEF Crash, Die
<1>5. ASSUME NEW t \in Threads, Acquire(t)
      PROVE  FreshInv'
  <2>1. UNCHANGED <<live, archives, pending, freshHash>> /\ freshHash <= MaxEntries
        /\ pc' = [pc EXCEPT ![t] = "check"]
    BY <1>5 DEF Acquire, Goto, fileVars
  <2>2. Files' = Files
    BY <2>1 DEF Files
  <2>. QED
    BY <2>1, <2>2 DEF FreshInv
<1>6. ASSUME NEW t \in Threads, BuildEntry(t)
      PROVE  FreshInv'
  <2>1. /\ UNCHANGED <<live, archives>>
        /\ freshHash' = freshHash + 1
        /\ pc' = [pc EXCEPT ![t] = "write"]
        /\ pc[t] \in {"check", "build"}
    BY <1>6 DEF BuildEntry, Goto, fileVars
  <2>2. pending'[t].hash = freshHash
    BY <1>6 DEF BuildEntry
  <2>3. Files' = Files
    BY <2>1 DEF Files
  <2>4. freshHash \in 1..MaxEntries
    BY <2>1 DEF FreshInv
  <2>5. \A u \in Threads : pc'[u] # "idle" => u = t
    BY <2>1, <1>1
  <2>6. \A u \in Threads : pc'[u] \notin {"check", "build"}
    BY <2>1, <2>5
  <2>7. \A f \in Files : \A i \in 1..Len(f) : f[i].hash \in 1..freshHash /\ f[i].hash # freshHash
    BY <2>4 DEF FreshInv
  <2>. QED
    BY <2>1, <2>2, <2>3, <2>4, <2>5, <2>6, <2>7 DEF FreshInv
<1>7. ASSUME NEW t \in Threads, BuildRaises(t)
      PROVE  FreshInv'
  <2>1. /\ UNCHANGED <<live, archives, pending>>
        /\ freshHash' = freshHash + 1
        /\ pc' = [pc EXCEPT ![t] = "idle"]
        /\ pc[t] \in {"check", "build"}
    BY <1>7 DEF BuildRaises, Release, Goto, fileVars
  <2>2. Files' = Files
    BY <2>1 DEF Files
  <2>3. freshHash \in 1..MaxEntries
    BY <2>1 DEF FreshInv
  <2>4. \A u \in Threads : pc'[u] = "idle"
    BY <2>1, <1>1
  <2>5. \A f \in Files : \A i \in 1..Len(f) : f[i].hash \in 1..freshHash
    BY <2>3 DEF FreshInv
  <2>. QED
    BY <2>1, <2>2, <2>3, <2>4, <2>5 DEF FreshInv
<1>8. ASSUME NEW t \in Threads, NEW outcome \in ErrorOutcomes, AppendRaises(t, outcome)
      PROVE  FreshInv'
  BY <1>8, <1>2 DEF AppendRaises, AppendTo, AfterAppend, WholeLines, Release, Goto
<1>9. ASSUME NEW t \in Threads, AppendLine(t)
      PROVE  FreshInv'
  <2>1. /\ UNCHANGED <<archives, pending, freshHash>>
        /\ pc' = [pc EXCEPT ![t] = "commit"] /\ pc[t] = "write"
        /\ live' = Append(live, LineOf(t))
    BY <1>9 DEF AppendLine, Goto, AppendTo, AfterAppend, LineInv
  <2>2. LineOf(t).hash \in 1..(freshHash - 1)
    BY <2>1 DEF LineOf, FreshInv
  <2>3. ASSUME NEW f \in Files', NEW i \in 1..Len(f)
        PROVE  f[i].hash \in 1..(freshHash - 1)
    <3>1. \/ f \in Files
          \/ f[i] = LineOf(t)
          \/ i \in 1..Len(live) /\ f[i] = live[i]
      BY <2>1, <2>3, AppendedLine
    <3>. QED
      BY <2>2, <2>3, <3>1, LiveIsFile DEF FreshInv
  <2>4. \A u \in Threads : pc'[u] \notin {"check", "build", "write"}
    BY <2>1, <1>1
  <2>. QED
    BY <2>1, <2>3, <2>4 DEF FreshInv
<1>10. ASSUME NEW t \in Threads, Commit(t)
       PROVE  FreshInv'
  BY <1>10, <1>2 DEF Commit, Release, Goto, fileVars
<1>11. ASSUME NEW t \in Threads, RotateLog(t)
       PROVE  FreshInv'
  <2>1. PICK s \in Stamps : archives' = [archives EXCEPT ![s] = live]
    BY <1>11 DEF RotateLog
  <2>2. live' = <<>> /\ UNCHANGED <<pending, freshHash>> /\ pc[t] = "check"
        /\ pc' = [pc EXCEPT ![t] = "build"]
    BY <1>11 DEF RotateLog, Goto
  <2>3. \A f \in Files' : f \in Files \/ f = <<>>
    BY <2>1, <2>2 DEF Files
  <2>4. \A u \in Threads : pc'[u] # "write"
    BY <2>2, <1>1
  <2>. QED
    BY <2>2, <2>3, <2>4 DEF FreshInv
<1>12. CASE UNCHANGED vars
  BY <1>12, <1>2 DEF vars, fileVars, callVars
<1>. QED
  BY <1>3, <1>4, <1>5, <1>6, <1>7, <1>8, <1>9, <1>10, <1>11, <1>12
     DEF Next, CallStep, WholeLines

\* An entry with hash h is line i of volume v.
StandsAt(h, v, i) ==
  v \in Volumes /\ i \in 1..Len(Volume(v)) /\ Volume(v)[i].hash = h
Follows(v, i, w, j) == v < w \/ (v = w /\ i < j)
NoJunk == \A v \in Volumes : \A i \in 1..Len(Volume(v)) : Volume(v)[i] # Junk

\* What the refinement mapping contains, in terms of places.
RecordedMeans == \A h : h \in Recorded <=> \E v, i : StandsAt(h, v, i)
BeforeMeans ==
  /\ \A p \in Before : \E g, h, v, i, w, j :
       p = <<g, h>> /\ StandsAt(g, v, i) /\ StandsAt(h, w, j) /\ Follows(v, i, w, j)
  /\ \A g, h, v, i, w, j :
       StandsAt(g, v, i) /\ StandsAt(h, w, j) /\ Follows(v, i, w, j) => <<g, h>> \in Before

\* The places of a log without junk are the lines of its volumes.
LEMMA PlacesMeaning ==
  NoJunk => \A p : p \in Places <=>
              \E v \in Volumes : \E i \in 1..Len(Volume(v)) : p = <<v, i>>
BY DEF NoJunk, Places, Lines, LineAt

LEMMA MappingMeaning == NoJunk => RecordedMeans /\ BeforeMeans
<1>. SUFFICES ASSUME NoJunk
              PROVE  RecordedMeans /\ BeforeMeans
  OBVIOUS
<1>1. \A p : p \in Places <=>
        \E v \in Volumes : \E i \in 1..Len(Volume(v)) : p = <<v, i>>
  BY PlacesMeaning
<1>2. RecordedMeans
  <2>1. ASSUME NEW h, h \in Recorded
        PROVE  \E v, i : StandsAt(h, v, i)
    <3>1. PICK p \in Places : h = LineAt(p).hash
      BY <2>1 DEF Recorded
    <3>2. PICK v \in Volumes : \E i \in 1..Len(Volume(v)) : p = <<v, i>>
      BY <1>1
    <3>3. PICK i \in 1..Len(Volume(v)) : p = <<v, i>>
      BY <3>2
    <3>. QED
      BY <3>1, <3>3 DEF LineAt, StandsAt
  <2>2. ASSUME NEW h, NEW v, NEW i, StandsAt(h, v, i)
        PROVE  h \in Recorded
    <3>1. <<v, i>> \in Places /\ LineAt(<<v, i>>).hash = h
      BY <1>1, <2>2 DEF StandsAt, LineAt
    <3>. QED
      BY <3>1 DEF Recorded
  <2>. QED
    BY <2>1, <2>2 DEF RecordedMeans
<1>3. ASSUME NEW p, p \in Before
      PROVE  \E g, h, v, i, w, j :
               p = <<g, h>> /\ StandsAt(g, v, i) /\ StandsAt(h, w, j) /\ Follows(v, i, w, j)
  <2>1. PICK r \in Places \X Places :
          Earlier(r[1], r[2]) /\ p = <<LineAt(r[1]).hash, LineAt(r[2]).hash>>
    BY <1>3 DEF Before
  <2>2. PICK v \in Volumes : \E i \in 1..Len(Volume(v)) : r[1] = <<v, i>>
    BY <1>1
  <2>3. PICK w \in Volumes : \E j \in 1..Len(Volume(w)) : r[2] = <<w, j>>
    BY <1>1
  <2>4. PICK i \in 1..Len(Volume(v)), j \in 1..Len(Volume(w)) :
          r[1] = <<v, i>> /\ r[2] = <<w, j>>
    BY <2>2, <2>3
  <2>5. StandsAt(LineAt(r[1]).hash, v, i) /\ StandsAt(LineAt(r[2]).hash, w, j)
    BY <2>4 DEF StandsAt, LineAt
  <2>6. Follows(v, i, w, j)
    BY <2>1, <2>4 DEF Earlier, Follows
  <2>. QED
    BY <2>1, <2>5, <2>6
<1>4. ASSUME NEW g, NEW h, NEW v, NEW i, NEW w, NEW j,
             StandsAt(g, v, i), StandsAt(h, w, j), Follows(v, i, w, j)
      PROVE  <<g, h>> \in Before
  <2>1. <<v, i>> \in Places /\ <<w, j>> \in Places
    BY <1>1, <1>4 DEF StandsAt
  <2>2. Earlier(<<v, i>>, <<w, j>>)
    BY <1>4 DEF Earlier, Follows
  <2>3. LineAt(<<v, i>>).hash = g /\ LineAt(<<w, j>>).hash = h
    BY <1>4 DEF StandsAt, LineAt
  <2>4. PICK x, y : x = <<v, i>> /\ y = <<w, j>>
    OBVIOUS
  <2>5. <<x, y>> \in Places \X Places /\ <<x, y>>[1] = x /\ <<x, y>>[2] = y
    BY <2>1, <2>4
  <2>6. PICK r \in Places \X Places : r[1] = x /\ r[2] = y
    BY <2>5
  <2>7. /\ Earlier(r[1], r[2])
        /\ <<g, h>> = <<LineAt(r[1]).hash, LineAt(r[2]).hash>>
    BY <2>2, <2>3, <2>4, <2>6
  <2>. QED
    BY <2>7 DEF Before
<1>. QED
  BY <1>2, <1>3, <1>4 DEF BeforeMeans

\* The same one step later.
LEMMA MappingMeaningNext == NoJunk' => RecordedMeans' /\ BeforeMeans'
BY MappingMeaning, PTL

LEMMA NoJunkHolds == LineInv => NoJunk
BY DEF LineInv, NoJunk, Files, Volume

LEMMA NoJunkHoldsNext == LineInv' => NoJunk'
BY NoJunkHolds, PTL

Latest == MaxStamp + 1

LEMMA VolumeFacts ==
  /\ Latest \in Volumes /\ Volume(Latest) = live
  /\ \A v \in Volumes : v # Latest => v \in Stamps /\ v < Latest /\ Volume(v) = archives[v]
  /\ \A s \in Stamps : s \in Volumes /\ s # Latest
BY BoundsAssumption DEF Latest, Volumes, Volume, Stamps

LEMMA VolumeFactsNext ==
  /\ Volume(Latest)' = live'
  /\ \A v \in Volumes : v # Latest => Volume(v)' = archives'[v]
BY BoundsAssumption DEF Latest, Volumes, Volume, Stamps

\* Every volume is the log or a rotated file.
LEMMA VolumesAreFiles == \A v \in Volumes : Volume(v) \in Files
BY DEF Volume, Files

\* Where the entries stand after an append: where they stood, and the new one
\* behind all of them.
LEMMA AppendPlaces ==
  ASSUME ChainInv, NEW t \in Threads, NEW e, e = LineOf(t),
         live' = Append(live, e), UNCHANGED archives,
         NEW h, NEW v, NEW i
  PROVE  StandsAt(h, v, i)' <=>
           \/ StandsAt(h, v, i)
           \/ v = Latest /\ i = Len(live) + 1 /\ h = e.hash
<1>1. live \in Seq(Line) /\ e \in Line
  BY EntryType DEF ChainInv, LinkInv, TypeInv, TypeOK, Line
<1>2. /\ Len(live') = Len(live) + 1 /\ Len(live) \in Nat
      /\ \A j \in 1..Len(live) : live'[j] = live[j]
      /\ live'[Len(live) + 1] = e
  BY <1>1, AppendProperties, LenProperties
<1>3. CASE v = Latest
  <2>1. StandsAt(h, v, i)' <=> i \in 1..Len(live') /\ live'[i].hash = h
    BY <1>3, VolumeFacts, VolumeFactsNext DEF StandsAt
  <2>2. StandsAt(h, v, i) <=> i \in 1..Len(live) /\ live[i].hash = h
    BY <1>3, VolumeFacts DEF StandsAt
  <2>3. i \in 1..Len(live') <=> i \in 1..Len(live) \/ i = Len(live) + 1
    BY <1>2
  <2>. QED
    BY <1>2, <1>3, <2>1, <2>2, <2>3
<1>4. CASE v # Latest
  BY <1>4, VolumeFacts, VolumeFactsNext DEF StandsAt
<1>. QED
  BY <1>3, <1>4

\* A rotation moves the log into the place of a volume behind all those that
\* hold entries.
LEMMA RotatePlaces ==
  ASSUME ChainInv, AckInv, NEW s \in Stamps, s >= clock,
         archives' = [archives EXCEPT ![s] = live], live' = <<>>,
         NEW h, NEW v, NEW i
  PROVE  /\ StandsAt(h, v, i) => v = Latest \/ v < s
         /\ StandsAt(h, Latest, i) => StandsAt(h, s, i)'
         /\ StandsAt(h, v, i) /\ v # Latest => StandsAt(h, v, i)'
         /\ StandsAt(h, v, i)' =>
              \/ v = s /\ StandsAt(h, Latest, i)
              \/ v < s /\ v # Latest /\ StandsAt(h, v, i)
<1>1. clock \in Nat /\ s \in Nat /\ s \in Volumes /\ s # Latest
      /\ archives \in [Stamps -> Seq(Line)]
  BY VolumeFacts DEF ChainInv, LinkInv, TypeInv, TypeOK, Stamps
<1>2. \A r \in Stamps : r \in Nat /\ (r >= s => archives[r] = <<>>)
  BY <1>1 DEF AckInv, Stamps
<1>3. \A j : j \notin 1..Len(<<>>)
  OBVIOUS
<1>4. StandsAt(h, v, i) => v = Latest \/ v < s
  BY <1>1, <1>2, <1>3, VolumeFacts DEF StandsAt
<1>5. /\ Volume(Latest)' = <<>>
      /\ Volume(s)' = live
      /\ \A r \in Volumes : r # Latest /\ r # s => Volume(r)' = Volume(r)
  BY <1>1, VolumeFacts, VolumeFactsNext
<1>6. StandsAt(h, Latest, i) => StandsAt(h, s, i)'
  BY <1>1, <1>5, VolumeFacts DEF StandsAt
<1>7. StandsAt(h, v, i) /\ v # Latest => StandsAt(h, v, i)'
  <2>1. s \in Volumes /\ s # Latest /\ ~(s < s)
    BY <1>1
  <2>. QED
    BY <1>4, <1>5, <2>1 DEF StandsAt
<1>8. StandsAt(h, v, i)' => \/ v = s /\ StandsAt(h, Latest, i)
                            \/ v # Latest /\ StandsAt(h, v, i)
  BY <1>1, <1>3, <1>5, VolumeFacts DEF StandsAt
<1>. QED
  BY <1>4, <1>6, <1>7, <1>8

\* A step that leaves the files alone leaves the record alone.
LEMMA SameRecord ==
  ASSUME UNCHANGED <<live, archives>>
  PROVE  Recorded' = Recorded /\ Before' = Before
<1>1. \A v : Volume(v)' = Volume(v)
  BY DEF Volume
<1>2. Places' = Places
  BY <1>1 DEF Places, Lines, LineAt
<1>. QED
  BY <1>1, <1>2 DEF Recorded, Before, LineAt

\* An append records the event, behind all those recorded before.
LEMMA AppendRecords ==
  ASSUME SoleObject, WholeLines, ChainInv, ChainInv', FreshInv,
         NEW t \in Threads, AppendLine(t)
  PROVE  Abstract!Record(pending[t].hash) /\ pending[t].hash \in Hashes
<1>1. RecordedMeans /\ BeforeMeans /\ RecordedMeans' /\ BeforeMeans'
  BY MappingMeaning, MappingMeaningNext, NoJunkHolds, NoJunkHoldsNext DEF ChainInv
<1>2. PICK e : e = LineOf(t)
  OBVIOUS
<1>3. live' = Append(live, e) /\ UNCHANGED <<archives, acked>> /\ pc[t] = "write"
  BY <1>2 DEF AppendLine, AppendTo, AfterAppend, ChainInv, LineInv
<1>4. PICK k : k = pending[t].hash
  OBVIOUS
<1>5. e.hash = k
  BY <1>2, <1>4 DEF LineOf
<1>6. k \in Hashes /\ \A v, i : ~StandsAt(k, v, i)
  <2>1. k \in 1..(freshHash - 1) /\ freshHash \in 1..(MaxEntries + 1)
    BY <1>3, <1>4 DEF FreshInv
  <2>2. \A f \in Files : \A i \in 1..Len(f) : f[i].hash # k
    BY <1>3, <1>4 DEF FreshInv
  <2>3. k \in Hashes
    BY <2>1, BoundsAssumption DEF Hashes
  <2>. QED
    BY <2>2, <2>3, VolumesAreFiles DEF StandsAt
<1>7. \A h, v, i : StandsAt(h, v, i)' <=>
        StandsAt(h, v, i) \/ (v = Latest /\ i = Len(live) + 1 /\ h = k)
  BY <1>2, <1>3, <1>5, AppendPlaces
<1>8. k \notin Recorded
  BY <1>1, <1>6 DEF RecordedMeans
<1>9. Recorded' = Recorded \cup {k}
  BY <1>1, <1>7 DEF RecordedMeans
<1>10. PICK n : n = Len(live) + 1
  OBVIOUS
<1>11. \A h, v, i : StandsAt(h, v, i) => Follows(v, i, Latest, n) /\ ~Follows(Latest, n, v, i)
  <2>1. Len(live) \in Nat
    BY LenProperties DEF ChainInv, LinkInv, TypeInv, TypeOK
  <2>2. Latest \in Nat /\ \A v \in Volumes : v \in Nat
    BY BoundsAssumption DEF Latest, Volumes
  <2>. QED
    BY <1>10, <2>1, <2>2, VolumeFacts DEF StandsAt, Follows
<1>12. ~Follows(Latest, n, Latest, n)
  BY <1>10, BoundsAssumption, LenProperties DEF Follows, Latest, ChainInv, LinkInv, TypeInv, TypeOK
<1>13. Before' = Before \cup (Recorded \X {k})
  <2>1. ASSUME NEW p, p \in Before'
        PROVE  p \in Before \cup (Recorded \X {k})
    <3>1. PICK g, h, v, i, w, j :
            p = <<g, h>> /\ StandsAt(g, v, i)' /\ StandsAt(h, w, j)' /\ Follows(v, i, w, j)
      BY <1>1, <2>1 DEF BeforeMeans, Follows
    <3>2. StandsAt(g, v, i) \/ (v = Latest /\ i = n /\ g = k)
      BY <1>7, <1>10, <3>1
    <3>3. StandsAt(h, w, j) \/ (w = Latest /\ j = n /\ h = k)
      BY <1>7, <1>10, <3>1
    <3>4. StandsAt(g, v, i)
      BY <1>11, <1>12, <3>1, <3>2, <3>3
    <3>5. CASE StandsAt(h, w, j)
      BY <1>1, <3>1, <3>4, <3>5 DEF BeforeMeans
    <3>6. CASE h = k
      BY <1>1, <3>1, <3>4, <3>6 DEF RecordedMeans
    <3>. QED
      BY <3>3, <3>5, <3>6
  <2>2. ASSUME NEW p, p \in Before
        PROVE  p \in Before'
    <3>1. PICK g, h, v, i, w, j :
            p = <<g, h>> /\ StandsAt(g, v, i) /\ StandsAt(h, w, j) /\ Follows(v, i, w, j)
      BY <1>1, <2>2 DEF BeforeMeans
    <3>2. StandsAt(g, v, i)' /\ StandsAt(h, w, j)'
      BY <1>7, <3>1
    <3>. QED
      BY <1>1, <3>1, <3>2 DEF BeforeMeans, Follows
  <2>3. ASSUME NEW g \in Recorded
        PROVE  <<g, k>> \in Before'
    <3>1. PICK v, i : StandsAt(g, v, i)
      BY <1>1 DEF RecordedMeans
    <3>2. StandsAt(g, v, i)' /\ StandsAt(k, Latest, n)' /\ Follows(v, i, Latest, n)
      BY <1>7, <1>10, <1>11, <3>1
    <3>. QED
      BY <1>1, <3>2 DEF BeforeMeans, Follows
  <2>. QED
    BY <2>1, <2>2, <2>3
<1>. QED
  BY <1>3, <1>4, <1>6, <1>8, <1>9, <1>13 DEF Abstract!Record

\* A rotation records nothing and keeps the order of what is recorded.
LEMMA RotateStutters ==
  ASSUME ChainInv, ChainInv', AckInv, NEW t \in Threads, RotateLog(t)
  PROVE  UNCHANGED <<Recorded, Before, acked>>
<1>1. RecordedMeans /\ BeforeMeans /\ RecordedMeans' /\ BeforeMeans'
  BY MappingMeaning, MappingMeaningNext, NoJunkHolds, NoJunkHoldsNext DEF ChainInv
<1>2. PICK s \in Stamps : s >= clock /\ archives' = [archives EXCEPT ![s] = live]
  BY DEF RotateLog
<1>3. live' = <<>> /\ UNCHANGED acked
  BY DEF RotateLog
<1>4. \A h, v, i :
        /\ StandsAt(h, v, i) => v = Latest \/ v < s
        /\ StandsAt(h, Latest, i) => StandsAt(h, s, i)'
        /\ StandsAt(h, v, i) /\ v # Latest => StandsAt(h, v, i)'
        /\ StandsAt(h, v, i)' =>
             \/ v = s /\ StandsAt(h, Latest, i)
             \/ v < s /\ v # Latest /\ StandsAt(h, v, i)
  BY <1>2, <1>3, RotatePlaces
<1>5. Recorded' = Recorded
  <2>1. ASSUME NEW h, h \in Recorded
        PROVE  h \in Recorded'
    <3>1. PICK v, i : StandsAt(h, v, i)
      BY <1>1, <2>1 DEF RecordedMeans
    <3>2. StandsAt(h, v, i)' \/ StandsAt(h, s, i)'
      BY <1>4, <3>1
    <3>. QED
      BY <1>1, <3>2 DEF RecordedMeans
  <2>2. ASSUME NEW h, h \in Recorded'
        PROVE  h \in Recorded
    <3>1. PICK v, i : StandsAt(h, v, i)'
      BY <1>1, <2>2 DEF RecordedMeans
    <3>2. StandsAt(h, v, i) \/ StandsAt(h, Latest, i)
      BY <1>4, <3>1
    <3>. QED
      BY <1>1, <3>2 DEF RecordedMeans
  <2>. QED
    BY <2>1, <2>2
<1>6. Latest \in Nat /\ s \in Nat /\ s < Latest /\ \A v \in Volumes : v \in Nat
  BY BoundsAssumption DEF Latest, Volumes, Stamps
<1>7. Before' = Before
  <2>1. ASSUME NEW p, p \in Before
        PROVE  p \in Before'
    <3>1. PICK g, h, v, i, w, j :
            p = <<g, h>> /\ StandsAt(g, v, i) /\ StandsAt(h, w, j) /\ Follows(v, i, w, j)
      BY <1>1, <2>1 DEF BeforeMeans
    <3>. DEFINE a == IF v = Latest THEN s ELSE v
                b == IF w = Latest THEN s ELSE w
    <3>2. StandsAt(g, a, i)' /\ StandsAt(h, b, j)'
      BY <1>4, <3>1
    <3>3. v \in Nat /\ w \in Nat /\ (v # Latest => v < s) /\ (w # Latest => w < s)
      BY <1>4, <1>6, <3>1 DEF StandsAt
    <3>4. Follows(a, i, b, j)
      BY <1>6, <3>1, <3>3 DEF Follows
    <3>. HIDE DEF a, b
    <3>. QED
      BY <1>1, <3>1, <3>2, <3>4 DEF BeforeMeans, Follows
  <2>2. ASSUME NEW p, p \in Before'
        PROVE  p \in Before
    <3>1. PICK g, h, v, i, w, j :
            p = <<g, h>> /\ StandsAt(g, v, i)' /\ StandsAt(h, w, j)' /\ Follows(v, i, w, j)
      BY <1>1, <2>2 DEF BeforeMeans, Follows
    <3>. DEFINE a == IF v = s THEN Latest ELSE v
                b == IF w = s THEN Latest ELSE w
    <3>2. /\ (v = s /\ StandsAt(g, Latest, i)) \/ (v < s /\ v # Latest /\ StandsAt(g, v, i))
          /\ (w = s /\ StandsAt(h, Latest, j)) \/ (w < s /\ w # Latest /\ StandsAt(h, w, j))
      BY <1>4, <3>1
    <3>3. StandsAt(g, a, i) /\ StandsAt(h, b, j)
      BY <1>6, <3>2
    <3>4. /\ v \in Nat /\ (v = s \/ (v < s /\ v # Latest))
          /\ w \in Nat /\ (w = s \/ (w < s /\ w # Latest))
      BY <1>6, <3>2 DEF StandsAt
    <3>5. Follows(a, i, b, j)
      BY <1>6, <3>1, <3>4 DEF Follows
    <3>. HIDE DEF a, b
    <3>. QED
      BY <1>1, <3>1, <3>3, <3>5 DEF BeforeMeans
  <2>. QED
    BY <2>1, <2>2
<1>. QED
  BY <1>3, <1>5, <1>7

\* log_event returns for a recorded event.
LEMMA CommitConfirms ==
  ASSUME ChainInv, AckInv, FreshInv, NEW t \in Threads, Commit(t)
  PROVE  Abstract!Confirm(pending[t].hash) /\ pending[t].hash \in Hashes
<1>1. RecordedMeans
  BY MappingMeaning, NoJunkHolds DEF ChainInv
<1>2. Readable(pending[t].hash) /\ acked' = acked \cup {pending[t].hash}
  BY DEF Commit, AckInv
<1>3. UNCHANGED <<live, archives>>
  BY DEF Commit, fileVars
<1>4. PICK f \in Files : \E i \in 1..Len(f) : f[i].hash = pending[t].hash
  BY <1>2 DEF Readable
<1>5. pending[t].hash \in Hashes
  BY <1>4, BoundsAssumption DEF FreshInv, Hashes
<1>6. \E v \in Volumes : f = Volume(v)
  BY VolumeFacts DEF Files
<1>7. pending[t].hash \in Recorded
  BY <1>1, <1>4, <1>6 DEF RecordedMeans, StandsAt
<1>. QED
  BY <1>2, <1>3, <1>5, <1>7, SameRecord DEF Abstract!Confirm

\* With one AuditLogger object, appends that write their line or nothing, and no
\* two rotations in a second, the log implements AppendOnlyLog: the only step that
\* records an event is the append of its whole line, a rotation moves entries
\* without disturbing their order, and a caller is told only of recorded events.
THEOREM LogIsAppendOnly ==
  ASSUME SoleObject, WholeLines, ~SameSecond
  PROVE  Spec => ImplementsAppendOnlyLog
<1>. DEFINE Inv == ChainInv /\ AckInv /\ FreshInv
<1>1. Init => Inv
  <2>1. Init => AckInv
    BY DEF Init, AckInv
  <2>2. Init => FreshInv
    BY BoundsAssumption DEF Init, FreshInv, Files
  <2>. QED
    BY <2>1, <2>2, ChainInit
<1>2. Inv /\ [Next]_vars => Inv'
  BY ChainNext, AckStep, FreshStep
<1>3. Init => Abstract!Init
  <2>. SUFFICES ASSUME Init
                PROVE  Abstract!Init
    OBVIOUS
  <2>1. \A v \in Volumes : Volume(v) = <<>>
    BY DEF Init, Volume
  <2>2. Places = {}
    BY <2>1 DEF Places, Lines
  <2>. QED
    BY <2>2 DEF Init, Abstract!Init, Recorded, Before
<1>4. Inv /\ Inv' /\ [Next]_vars =>
        [Abstract!Next]_<<Recorded, Before, acked>>
  <2>. SUFFICES ASSUME Inv, Inv', [Next]_vars
                PROVE  [Abstract!Next]_<<Recorded, Before, acked>>
    OBVIOUS
  <2>1. ASSUME UNCHANGED <<live, archives, acked>>
        PROVE  UNCHANGED <<Recorded, Before, acked>>
    BY <2>1, SameRecord
  <2>2. ASSUME NEW l \in Loggers, BootStep(l) \/ Crash(l)
        PROVE  UNCHANGED <<live, archives, acked>>
    BY <2>2 DEF BootStep, ReadKey, DrawKey, OpenKeyFile, StoreKey, LoadTail, Crash,
                Die, fileVars
  <2>3. ASSUME NEW t \in Threads, Acquire(t) \/ BuildEntry(t) \/ BuildRaises(t)
        PROVE  UNCHANGED <<live, archives, acked>>
    BY <2>3 DEF Acquire, BuildEntry, BuildRaises, fileVars
  <2>4. ASSUME NEW t \in Threads, NEW outcome \in ErrorOutcomes, AppendRaises(t, outcome)
        PROVE  UNCHANGED <<live, archives, acked>>
    BY <2>4 DEF AppendRaises, AppendTo, AfterAppend, WholeLines
  <2>5. ASSUME NEW t \in Threads, AppendLine(t)
        PROVE  Abstract!Next
    BY <2>5, AppendRecords DEF Abstract!Next
  <2>6. ASSUME NEW t \in Threads, Commit(t)
        PROVE  Abstract!Next
    BY <2>6, CommitConfirms DEF Abstract!Next
  <2>7. ASSUME NEW t \in Threads, RotateLog(t)
        PROVE  UNCHANGED <<Recorded, Before, acked>>
    BY <2>7, RotateStutters
  <2>8. CASE UNCHANGED vars
    BY <2>1, <2>8 DEF vars, fileVars
  <2>. QED
    BY <2>1, <2>2, <2>3, <2>4, <2>5, <2>6, <2>7, <2>8 DEF Next, CallStep, WholeLines
<1>. QED
  BY <1>1, <1>2, <1>3, <1>4, PTL DEF Spec, ImplementsAppendOnlyLog, Abstract!Spec
-----------------------------------------------------------------------------
(***************************************************************************)
(* Damaged lines and lost events, with torn lines and any number of         *)
(* AuditLogger objects.  An event is claimed from the moment its append      *)
(* ended without an error.  A torn end of the log is a damaged line that has *)
(* cost no event yet: the next append is written behind it and lost.         *)
(***************************************************************************)
HoldsAt(h, v, i) ==
  /\ v \in Volumes /\ i \in 1..Len(Volume(v))
  /\ Volume(v)[i] # Junk /\ Volume(v)[i].hash = h
DamagedAt(v, i) == v \in Volumes /\ i \in 1..Len(Volume(v)) /\ Volume(v)[i] = Junk

Claimed == acked \cup {pending[t].hash : t \in {u \in Threads : pc[u] = "commit"}}
TornEnd == cut /\ live[Len(live)] = Junk

\* A hash is claimed once, and never while its line has no end.
ClaimInv ==
  /\ \A h \in Claimed : h \in Nat /\ h < freshHash
  /\ \A t \in Threads : pc[t] = "write" =>
       /\ pending[t].hash < freshHash
       /\ pending[t].hash \notin Claimed
       /\ \A u \in Threads : u # t /\ pc[u] = "write" => pending[u].hash # pending[t].hash
  /\ cut /\ live[Len(live)] # Junk => live[Len(live)].hash \notin Claimed
  /\ \A s \in Stamps : s >= clock => archives[s] = <<>>
DamageInv ==
  /\ IsFiniteSet(Damaged)
  /\ Cardinality(Claimed \ Recorded) + (IF TornEnd THEN 1 ELSE 0) <= Cardinality(Damaged)

\* The record and the damage in terms of volumes and line numbers.
RecordMeans ==
  /\ \A h : h \in Recorded <=> \E v, i : HoldsAt(h, v, i)
  /\ \A v, i : <<v, i>> \in Damaged <=> DamagedAt(v, i)
  /\ \A p \in Damaged : \E v, i : p = <<v, i>> /\ DamagedAt(v, i)

\* The record and the damage are made of those places.
LEMMA RecordMeaning == RecordMeans
<1>1. \A p : p \in Lines <=> \E v \in Volumes : \E i \in 1..Len(Volume(v)) : p = <<v, i>>
  BY DEF Lines
<1>2. \A v, i : <<v, i>> \in Lines <=> v \in Volumes /\ i \in 1..Len(Volume(v))
  BY <1>1
<1>3. \A v, i : LineAt(<<v, i>>) = Volume(v)[i]
  BY DEF LineAt
<1>4. \A h : h \in Recorded => \E v, i : HoldsAt(h, v, i)
  <2>1. ASSUME NEW h \in Recorded
        PROVE  \E v, i : HoldsAt(h, v, i)
    <3>1. PICK p \in Places : h = LineAt(p).hash
      BY DEF Recorded
    <3>2. PICK v \in Volumes : \E i \in 1..Len(Volume(v)) : p = <<v, i>>
      BY <1>1 DEF Places
    <3>3. PICK i \in 1..Len(Volume(v)) : p = <<v, i>>
      BY <3>2
    <3>4. HoldsAt(h, v, i)
      BY <1>3, <3>1, <3>3 DEF Places, HoldsAt
    <3>. QED
      BY <3>4
  <2>. QED
    BY <2>1
<1>5. \A h, v, i : HoldsAt(h, v, i) => h \in Recorded
  <2>1. ASSUME NEW h, NEW v, NEW i, HoldsAt(h, v, i)
        PROVE  h \in Recorded
    <3>1. <<v, i>> \in Places /\ LineAt(<<v, i>>).hash = h
      BY <1>2, <1>3, <2>1 DEF HoldsAt, Places
    <3>. QED
      BY <3>1 DEF Recorded
  <2>. QED
    BY <2>1
<1>6. ASSUME NEW v, NEW i
      PROVE  <<v, i>> \in Damaged <=> DamagedAt(v, i)
  <2>1. <<v, i>> \in Damaged <=> <<v, i>> \in Lines /\ LineAt(<<v, i>>) = Junk
    BY DEF Damaged, Places
  <2>. QED
    BY <1>2, <1>3, <2>1 DEF DamagedAt
<1>7. \A p \in Damaged : \E v, i : p = <<v, i>>
  BY <1>1 DEF Damaged
<1>. QED
  BY <1>4, <1>5, <1>6, <1>7 DEF RecordMeans

\* The same of the next state.
LEMMA RecordMeaningNext ==
  /\ \A h : h \in Recorded' <=> \E v, i : HoldsAt(h, v, i)'
  /\ \A v, i : <<v, i>> \in Damaged' <=> DamagedAt(v, i)'
  /\ \A p \in Damaged' : \E v, i : p = <<v, i>> /\ DamagedAt(v, i)'
<1>1. RecordMeans'
  BY RecordMeaning, PTL
<1>. QED
  BY <1>1 DEF RecordMeans

\* What an append does to the damage and to the record.
LEMMA AppendDamage ==
  ASSUME TypeInv, NEW t \in Threads, NEW outcome \in Outcomes, outcome # "none",
         AppendTo(LineOf(t), outcome), UNCHANGED archives,
         NEW n, n = IF cut THEN Len(live) ELSE Len(live) + 1
  PROVE  /\ Damaged' = IF cut \/ outcome = "part" THEN Damaged \cup {<<Latest, n>>} ELSE Damaged
         /\ <<Latest, n>> \in Damaged <=> TornEnd
         /\ \A h \in Recorded :
              \/ h \in Recorded'
              \/ cut /\ live[Len(live)] # Junk /\ h = live[Len(live)].hash
         /\ outcome # "part" /\ ~cut => pending[t].hash \in Recorded'
         /\ TornEnd' <=> outcome # "full" /\ (cut \/ outcome = "part")
         /\ cut' /\ live'[Len(live')] # Junk => ~cut /\ live'[Len(live')].hash = pending[t].hash
<1>1. PICK e : e = LineOf(t)
  OBVIOUS
<1>2. PICK f, g : f = live /\ g = live'
  OBVIOUS
<1>3. PICK c : c = cut
  OBVIOUS
<1>4. f \in Seq(Line) /\ e \in Entry /\ c \in BOOLEAN /\ (c => f # <<>>) /\ Len(f) \in Nat
  BY <1>1, <1>2, <1>3, EntryType, LenProperties DEF TypeInv, TypeOK
<1>5. g = AfterAppend(f, c, e, outcome) /\ cut' = (outcome # "full")
  BY <1>1, <1>2, <1>3 DEF AppendTo
<1>6. /\ Len(g) = n /\ n \in Nat \ {0}
      /\ \A i \in 1..n : i # n => g[i] = f[i]
      /\ g[n] = IF c \/ outcome = "part" THEN Junk ELSE e
  BY <1>2, <1>3, <1>4, <1>5, AppendEffect
<1>. PICK k : k = pending[t].hash
  OBVIOUS
<1>7. e # Junk /\ e.hash = k
  BY <1>1 DEF LineOf, Junk
<1>8. \A i : i \in 1..n /\ i # n <=> i \in 1..Len(f) /\ i # n
  BY <1>2, <1>3, <1>4, <1>6
<1>9. c => n = Len(f) /\ n \in 1..Len(f)
  BY <1>2, <1>3, <1>4, <1>6
<1>10. ~c => n \notin 1..Len(f)
  BY <1>2, <1>3, <1>4, <1>6
<1>11. \A v, i : v # Latest =>
         /\ DamagedAt(v, i)' <=> DamagedAt(v, i)
         /\ \A h : HoldsAt(h, v, i)' <=> HoldsAt(h, v, i)
  <2>1. \A v \in Volumes : v # Latest => Volume(v)' = Volume(v)
    BY VolumeFacts, VolumeFactsNext
  <2>. QED
    BY <2>1 DEF DamagedAt, HoldsAt
<1>12. \A i : /\ DamagedAt(Latest, i) <=> i \in 1..Len(f) /\ f[i] = Junk
              /\ DamagedAt(Latest, i)' <=> i \in 1..n /\ g[i] = Junk
              /\ \A h : HoldsAt(h, Latest, i) <=> i \in 1..Len(f) /\ f[i] # Junk /\ f[i].hash = h
              /\ \A h : HoldsAt(h, Latest, i)' <=> i \in 1..n /\ g[i] # Junk /\ g[i].hash = h
  BY <1>2, <1>6, VolumeFacts, VolumeFactsNext DEF DamagedAt, HoldsAt
<1>13. \A i : i # n =>
         /\ DamagedAt(Latest, i)' <=> DamagedAt(Latest, i)
         /\ \A h : HoldsAt(h, Latest, i)' <=> HoldsAt(h, Latest, i)
  BY <1>6, <1>8, <1>12
<1>14. DamagedAt(Latest, n) <=> TornEnd
  BY <1>2, <1>3, <1>9, <1>10, <1>12 DEF TornEnd
<1>15. DamagedAt(Latest, n)' <=> c \/ outcome = "part"
  BY <1>6, <1>7, <1>12
<1>16. Damaged' = IF c \/ outcome = "part" THEN Damaged \cup {<<Latest, n>>} ELSE Damaged
  <2>1. ASSUME NEW p
        PROVE  p \in Damaged' <=> \/ p \in Damaged
                                  \/ (c \/ outcome = "part") /\ p = <<Latest, n>>
    <3>1. ASSUME NEW v, NEW i
          PROVE  DamagedAt(v, i)' <=> \/ DamagedAt(v, i)
                                      \/ (c \/ outcome = "part") /\ v = Latest /\ i = n
      <4>1. CASE v # Latest
        BY <4>1, <1>11
      <4>2. CASE v = Latest /\ i # n
        BY <4>2, <1>13
      <4>3. CASE v = Latest /\ i = n
        <5>1. TornEnd => c
          BY <1>3 DEF TornEnd
        <5>. QED
          BY <4>3, <5>1, <1>14, <1>15
      <4>. QED
        BY <4>1, <4>2, <4>3
    <3>2. \A v, i : <<v, i>> = <<Latest, n>> <=> v = Latest /\ i = n
      OBVIOUS
    <3>3. CASE \E v, i : p = <<v, i>>
      <4>1. PICK v, i : p = <<v, i>>
        BY <3>3
      <4>. QED
        BY <4>1, <3>1, <3>2, RecordMeaning, RecordMeaningNext DEF RecordMeans
    <3>4. CASE ~\E v, i : p = <<v, i>>
      BY <3>4, RecordMeaning, RecordMeaningNext DEF RecordMeans
    <3>. QED
      BY <3>3, <3>4
  <2>. QED
    BY <2>1
<1>17. ASSUME NEW h \in Recorded
       PROVE  h \in Recorded' \/ (c /\ f[Len(f)] # Junk /\ h = f[Len(f)].hash)
  <2>1. PICK v, i : HoldsAt(h, v, i)
    BY <1>17, RecordMeaning DEF RecordMeans
  <2>2. CASE v # Latest \/ i # n
    BY <2>1, <2>2, <1>11, <1>13, RecordMeaningNext
  <2>3. CASE v = Latest /\ i = n
    BY <2>1, <2>3, <1>9, <1>10, <1>12
  <2>. QED
    BY <2>2, <2>3
<1>18. outcome # "part" /\ ~c => k \in Recorded'
  <2>1. outcome # "part" /\ ~c => HoldsAt(k, Latest, n)'
    BY <1>6, <1>7, <1>12
  <2>. QED
    BY <2>1, RecordMeaningNext
<1>19. <<Latest, n>> \in Damaged <=> TornEnd
  BY <1>14, RecordMeaning DEF RecordMeans
<1>20. TornEnd' <=> outcome # "full" /\ (c \/ outcome = "part")
  BY <1>2, <1>5, <1>6, <1>7 DEF TornEnd
<1>21. cut' /\ live'[Len(live')] # Junk => ~c /\ live'[Len(live')].hash = pending[t].hash
  BY <1>2, <1>6, <1>7
<1>. QED
  BY <1>2, <1>3, <1>16, <1>17, <1>18, <1>19, <1>20, <1>21

\* A rotation moves the log's lines, whole and damaged, to a volume that had none.
LEMMA RotateDamage ==
  ASSUME TypeInv, NEW s \in Stamps, archives[s] = <<>>,
         archives' = [archives EXCEPT ![s] = live], live' = <<>>, IsFiniteSet(Damaged)
  PROVE  /\ Recorded \subseteq Recorded'
         /\ IsFiniteSet(Damaged')
         /\ Cardinality(Damaged') = Cardinality(Damaged)
<1>1. /\ s \in Volumes /\ s # Latest /\ Latest \in Volumes
      /\ Volume(s) = <<>> /\ Volume(s)' = live /\ Volume(Latest) = live
      /\ Volume(Latest)' = <<>>
      /\ \A v \in Volumes : v # s /\ v # Latest => Volume(v)' = Volume(v)
  BY VolumeFacts, VolumeFactsNext DEF TypeInv, TypeOK
<1>2. \A j : j \notin 1..Len(<<>>)
  OBVIOUS
<1>. DEFINE to(v) == IF v = Latest THEN s ELSE v
            from(v) == IF v = s THEN Latest ELSE v
<1>3. \A h, v, i : HoldsAt(h, v, i) => HoldsAt(h, to(v), i)'
  BY <1>1, <1>2 DEF HoldsAt
<1>4. \A v, i : DamagedAt(v, i) => v # s /\ DamagedAt(to(v), i)'
  BY <1>1, <1>2 DEF DamagedAt
<1>5. \A v, i : DamagedAt(v, i)' => v # Latest /\ DamagedAt(from(v), i)
  BY <1>1, <1>2 DEF DamagedAt
<1>6. \A v : (v # s => from(to(v)) = v) /\ (v # Latest => to(from(v)) = v)
  BY <1>1
<1>. HIDE DEF to, from
<1>7. Recorded \subseteq Recorded'
  BY <1>3, RecordMeaning, RecordMeaningNext DEF RecordMeans
<1>8. PICK D, E : D = Damaged /\ E = Damaged'
  OBVIOUS
<1>. DEFINE f == [p \in D |-> <<to(p[1]), p[2]>>]
<1>9. \A p \in D : \E v, i : p = <<v, i>> /\ DamagedAt(v, i)
  BY <1>8, RecordMeaning DEF RecordMeans
<1>10. \A q \in E : \E v, i : q = <<v, i>> /\ DamagedAt(v, i)'
  BY <1>8, RecordMeaningNext DEF RecordMeans
<1>11. ASSUME NEW p \in D
       PROVE  f[p] \in E
  <2>1. PICK v, i : p = <<v, i>> /\ DamagedAt(v, i)
    BY <1>9
  <2>2. f[p] = <<to(v), i>> /\ DamagedAt(to(v), i)'
    BY <1>4, <2>1
  <2>. QED
    BY <1>8, <2>2, RecordMeaningNext DEF RecordMeans
<1>12. ASSUME NEW p \in D, NEW q \in D, f[p] = f[q]
       PROVE  p = q
  <2>1. PICK v, i : p = <<v, i>> /\ DamagedAt(v, i)
    BY <1>9
  <2>2. PICK w, j : q = <<w, j>> /\ DamagedAt(w, j)
    BY <1>9
  <2>3. <<to(v), i>> = <<to(w), j>> /\ v # s /\ w # s
    BY <1>4, <1>12, <2>1, <2>2
  <2>4. to(v) = to(w) /\ i = j
    BY <2>3
  <2>. QED
    BY <1>6, <2>1, <2>2, <2>3, <2>4
<1>13. ASSUME NEW q \in E
       PROVE  \E p \in D : f[p] = q
  <2>1. PICK v, i : q = <<v, i>> /\ DamagedAt(v, i)'
    BY <1>10
  <2>2. <<from(v), i>> \in D /\ v # Latest
    BY <1>5, <1>8, <2>1, RecordMeaning DEF RecordMeans
  <2>3. f[<<from(v), i>>] = <<to(from(v)), i>>
    BY <2>2
  <2>. QED
    BY <1>6, <2>1, <2>2, <2>3
<1>14. f \in Bijection(D, E)
  <2>1. f \in [D -> E]
    BY <1>11
  <2>. HIDE DEF f
  <2>. QED
    BY <1>12, <1>13, <2>1 DEF Bijection, Injection, Surjection, IsInjective
<1>15. ExistsBijection(D, E)
  BY <1>14 DEF ExistsBijection
<1>16. IsFiniteSet(E) /\ Cardinality(E) = Cardinality(D)
  BY <1>8, <1>15, FS_Bijection
<1>. QED
  BY <1>7, <1>8, <1>16

\* The claimed hashes, step by step.
LEMMA ClaimStep ==
  ASSUME ~SameSecond, TypeInv, ClaimInv, [Next]_vars
  PROVE  ClaimInv'
<1>1. \A h : h \in Claimed <=> \/ h \in acked
                               \/ \E t \in Threads : pc[t] = "commit" /\ h = pending[t].hash
  BY DEF Claimed
<1>2. \A h : h \in Claimed' <=> \/ h \in acked'
                                \/ \E t \in Threads : pc'[t] = "commit" /\ h = pending'[t].hash
  BY DEF Claimed
<1>14. ASSUME acked' = acked,
              \A t \in Threads : pc'[t] = "commit" => pc[t] = "commit" /\ pending'[t] = pending[t]
       PROVE  Claimed' \subseteq Claimed
  BY <1>1, <1>2, <1>14
<1>. USE DEF TypeInv, TypeOK, Draft
<1>3. ASSUME UNCHANGED <<live, cut, archives, clock, pending, acked>>,
             freshHash' \in {freshHash, freshHash + 1},
             \A t \in Threads : pc'[t] \in {"write", "commit"} => pc'[t] = pc[t]
      PROVE  ClaimInv'
  <2>1. Claimed' \subseteq Claimed
    <3>1. \A t \in Threads : pc'[t] = "commit" => pc[t] = "commit"
      BY <1>3
    <3>. QED
      BY <3>1, <1>3, <1>14
  <2>2. \A n \in Nat : n < freshHash => n < freshHash'
    BY <1>3
  <2>. QED
    BY <1>3, <2>1, <2>2 DEF ClaimInv
<1>4. ASSUME NEW l \in Loggers, BootStep(l) \/ Crash(l)
      PROVE  ClaimInv'
  BY <1>4, <1>3 DEF BootStep, ReadKey, DrawKey, OpenKeyFile, StoreKey, LoadTail, Crash, Die,
                    fileVars, callVars
<1>5. ASSUME NEW t \in Threads, Acquire(t) \/ BuildRaises(t)
      PROVE  ClaimInv'
  <2>1. /\ UNCHANGED <<live, cut, archives, clock, pending, acked>>
        /\ freshHash' \in {freshHash, freshHash + 1}
        /\ pc' = [pc EXCEPT ![t] = "check"] \/ pc' = [pc EXCEPT ![t] = "idle"]
    BY <1>5 DEF Acquire, BuildRaises, Release, Goto, fileVars
  <2>2. \A u \in Threads : pc'[u] \in {"write", "commit"} => pc'[u] = pc[u]
    BY <2>1
  <2>. QED
    BY <2>1, <2>2, <1>3
<1>6. ASSUME NEW t \in Threads, BuildEntry(t)
      PROVE  ClaimInv'
  <2>1. /\ UNCHANGED <<live, cut, archives, clock, acked>>
        /\ freshHash' = freshHash + 1
        /\ pc' = [pc EXCEPT ![t] = "write"] /\ pc[t] # "commit"
        /\ \A u \in Threads : u # t => pending'[u] = pending[u]
        /\ pending'[t].hash = freshHash
    BY <1>6 DEF BuildEntry, Goto, fileVars
  <2>2. Claimed' \subseteq Claimed
    <3>1. \A u \in Threads : pc'[u] = "commit" => u # t /\ pc[u] = "commit"
      BY <2>1
    <3>. QED
      BY <3>1, <2>1, <1>14
  <2>3. \A h \in Claimed : h \in Nat /\ h < freshHash
    BY DEF ClaimInv
  <2>4. freshHash \in Nat /\ freshHash \notin Claimed
    BY <2>3
  <2>5. \A u \in Threads : pc'[u] = "write" => u = t \/ pc[u] = "write"
    BY <2>1
  <2>6. ASSUME NEW u \in Threads, u # t, pc[u] = "write"
        PROVE  /\ pending'[u].hash \in Nat /\ pending'[u].hash < freshHash
               /\ pending'[u].hash \notin Claimed
    BY <2>1, <2>6 DEF ClaimInv
  <2>7. ASSUME NEW u \in Threads, pc'[u] = "write"
        PROVE  /\ pending'[u].hash < freshHash'
               /\ pending'[u].hash \notin Claimed'
               /\ \A w \in Threads : w # u /\ pc'[w] = "write" => pending'[w].hash # pending'[u].hash
    <3>1. CASE u = t
      BY <3>1, <2>1, <2>2, <2>4, <2>5, <2>6
    <3>2. CASE u # t
      <4>1. pc[u] = "write"
        BY <3>2, <2>5, <2>7
      <4>2. \A w \in Threads : w # u /\ w # t /\ pc[w] = "write" => pending[w].hash # pending[u].hash
        BY <4>1 DEF ClaimInv
      <4>. QED
        BY <3>2, <4>1, <4>2, <2>1, <2>2, <2>4, <2>5, <2>6
    <3>. QED
      BY <3>1, <3>2
  <2>8. \A h \in Claimed' : h \in Nat /\ h < freshHash'
    BY <2>1, <2>2, <2>3
  <2>. QED
    BY <2>1, <2>2, <2>7, <2>8 DEF ClaimInv
<1>7. ASSUME NEW t \in Threads, AppendLine(t)
      PROVE  ClaimInv'
  <2>1. /\ UNCHANGED <<archives, clock, pending, acked, freshHash>>
        /\ pc' = [pc EXCEPT ![t] = "commit"] /\ pc[t] = "write" /\ cut' = FALSE
    BY <1>7 DEF AppendLine, AppendTo, Goto
  <2>2. \A h \in Claimed' : h \in Claimed \/ h = pending[t].hash
    BY <1>1, <1>2, <2>1
  <2>3. \A u \in Threads : pc'[u] = "write" => u # t /\ pc[u] = "write"
    BY <2>1
  <2>4. pending[t].hash \in Nat /\ pending[t].hash < freshHash
    BY <2>1 DEF ClaimInv
  <2>. QED
    BY <2>1, <2>2, <2>3, <2>4 DEF ClaimInv
<1>8. ASSUME NEW t \in Threads, pc[t] = "write", NEW outcome \in Outcomes,
             AppendTo(LineOf(t), outcome),
             UNCHANGED <<archives, clock, pending, acked, freshHash>>,
             \A u \in Threads : pc'[u] \in {pc[u], "idle"}
      PROVE  ClaimInv'
  <2>1. Claimed' \subseteq Claimed
    <3>1. \A u \in Threads : pc'[u] = "commit" => pc[u] = "commit"
      BY <1>8
    <3>. QED
      BY <3>1, <1>8, <1>14
  <2>2. cut' /\ live'[Len(live')] # Junk => live'[Len(live')].hash \notin Claimed
    <3>1. CASE outcome = "none"
      <4>1. live' = live /\ cut' = cut
        BY <1>8, <3>1 DEF AppendTo, AfterAppend
      <4>. QED
        BY <4>1 DEF ClaimInv
    <3>2. CASE outcome # "none"
      <4>1. cut' /\ live'[Len(live')] # Junk => live'[Len(live')].hash = pending[t].hash
        BY <1>8, <3>2, AppendDamage
      <4>. QED
        BY <1>8, <4>1 DEF ClaimInv
    <3>. QED
      BY <3>1, <3>2
  <2>3. \A u \in Threads : pc'[u] = "write" => pc[u] = "write"
    BY <1>8
  <2>. QED
    BY <1>8, <2>1, <2>2, <2>3 DEF ClaimInv
<1>9. ASSUME NEW t \in Threads, NEW outcome \in ErrorOutcomes, AppendRaises(t, outcome)
      PROVE  ClaimInv'
  BY <1>9, <1>8, FaultAssumption DEF AppendRaises, Release, Goto
<1>10. ASSUME NEW t \in Threads, NEW outcome \in CrashOutcomes, CrashInAppend(t, outcome)
       PROVE  ClaimInv'
  <2>1. outcome \in Outcomes
    BY FaultAssumption DEF Outcomes
  <2>. QED
    BY <1>10, <1>8, <2>1 DEF CrashInAppend, Die
<1>11. ASSUME NEW t \in Threads, Commit(t)
       PROVE  ClaimInv'
  <2>1. /\ UNCHANGED <<live, cut, archives, clock, pending, freshHash>>
        /\ pc' = [pc EXCEPT ![t] = "idle"] /\ pc[t] = "commit"
        /\ acked' = acked \cup {pending[t].hash}
    BY <1>11 DEF Commit, Release, Goto, fileVars
  <2>2. Claimed' \subseteq Claimed
    BY <1>1, <1>2, <2>1
  <2>3. \A u \in Threads : pc'[u] = "write" => pc[u] = "write"
    BY <2>1
  <2>. QED
    BY <2>1, <2>2, <2>3 DEF ClaimInv
<1>12. ASSUME NEW t \in Threads, RotateLog(t)
       PROVE  ClaimInv'
  <2>1. PICK s \in Stamps :
          /\ s >= clock /\ archives' = [archives EXCEPT ![s] = live]
          /\ clock' = s + 1
    BY <1>12 DEF RotateLog
  <2>2. \A r \in Stamps : r >= clock' => archives'[r] = <<>>
    BY <2>1 DEF ClaimInv, Stamps
  <2>3. /\ UNCHANGED <<acked, pending, freshHash>> /\ pc' = [pc EXCEPT ![t] = "build"]
        /\ cut' = FALSE /\ pc[t] = "check"
    BY <1>12 DEF RotateLog, Goto
  <2>4. Claimed' \subseteq Claimed
    BY <1>1, <1>2, <2>3
  <2>5. \A u \in Threads : pc'[u] = "write" => pc[u] = "write"
    BY <2>3
  <2>. QED
    BY <2>2, <2>3, <2>4, <2>5 DEF ClaimInv
<1>13. CASE UNCHANGED vars
  BY <1>13, <1>3 DEF vars, fileVars, callVars
<1>. QED
  BY <1>4, <1>5, <1>6, <1>7, <1>9, <1>10, <1>11, <1>12, <1>13 DEF Next, CallStep

\* Damage keeps pace with loss over an append: A are the hashes claimed but not
\* recorded, D the damaged lines.
LEMMA AppendAccount ==
  ASSUME NEW A, IsFiniteSet(A), NEW D, IsFiniteSet(D), NEW B, NEW k, NEW p,
         NEW open \in BOOLEAN, NEW opens \in BOOLEAN, NEW breaks \in BOOLEAN,
         Cardinality(A) + (IF open THEN 1 ELSE 0) <= Cardinality(D),
         open <=> p \in D,
         B \subseteq A \/ (B \subseteq A \cup {k} /\ breaks /\ ~opens),
         open \/ opens => breaks
  PROVE  LET E == IF breaks THEN D \cup {p} ELSE D
         IN  IsFiniteSet(E) /\ Cardinality(B) + (IF opens THEN 1 ELSE 0) <= Cardinality(E)
<1>1. /\ Cardinality(A) \in Nat /\ Cardinality(D) \in Nat
      /\ IsFiniteSet(A \cup {k}) /\ Cardinality(A \cup {k}) <= Cardinality(A) + 1
      /\ Cardinality(A \cup {k}) \in Nat
  <2>1. Cardinality(A) \in Nat /\ Cardinality(D) \in Nat
    BY FS_CardinalityType
  <2>2. /\ IsFiniteSet(A \cup {k})
        /\ Cardinality(A \cup {k}) = IF k \in A THEN Cardinality(A) ELSE Cardinality(A) + 1
    BY FS_AddElement
  <2>. QED
    BY <2>1, <2>2
<1>2. /\ IsFiniteSet(D \cup {p})
      /\ Cardinality(D \cup {p}) = IF open THEN Cardinality(D) ELSE Cardinality(D) + 1
  BY FS_AddElement
<1>3. CASE B \subseteq A
  <2>1. Cardinality(B) <= Cardinality(A) /\ Cardinality(B) \in Nat
    BY <1>3, FS_Subset, FS_CardinalityType
  <2>. QED
    BY <1>1, <1>2, <2>1
<1>4. CASE B \subseteq A \cup {k} /\ breaks /\ ~opens
  <2>1. Cardinality(B) <= Cardinality(A \cup {k}) /\ Cardinality(B) \in Nat
    BY <1>1, <1>4, FS_Subset, FS_CardinalityType
  <2>. QED
    BY <1>1, <1>2, <1>4, <2>1
<1>. QED
  BY <1>3, <1>4

\* The number of damaged lines bounds the loss, step by step.
LEMMA DamageStep ==
  ASSUME TypeInv, ClaimInv, DamageInv, [Next]_vars
  PROVE  DamageInv'
<1>1. \A h : h \in Claimed <=> \/ h \in acked
                               \/ \E t \in Threads : pc[t] = "commit" /\ h = pending[t].hash
  BY DEF Claimed
<1>2. \A h : h \in Claimed' <=> \/ h \in acked'
                                \/ \E t \in Threads : pc'[t] = "commit" /\ h = pending'[t].hash
  BY DEF Claimed
<1>3. ASSUME acked' = acked,
             \A t \in Threads : pc'[t] = "commit" => pc[t] = "commit" /\ pending'[t] = pending[t]
      PROVE  Claimed' \subseteq Claimed
  BY <1>1, <1>2, <1>3
<1>4. IsFiniteSet(Claimed \ Recorded)
  <2>1. freshHash \in Nat /\ Claimed \subseteq 0..freshHash
    BY DEF ClaimInv, TypeInv, TypeOK
  <2>2. IsFiniteSet(0..freshHash)
    BY <2>1, FS_Interval
  <2>. QED
    BY <2>1, <2>2, FS_Subset
<1>5. TornEnd \in BOOLEAN /\ TornEnd' \in BOOLEAN
  BY TypeStep DEF TornEnd, TypeInv, TypeOK
<1>. USE DEF TypeInv, TypeOK
<1>6. ASSUME UNCHANGED <<live, cut, archives>>, Claimed' \subseteq Claimed
      PROVE  DamageInv'
  <2>1. \A v : Volume(v)' = Volume(v)
    BY <1>6 DEF Volume
  <2>2. Recorded' = Recorded /\ Damaged' = Damaged /\ TornEnd' = TornEnd
    BY <2>1, <1>6 DEF Recorded, Damaged, Places, Lines, LineAt, TornEnd
  <2>3. PICK A, B, n : A = Claimed \ Recorded /\ B = Claimed' \ Recorded' /\ n = Cardinality(Damaged)
    OBVIOUS
  <2>4. B \subseteq A /\ IsFiniteSet(A)
    BY <2>2, <2>3, <1>4, <1>6
  <2>5. Cardinality(B) <= Cardinality(A) /\ Cardinality(A) \in Nat /\ Cardinality(B) \in Nat
    BY <2>4, FS_Subset, FS_CardinalityType
  <2>6. n \in Nat
    BY <2>3, FS_CardinalityType DEF DamageInv
  <2>7. Cardinality(A) + (IF TornEnd THEN 1 ELSE 0) <= n
    BY <2>3 DEF DamageInv
  <2>8. Cardinality(B) + (IF TornEnd THEN 1 ELSE 0) <= n
    BY <1>5, <2>5, <2>6, <2>7
  <2>. QED
    BY <2>2, <2>3, <2>8 DEF DamageInv
<1>7. ASSUME NEW t \in Threads, NEW outcome \in Outcomes, pc[t] = "write",
             AppendTo(LineOf(t), outcome), UNCHANGED archives,
             IF outcome = "full" THEN Claimed' \subseteq Claimed \cup {pending[t].hash}
                                 ELSE Claimed' \subseteq Claimed
      PROVE  DamageInv'
  <2>1. CASE outcome = "none"
    <3>1. UNCHANGED <<live, cut, archives>> /\ Claimed' \subseteq Claimed
      BY <1>7, <2>1 DEF AppendTo, AfterAppend
    <3>. QED
      BY <3>1, <1>6
  <2>2. CASE outcome # "none"
    <3>1. PICK n : n = IF cut THEN Len(live) ELSE Len(live) + 1
      OBVIOUS
    <3>2. /\ Damaged' = IF cut \/ outcome = "part" THEN Damaged \cup {<<Latest, n>>} ELSE Damaged
          /\ <<Latest, n>> \in Damaged <=> TornEnd
          /\ \A h \in Recorded :
               \/ h \in Recorded'
               \/ cut /\ live[Len(live)] # Junk /\ h = live[Len(live)].hash
          /\ outcome # "part" /\ ~cut => pending[t].hash \in Recorded'
          /\ TornEnd' <=> outcome # "full" /\ (cut \/ outcome = "part")
      BY <1>7, <2>2, <3>1, AppendDamage
    <3>3. PICK k, p : k = pending[t].hash /\ p = <<Latest, n>>
      OBVIOUS
    <3>4. PICK A, B, D, E :
            /\ A = Claimed \ Recorded /\ B = Claimed' \ Recorded'
            /\ D = Damaged /\ E = Damaged'
      OBVIOUS
    <3>5. PICK open, opens, breaks :
            open = TornEnd /\ opens = TornEnd' /\ breaks = (cut \/ outcome = "part")
      OBVIOUS
    <3>6. open \in BOOLEAN /\ opens \in BOOLEAN /\ breaks \in BOOLEAN
      BY <1>5, <3>5
    <3>7. \A h \in Claimed : h \in Recorded => h \in Recorded'
      BY <3>2 DEF ClaimInv
    <3>8. outcome # "full" => B \subseteq A
      BY <1>7, <3>4, <3>7
    <3>9. outcome = "full" => B \subseteq A \cup {k} /\ ~opens
      BY <1>7, <3>2, <3>3, <3>4, <3>5, <3>7
    <3>10. outcome = "full" /\ ~breaks => k \notin B
      BY <3>2, <3>3, <3>4, <3>5
    <3>11. B \subseteq A \/ (B \subseteq A \cup {k} /\ breaks /\ ~opens)
      BY <3>6, <3>8, <3>9, <3>10
    <3>12. open \/ opens => breaks
      BY <3>2, <3>5 DEF TornEnd
    <3>13. open <=> p \in D
      BY <3>2, <3>3, <3>4, <3>5
    <3>14. IsFiniteSet(A) /\ IsFiniteSet(D)
           /\ Cardinality(A) + (IF open THEN 1 ELSE 0) <= Cardinality(D)
      BY <1>4, <3>4, <3>5 DEF DamageInv
    <3>15. E = IF breaks THEN D \cup {p} ELSE D
      BY <3>2, <3>3, <3>4, <3>5
    <3>16. IsFiniteSet(E) /\ Cardinality(B) + (IF opens THEN 1 ELSE 0) <= Cardinality(E)
      BY <3>6, <3>11, <3>12, <3>13, <3>14, <3>15, AppendAccount
    <3>. QED
      BY <3>4, <3>5, <3>16 DEF DamageInv
  <2>. QED
    BY <2>1, <2>2
<1>8. ASSUME NEW l \in Loggers, BootStep(l) \/ Crash(l)
      PROVE  DamageInv'
  <2>1. UNCHANGED <<live, cut, archives, pending, acked>>
    BY <1>8 DEF BootStep, ReadKey, DrawKey, OpenKeyFile, StoreKey, LoadTail, Crash, Die,
                fileVars, callVars
  <2>2. \A t \in Threads : pc'[t] = "commit" => pc[t] = "commit"
    BY <1>8 DEF BootStep, ReadKey, DrawKey, OpenKeyFile, StoreKey, LoadTail, Crash, Die, callVars
  <2>. QED
    BY <2>1, <2>2, <1>3, <1>6
<1>9. ASSUME NEW t \in Threads, Acquire(t) \/ BuildEntry(t) \/ BuildRaises(t)
      PROVE  DamageInv'
  <2>1. /\ UNCHANGED <<live, cut, archives, acked>>
        /\ \A u \in Threads : u # t => pc'[u] = pc[u] /\ pending'[u] = pending[u]
        /\ pc'[t] # "commit"
    BY <1>9 DEF Acquire, BuildEntry, BuildRaises, Release, Goto, fileVars
  <2>. QED
    BY <2>1, <1>3, <1>6
<1>10. ASSUME NEW t \in Threads, AppendLine(t)
       PROVE  DamageInv'
  <2>1. /\ pc[t] = "write" /\ AppendTo(LineOf(t), "full")
        /\ UNCHANGED <<archives, pending, acked>> /\ pc' = [pc EXCEPT ![t] = "commit"]
    BY <1>10 DEF AppendLine, Goto
  <2>2. Claimed' \subseteq Claimed \cup {pending[t].hash}
    BY <1>1, <1>2, <2>1
  <2>. QED
    BY <2>1, <2>2, <1>7 DEF Outcomes
<1>11. ASSUME NEW t \in Threads, NEW outcome \in ErrorOutcomes, AppendRaises(t, outcome)
       PROVE  DamageInv'
  <2>1. /\ pc[t] = "write" /\ AppendTo(LineOf(t), outcome) /\ outcome \in Outcomes
        /\ UNCHANGED <<archives, pending, acked>> /\ pc' = [pc EXCEPT ![t] = "idle"]
    BY <1>11, FaultAssumption DEF AppendRaises, Release, Goto
  <2>2. Claimed' \subseteq Claimed
    BY <2>1, <1>3
  <2>. QED
    BY <2>1, <2>2, <1>7
<1>12. ASSUME NEW t \in Threads, NEW outcome \in CrashOutcomes, CrashInAppend(t, outcome)
       PROVE  DamageInv'
  <2>1. /\ pc[t] = "write" /\ AppendTo(LineOf(t), outcome) /\ outcome \in Outcomes
        /\ UNCHANGED <<archives, pending, acked>>
    BY <1>12, FaultAssumption DEF CrashInAppend, Die, Outcomes
  <2>2. \A u \in Threads : pc'[u] = "commit" => pc[u] = "commit"
    BY <1>12 DEF CrashInAppend, Die
  <2>3. Claimed' \subseteq Claimed
    BY <2>1, <2>2, <1>3
  <2>. QED
    BY <2>1, <2>3, <1>7
<1>13. ASSUME NEW t \in Threads, Commit(t)
       PROVE  DamageInv'
  <2>1. /\ UNCHANGED <<live, cut, archives, pending>>
        /\ pc' = [pc EXCEPT ![t] = "idle"] /\ pc[t] = "commit"
        /\ acked' = acked \cup {pending[t].hash}
    BY <1>13 DEF Commit, Release, Goto, fileVars
  <2>2. Claimed' \subseteq Claimed
    BY <1>1, <1>2, <2>1
  <2>. QED
    BY <2>1, <2>2, <1>6
<1>14. ASSUME NEW t \in Threads, RotateLog(t)
       PROVE  DamageInv'
  <2>1. PICK s \in Stamps : s >= clock /\ archives' = [archives EXCEPT ![s] = live]
    BY <1>14 DEF RotateLog
  <2>2. /\ live' = <<>> /\ cut' = FALSE /\ UNCHANGED <<acked, pending>>
        /\ pc' = [pc EXCEPT ![t] = "build"]
    BY <1>14 DEF RotateLog, Goto
  <2>3. archives[s] = <<>>
    BY <2>1 DEF ClaimInv
  <2>4. /\ Recorded \subseteq Recorded' /\ IsFiniteSet(Damaged')
        /\ Cardinality(Damaged') = Cardinality(Damaged)
    BY <2>1, <2>2, <2>3, RotateDamage DEF DamageInv
  <2>5. Claimed' \subseteq Claimed /\ ~TornEnd'
    BY <2>2, <1>3 DEF TornEnd
  <2>6. PICK A, B, n : A = Claimed \ Recorded /\ B = Claimed' \ Recorded' /\ n = Cardinality(Damaged)
    OBVIOUS
  <2>7. B \subseteq A /\ IsFiniteSet(A)
    BY <2>4, <2>5, <2>6, <1>4
  <2>8. Cardinality(B) <= Cardinality(A) /\ Cardinality(A) \in Nat /\ Cardinality(B) \in Nat
    BY <2>7, FS_Subset, FS_CardinalityType
  <2>9. n \in Nat
    BY <2>6, FS_CardinalityType DEF DamageInv
  <2>10. Cardinality(A) + (IF TornEnd THEN 1 ELSE 0) <= n
    BY <2>6 DEF DamageInv
  <2>11. Cardinality(B) + 0 <= n
    BY <1>5, <2>8, <2>9, <2>10
  <2>. QED
    BY <2>4, <2>5, <2>6, <2>11 DEF DamageInv
<1>15. CASE UNCHANGED vars
  <2>1. UNCHANGED <<live, cut, archives, pending, acked, pc>>
    BY <1>15 DEF vars, fileVars, callVars
  <2>. QED
    BY <2>1, <1>3, <1>6
<1>. QED
  BY <1>8, <1>9, <1>10, <1>11, <1>12, <1>13, <1>14, <1>15 DEF Next, CallStep

\* When no two rotations fall into the same second, every event whose log_event
\* has returned can be read back, except for at most one per damaged line: an
\* append cut short by an error or a crash takes at most the next event with it,
\* however many threads, objects, restarts and rotations there are.
THEOREM AckedNeverLost ==
  ASSUME ~SameSecond
  PROVE  Spec => []AckedKept
<1>. DEFINE Inv == TypeInv /\ ClaimInv /\ DamageInv
<1>1. Init => Inv
  <2>. SUFFICES ASSUME Init
                PROVE  Inv
    OBVIOUS
  <2>1. \A v \in Volumes : Volume(v) = <<>>
    BY DEF Init, Volume
  <2>2. Damaged = {} /\ Claimed = {}
    BY <2>1 DEF Init, Damaged, Lines, Claimed
  <2>3. Claimed \ Recorded = {} /\ ~TornEnd
    BY <2>2 DEF Init, TornEnd
  <2>4. DamageInv
    BY <2>2, <2>3, FS_EmptySet DEF DamageInv
  <2>5. ClaimInv
    BY <2>2 DEF Init, ClaimInv
  <2>. QED
    BY <2>4, <2>5, TypeInit
<1>2. Inv /\ [Next]_vars => Inv'
  BY TypeStep, ClaimStep, DamageStep
<1>3. Inv => AckedKept
  <2>. SUFFICES ASSUME Inv
                PROVE  AckedKept
    OBVIOUS
  <2>1. freshHash \in Nat /\ Claimed \subseteq 0..freshHash
    BY DEF ClaimInv, TypeInv, TypeOK
  <2>2. IsFiniteSet(Claimed \ Recorded)
    <3>1. IsFiniteSet(0..freshHash)
      BY <2>1, FS_Interval
    <3>. QED
      BY <2>1, <3>1, FS_Subset
  <2>3. acked \ Recorded \subseteq Claimed \ Recorded
    BY DEF Claimed
  <2>4. /\ Cardinality(acked \ Recorded) <= Cardinality(Claimed \ Recorded)
        /\ Cardinality(acked \ Recorded) \in Nat /\ Cardinality(Claimed \ Recorded) \in Nat
    BY <2>2, <2>3, FS_Subset, FS_CardinalityType
  <2>5. Cardinality(Damaged) \in Nat
    BY FS_CardinalityType DEF DamageInv
  <2>6. Cardinality(Claimed \ Recorded) + (IF TornEnd THEN 1 ELSE 0) <= Cardinality(Damaged)
    BY DEF DamageInv
  <2>. QED
    BY <2>4, <2>5, <2>6 DEF AckedKept
<1>. QED
  BY <1>1, <1>2, <1>3, PTL DEF Spec
=============================================================================
