------------------------------ MODULE AuditLog ------------------------------
(***************************************************************************)
(* The desktop application's audit log, desktop/modules/audit_logger.py.    *)
(*                                                                         *)
(* AuditLogger objects (the constant Loggers) append entries to one JSONL   *)
(* file; threads (Threads, each using the object ObjOf[t]) call log_event.  *)
(* Every object caches the hash and the sequence number of the last entry   *)
(* and has a lock of its own, so the cache and the file can drift apart:    *)
(* by a second object on the same file, by an append that raises, by a      *)
(* crash inside an append, and by a rotation.  One step here is one access  *)
(* to the file, or the part of log_event between two such accesses.         *)
(*                                                                         *)
(* An HMAC is a function of the whole entry, timestamp included; it is      *)
(* abstracted to a number no other entry has (freshHash).                   *)
(***************************************************************************)
EXTENDS Naturals, Sequences, FiniteSets

CONSTANTS
  Threads,        \* threads that call log_event
  Loggers,        \* AuditLogger objects on the same log_path
  ObjOf,          \* the object each thread calls
  MaxLines,       \* max_size_bytes, counted in lines
  MaxEntries,     \* bound: entries ever built
  MaxStamp,       \* bound: seconds in which a rotation can fall
  MaxBoots,       \* bound: AuditLogger constructions that complete
  SameSecond,     \* may two rotations fall into the same second?
  ErrorOutcomes,  \* what an append that raises may leave in the file
  CrashOutcomes,  \* what a crash inside an append may leave in the file
  NoThread,       \* value of a free lock
  NoKey,          \* .audit_hmac_key does not exist
  EmptyKey        \* .audit_hmac_key exists and is empty

\* How much of a line reached the file: nothing, a proper prefix, all but the
\* newline, everything.
Outcomes == {"none", "part", "nonl", "full"}

ASSUME ObjOfAssumption == ObjOf \in [Threads -> Loggers]
ASSUME BoundsAssumption ==
  /\ MaxLines \in Nat
  /\ MaxEntries \in Nat
  /\ MaxStamp \in Nat
  /\ MaxBoots \in Nat
ASSUME FaultAssumption ==
  /\ SameSecond \in BOOLEAN
  /\ ErrorOutcomes \subseteq Outcomes
  /\ CrashOutcomes \subseteq {"part", "nonl"}
ASSUME MarkerAssumption ==
  /\ NoThread \notin Threads
  /\ NoKey \notin Loggers
  /\ EmptyKey \notin Loggers
  /\ NoKey # EmptyKey

VARIABLES
  live,       \* lines of log_path
  cut,        \* TRUE: the last line of log_path has no newline
  archives,   \* rotated files, by the second in their name (empty: none)
  clock,      \* first second a rotation may still fall into
  keyFile,    \* contents of .audit_hmac_key
  boot,       \* how far the constructor of an object has come
  hmacKey,    \* self.hmac_key
  lastHash,   \* self._last_hash
  sequence,   \* self._sequence
  lock,       \* owner of self._lock
  pc,         \* where a thread is inside log_event
  pending,    \* the entry_data a thread has built
  freshHash,  \* next unused HMAC
  acked,      \* hashes of the entries log_event has returned
  boots       \* constructions completed so far

fileVars == <<live, cut, archives, clock>>
bootVars == <<keyFile, boot, hmacKey, boots>>
memVars  == <<lastHash, sequence>>
callVars == <<lock, pc, pending>>
vars == <<fileVars, bootVars, memVars, callVars, freshHash, acked>>

GENESIS == 0
Stamps == 1..MaxStamp
Keys == Loggers \cup {EmptyKey}

Entry == [kind : {"entry"}, hash : Nat, prev : Nat, seq : Nat, key : Keys]
Junk == [kind |-> "junk"]         \* a line json.loads rejects
Line == Entry \cup {Junk}
NoEntry == [hash |-> GENESIS, prev |-> GENESIS, seq |-> 0]
Draft == [hash : Nat, prev : Nat, seq : Nat]

Steps == {"idle", "check", "build", "write", "commit"}
BootSteps == {"down", "generate", "store", "load", "up"}

TypeOK ==
  /\ live \in Seq(Line)
  /\ cut \in BOOLEAN
  /\ archives \in [Stamps -> Seq(Line)]
  /\ clock \in Nat
  /\ keyFile \in Keys \cup {NoKey}
  /\ boot \in [Loggers -> BootSteps]
  /\ hmacKey \in [Loggers -> Keys]
  /\ lastHash \in [Loggers -> Nat]
  /\ sequence \in [Loggers -> Nat]
  /\ lock \in [Loggers -> Threads \cup {NoThread}]
  /\ pc \in [Threads -> Steps]
  /\ pending \in [Threads -> Draft]
  /\ freshHash \in Nat
  /\ acked \subseteq Nat
  /\ boots \in Nat

Init ==
  /\ live = <<>>
  /\ cut = FALSE
  /\ archives = [s \in Stamps |-> <<>>]
  /\ clock = 1
  /\ keyFile = NoKey
  /\ boot = [l \in Loggers |-> "down"]
  /\ hmacKey = [l \in Loggers |-> EmptyKey]
  /\ lastHash = [l \in Loggers |-> GENESIS]
  /\ sequence = [l \in Loggers |-> 0]
  /\ lock = [l \in Loggers |-> NoThread]
  /\ pc = [t \in Threads |-> "idle"]
  /\ pending = [t \in Threads |-> NoEntry]
  /\ freshHash = 1
  /\ acked = {}
  /\ boots = 0

-----------------------------------------------------------------------------
(* The file.                                                               *)

\* A line is parsed back by the two loaders; what json.loads rejects, or an
\* empty file, counts as the start of a chain.
LoadLastHash(f) ==
  IF f = <<>> \/ f[Len(f)] = Junk THEN GENESIS ELSE f[Len(f)].hash
\* Mutant: the number of the last line is not read back.
MutLoadLastSequence(f) == 0

LoadLastSequence(f) ==
  IF f = <<>> \/ f[Len(f)] = Junk THEN 0 ELSE f[Len(f)].seq

\* verify_chain_detail: every line parses, links to the one before it, and
\* carries an HMAC made with the caller's key.
Linked(f, i) ==
  /\ f[i] # Junk
  /\ f[i].prev = IF i = 1 THEN GENESIS ELSE f[i - 1].hash
VerifyChain(f, key) ==
  \A i \in 1..Len(f) : Linked(f, i) /\ f[i].key = key

\* Mutant: the file is opened with "w".
MutAfterAppend(f, unterminated, e, outcome) == IF outcome = "none" THEN f ELSE <<e>>

\* An append that starts behind an unterminated line extends that line, and
\* the result no longer parses.
AfterAppend(f, unterminated, e, outcome) ==
  IF outcome = "none" THEN f
  ELSE IF unterminated THEN [f EXCEPT ![Len(f)] = Junk]
  ELSE Append(f, IF outcome = "part" THEN Junk ELSE e)
AppendTo(e, outcome) ==
  /\ live' = AfterAppend(live, cut, e, outcome)
  /\ cut' = (outcome # "full" /\ (outcome = "none" => cut))

Oversize == live # <<>> /\ Len(live) > MaxLines

-----------------------------------------------------------------------------
(* __init__ and _load_or_generate_key.                                     *)

\* Mutant: the key file is read without asking whether it exists.
MutReadKey(l) ==
  /\ boot[l] = "down"
  /\ boots < MaxBoots
  /\ hmacKey' = [hmacKey EXCEPT ![l] = keyFile]
  /\ boot' = [boot EXCEPT ![l] = "load"]
  /\ UNCHANGED <<fileVars, memVars, callVars, freshHash, acked, keyFile, boots>>

\* The key file exists: read it, whatever it holds.
ReadKey(l) ==
  /\ boot[l] = "down"
  /\ boots < MaxBoots
  /\ keyFile # NoKey
  /\ hmacKey' = [hmacKey EXCEPT ![l] = keyFile]
  /\ boot' = [boot EXCEPT ![l] = "load"]
  /\ UNCHANGED <<fileVars, memVars, callVars, freshHash, acked, keyFile, boots>>

\* No key file: draw a key of one's own.
DrawKey(l) ==
  /\ boot[l] = "down"
  /\ boots < MaxBoots
  /\ keyFile = NoKey
  /\ hmacKey' = [hmacKey EXCEPT ![l] = l]
  /\ boot' = [boot EXCEPT ![l] = "generate"]
  /\ UNCHANGED <<fileVars, memVars, callVars, freshHash, acked, keyFile, boots>>

\* open(key_path, "wb") creates or truncates the key file...
OpenKeyFile(l) ==
  /\ boot[l] = "generate"
  /\ keyFile' = EmptyKey
  /\ boot' = [boot EXCEPT ![l] = "store"]
  /\ UNCHANGED <<fileVars, memVars, callVars, freshHash, acked, hmacKey, boots>>

\* ... and the close writes the key.
StoreKey(l) ==
  /\ boot[l] = "store"
  /\ keyFile' = hmacKey[l]
  /\ boot' = [boot EXCEPT ![l] = "load"]
  /\ UNCHANGED <<fileVars, memVars, callVars, freshHash, acked, hmacKey, boots>>

\* The caches are filled from the last line of the file.
LoadTail(l) ==
  /\ boot[l] = "load"
  /\ lastHash' = [lastHash EXCEPT ![l] = LoadLastHash(live)]
  /\ sequence' = [sequence EXCEPT ![l] = LoadLastSequence(live)]
  /\ boot' = [boot EXCEPT ![l] = "up"]
  /\ boots' = boots + 1
  /\ UNCHANGED <<fileVars, callVars, freshHash, acked, keyFile, hmacKey>>

-----------------------------------------------------------------------------
(* log_event, under self._lock.                                            *)

Goto(t, step) == pc' = [pc EXCEPT ![t] = step]
Release(t) ==
  /\ lock' = [lock EXCEPT ![ObjOf[t]] = NoThread]
  /\ Goto(t, "idle")

\* Mutant: the lock is not waited for.
MutAcquire(t) ==
  /\ boot[ObjOf[t]] = "up"
  /\ pc[t] = "idle"
  /\ freshHash <= MaxEntries
  /\ clock \in Stamps
  /\ lock' = [lock EXCEPT ![ObjOf[t]] = t]
  /\ Goto(t, "check")
  /\ UNCHANGED <<fileVars, bootVars, memVars, pending, freshHash, acked>>

\* A call starts only while a bound leaves it an event and a second to rotate in.
Acquire(t) ==
  /\ boot[ObjOf[t]] = "up"
  /\ pc[t] = "idle"
  /\ lock[ObjOf[t]] = NoThread
  /\ freshHash <= MaxEntries
  /\ clock \in Stamps
  /\ lock' = [lock EXCEPT ![ObjOf[t]] = t]
  /\ Goto(t, "check")
  /\ UNCHANGED <<fileVars, bootVars, memVars, pending, freshHash, acked>>

\* Mutant: every rotation uses the same name.
MutRotateLogName(t) ==
  /\ pc[t] = "check"
  /\ Oversize
  /\ archives' = [archives EXCEPT ![1] = live]
  /\ live' = <<>>
  /\ cut' = FALSE
  /\ lastHash' = [lastHash EXCEPT ![ObjOf[t]] = GENESIS]
  /\ sequence' = [sequence EXCEPT ![ObjOf[t]] = 0]
  /\ Goto(t, "build")
  /\ UNCHANGED <<clock, bootVars, lock, pending, freshHash, acked>>

\* Mutant: the new file goes on with the old file's hash.
MutRotateLogHash(t) ==
  /\ pc[t] = "check"
  /\ Oversize
  /\ \E s \in Stamps :
       /\ s >= clock
       /\ archives' = [archives EXCEPT ![s] = live]
       /\ clock' = s + 1
  /\ live' = <<>>
  /\ cut' = FALSE
  /\ sequence' = [sequence EXCEPT ![ObjOf[t]] = 0]
  /\ Goto(t, "build")
  /\ UNCHANGED <<bootVars, lastHash, lock, pending, freshHash, acked>>

\* _rotate_log: rename replaces a file of the same name.  The name carries the
\* second s; only SameSecond lets the next rotation use s again.
RotateLog(t) ==
  /\ pc[t] = "check"
  /\ Oversize
  /\ \E s \in Stamps :
       /\ s >= clock
       /\ archives' = [archives EXCEPT ![s] = live]
       /\ clock' = IF SameSecond THEN s ELSE s + 1
  /\ live' = <<>>
  /\ cut' = FALSE
  /\ lastHash' = [lastHash EXCEPT ![ObjOf[t]] = GENESIS]
  /\ sequence' = [sequence EXCEPT ![ObjOf[t]] = 0]
  /\ Goto(t, "build")
  /\ UNCHANGED <<bootVars, lock, pending, freshHash, acked>>

\* Number the event, link it to the cached hash and compute its HMAC.
BuildEntry(t) ==
  /\ pc[t] = "build" \/ (pc[t] = "check" /\ ~Oversize)
  /\ sequence' = [sequence EXCEPT ![ObjOf[t]] = @ + 1]
  /\ pending' = [pending EXCEPT ![t] =
                   [hash |-> freshHash,
                    prev |-> lastHash[ObjOf[t]],
                    seq  |-> sequence[ObjOf[t]] + 1]]
  /\ freshHash' = freshHash + 1
  /\ Goto(t, "write")
  /\ UNCHANGED <<fileVars, bootVars, lastHash, lock, acked>>

\* data that json.dumps rejects: TypeError after the number is taken.
BuildRaises(t) ==
  /\ pc[t] = "build" \/ (pc[t] = "check" /\ ~Oversize)
  /\ sequence' = [sequence EXCEPT ![ObjOf[t]] = @ + 1]
  /\ freshHash' = freshHash + 1
  /\ Release(t)
  /\ UNCHANGED <<fileVars, bootVars, lastHash, pending, acked>>

\* The line on disk for what thread t has built.
LineOf(t) ==
  [kind |-> "entry", hash |-> pending[t].hash, prev |-> pending[t].prev,
   seq |-> pending[t].seq, key |-> hmacKey[ObjOf[t]]]

AppendLine(t) ==
  /\ pc[t] = "write"
  /\ AppendTo(LineOf(t), "full")
  /\ Goto(t, "commit")
  /\ UNCHANGED <<archives, clock, bootVars, memVars, lock, pending, freshHash, acked>>

\* Mutant: the lock is not released when the append raises.
MutAppendRaises(t, outcome) ==
  /\ pc[t] = "write"
  /\ AppendTo(LineOf(t), outcome)
  /\ Goto(t, "idle")
  /\ UNCHANGED <<archives, clock, bootVars, memVars, lock, pending, freshHash, acked>>

\* open, flush or fsync raises: the caches keep the old hash and the new number.
AppendRaises(t, outcome) ==
  /\ pc[t] = "write"
  /\ AppendTo(LineOf(t), outcome)
  /\ Release(t)
  /\ UNCHANGED <<archives, clock, bootVars, memVars, pending, freshHash, acked>>

Commit(t) ==
  /\ pc[t] = "commit"
  /\ lastHash' = [lastHash EXCEPT ![ObjOf[t]] = pending[t].hash]
  /\ acked' = acked \cup {pending[t].hash}
  /\ Release(t)
  /\ UNCHANGED <<fileVars, bootVars, sequence, pending, freshHash>>

-----------------------------------------------------------------------------
(* Crashes.                                                                *)

\* The process of object l dies, wherever its threads are.
Die(l) ==
  /\ boot' = [boot EXCEPT ![l] = "down"]
  /\ lock' = [lock EXCEPT ![l] = NoThread]
  /\ pc' = [t \in Threads |-> IF ObjOf[t] = l THEN "idle" ELSE pc[t]]
  /\ UNCHANGED <<archives, clock, keyFile, hmacKey, boots, memVars, pending,
                 freshHash, acked>>

Crash(l) ==
  /\ boot[l] # "down"
  /\ Die(l)
  /\ UNCHANGED <<live, cut>>

CrashInAppend(t, outcome) ==
  /\ pc[t] = "write"
  /\ AppendTo(LineOf(t), outcome)
  /\ Die(ObjOf[t])

-----------------------------------------------------------------------------
BootStep(l) ==
  ReadKey(l) \/ DrawKey(l) \/ OpenKeyFile(l) \/ StoreKey(l) \/ LoadTail(l)

CallStep(t) ==
  \/ RotateLog(t) \/ BuildEntry(t) \/ BuildRaises(t) \/ AppendLine(t) \/ Commit(t)
  \/ \E outcome \in ErrorOutcomes : AppendRaises(t, outcome)

Next ==
  \/ \E l \in Loggers : BootStep(l) \/ Crash(l)
  \/ \E t \in Threads :
       \/ Acquire(t) \/ CallStep(t)
       \/ \E outcome \in CrashOutcomes : CrashInAppend(t, outcome)

Spec == Init /\ [][Next]_vars

\* A thread inside log_event keeps running; nothing makes a caller call.
FairSpec == Spec /\ \A t \in Threads : WF_vars(CallStep(t))
-----------------------------------------------------------------------------
(* Properties.                                                             *)

Files == {live} \cup {archives[s] : s \in Stamps}

\* verify_chain answers True for the log and for every rotated file, at every
\* moment: also between an append and the update of the cache, and after a
\* restart anywhere in log_event.  Where an append may leave part of a line
\* (CrashOutcomes, ErrorOutcomes) it does not hold: that line does not verify.
ChainIntact ==
  \A l \in Loggers : boot[l] = "up" => \A f \in Files : VerifyChain(f, hmacKey[l])

LinkedFile(f) ==
  \A i \in 1..Len(f) : f[i] # Junk /\ (i = 1 \/ f[i - 1] # Junk) => Linked(f, i)

\* Wherever a line and its predecessor both parse they are linked, and a first
\* line that parses starts the chain: an append cut short damages the line it
\* cut and no link between other lines, however the log is continued, reloaded
\* or rotated afterwards.
EntriesLinked == \A f \in Files : LinkedFile(f)

\* Within a file, sequence numbers grow along every stretch of lines that parse,
\* whatever failed calls and restarts lie between two entries: a failed call
\* may leave a gap, never a repetition.  Across a damaged line nothing is
\* promised: a restart that finds it last numbers from 1 again.
SeqIncreasing ==
  \A f \in Files : \A i, j \in 1..Len(f) :
    i < j /\ (\A k \in i..j : f[k] # Junk) => f[i].seq < f[j].seq

\* The lock is given back, however the call ends: a failure inside log_event
\* does not lock the other threads out.
LockReturned ==
  \A t \in Threads : lock[ObjOf[t]] = t ~> lock[ObjOf[t]] # t
-----------------------------------------------------------------------------
(* The files as one record: the volumes, in the order of their rotation, the *)
(* log last.                                                               *)

Hashes == 1..MaxEntries
Volumes == 1..(MaxStamp + 1)
Volume(v) == IF v \in Stamps THEN archives[v] ELSE live

\* Where lines stand: <<v, i>> is line i of volume v.
LineAt(p) == Volume(p[1])[p[2]]
Lines == UNION {{v} \X (1..Len(Volume(v))) : v \in Volumes}
Places == {p \in Lines : LineAt(p) # Junk}
Damaged == Lines \ Places
Earlier(p, q) == p[1] < q[1] \/ (p[1] = q[1] /\ p[2] < q[2])

Recorded == {LineAt(p).hash : p \in Places}
Before ==
  {<<LineAt(r[1]).hash, LineAt(r[2]).hash>> :
     r \in {r \in Places \X Places : Earlier(r[1], r[2])}}

\* Every damaged line costs at most one event whose log_event returned: the one
\* written behind the part of a line that a failed or killed append left.  All
\* the others can be read back for ever, through rotations and restarts; with
\* no damaged line that is all of them.
AckedKept == Cardinality(acked \ Recorded) <= Cardinality(Damaged)

Abstract == INSTANCE AppendOnlyLog WITH
  Events    <- Hashes,
  recorded  <- Recorded,
  before    <- Before,
  confirmed <- acked

\* The log and its rotated files, read in the order of the rotations, are an
\* append-only record of the events, and log_event returns only for recorded
\* ones: a rotation moves entries to another file and none out of its place.
ImplementsAppendOnlyLog == Abstract!Spec
=============================================================================
