-------------------------- MODULE KeyStoreProofs --------------------------
(***************************************************************************)
(* Proofs about KeyStore: for any number of keys, rotations and kills, no   *)
(* signing key leaves the store, and where the mode guards the private key  *)
(* load_keypair takes a pair unless a rotation comes between its reads.     *)
(***************************************************************************)
EXTENDS KeyStore, TLAPS

-----------------------------------------------------------------------------
(* The inductive invariant, in parts.                                       *)

\* A file that is not there has no contents and no mode, and a key that is being
\* written has a number.
Absences ==
  /\ \A half \in Halves : ~live[half].exists => live[half].key = 0 /\ ~live[half].safe
  /\ \A t \in 0..MaxTime, half \in Halves : ~archive[t][half].exists => archive[t][half].key = 0
  /\ task.step \in {"write-private", "open-public", "write-public", "chmod"} => task.key # 0

\* How far a generation has come.
Progress ==
  /\ task.step = "archive-public" => ~live["private"].exists
  /\ task.step = "open-private" =>
       ~live["private"].exists \/ (app = "starting" /\ ~live["public"].exists)
  /\ task.step = "write-private" => live["private"].key = 0 /\ live["private"].exists
  /\ task.step \in {"open-public", "write-public", "chmod"} =>
       live["private"].key = task.key /\ live["private"].exists
  /\ task.step \in {"write-public", "chmod"} => live["public"].exists
  /\ task.step = "chmod" => live["public"].key = task.key

\* On posix with a umask that lets others read, a private key has its mode only when
\* it is complete, next to its public key, and no generation has begun to replace it;
\* or the mode was set by hand.
ModeLast ==
  host = "posix" /\ ~advised /\ live["private"].exists /\ live["private"].safe =>
    /\ live["public"].exists /\ live["private"].key # 0
    /\ live["private"].key = live["public"].key
    /\ task.step \in {"none", "archive-private"}

\* The names that a rotation renames to are free.
Unoccupied ==
  /\ task.step = "archive-private" => archive[task.stamp]["private"].key = 0
  /\ task.step \in {"archive-private", "archive-public"} => archive[task.stamp]["public"].key = 0

\* A call begins only when a key is left for it.
Room ==
  task.step \in {"archive-private", "archive-public", "open-private"} => generated < MaxKeys

\* The key of a certificate is archived, or under its name next to a public file.
Held ==
  \A c \in certs :
    \/ \E t \in 0..MaxTime : archive[t]["private"].key = c
    \/ live["private"].key = c /\ live["private"].exists /\ live["public"].exists

\* The key that load_keypair has read is archived or still under its name.
Taken ==
  load.step = "read-public" =>
    \/ \E t \in 0..MaxTime : archive[t]["private"].key = load.private
    \/ live["private"].key = load.private /\ live["private"].exists

\* Nothing changes while a call of load_keypair is alone.
Alone ==
  load.alone =>
    /\ task.step = "none"
    /\ host = "posix" /\ ~advised =>
         /\ load.step = "read-private" => live["private"].exists /\ live["private"].safe
         /\ load.step = "read-public" =>
              live["private"].exists /\ live["private"].safe /\ live["private"].key = load.private

-----------------------------------------------------------------------------
(* What the file operations do, file by file.                               *)

File == [key : Nat, safe : BOOLEAN, exists : BOOLEAN]

\* Files of any number of keys.
Shapes ==
  /\ live \in [Halves -> File]
  /\ archive \in [0..MaxTime -> [Halves -> File]]
  /\ task \in [step : Steps, key : Nat, stamp : 0..MaxTime]
  /\ load.step \in {"none", "stat", "read-private", "read-public"}
  /\ load = [step |-> load.step, private |-> load.private, alone |-> load.alone]

\* The type invariant implies the shapes.
LEMMA TypedShapes == TypeOK => Shapes
<1> SUFFICES ASSUME TypeOK PROVE Shapes
  OBVIOUS
<1>1. generated \in Nat /\ Keys \subseteq Nat
  BY BoundsAssumption DEF TypeOK, Keys
<1>3. Pairs \subseteq [Halves -> File]
  BY <1>1 DEF Pairs, File
<1>4. live \in [Halves -> File] /\ archive \in [0..MaxTime -> [Halves -> File]]
  BY <1>3 DEF TypeOK
<1>5. task \in [step : Steps, key : Nat, stamp : 0..MaxTime]
  BY <1>1 DEF TypeOK
<1>6. /\ load.step \in {"none", "stat", "read-private", "read-public"}
      /\ load = [step |-> load.step, private |-> load.private, alone |-> load.alone]
  BY DEF TypeOK, Loads
<1> QED
  BY <1>4, <1>5, <1>6 DEF Shapes

\* The private file is archived, if it is there.
LEMMA ArchivePrivateEffect ==
  ASSUME Shapes, ArchivePrivate
  PROVE  /\ task.step = "archive-private" /\ task'.step = "archive-public"
         /\ task'.key = task.key /\ task'.stamp = task.stamp
         /\ live'["public"] = live["public"]
         /\ live["private"].exists => live'["private"] = Absent
         /\ ~live["private"].exists => live'["private"] = live["private"]
         /\ ~live'["private"].exists
         /\ \A t \in 0..MaxTime : archive'[t]["public"] = archive[t]["public"]
         /\ live["private"].exists => archive'[task.stamp]["private"] = live["private"]
         /\ \A t \in 0..MaxTime :
              t # task.stamp \/ ~live["private"].exists => archive'[t]["private"] = archive[t]["private"]
         /\ UNCHANGED <<app, generated, now, certs, advised, load, host>>
<1>1. /\ task.step = "archive-private" /\ task'.step = "archive-public"
      /\ task'.key = task.key /\ task'.stamp = task.stamp
  BY DEF ArchivePrivate, At, Goto, Shapes
<1>2. UNCHANGED <<app, generated, now, certs, advised, load, host>>
  BY DEF ArchivePrivate, Rename
<1>3. CASE live["private"].exists
  <2>1. archive' = [archive EXCEPT ![task.stamp]["private"] = live["private"]]
    BY <1>3 DEF ArchivePrivate, Rename
  <2>2. live' = [live EXCEPT !["private"] = Absent]
    BY <1>3 DEF ArchivePrivate, Rename
  <2>3. live'["private"] = Absent /\ live'["public"] = live["public"]
    BY <2>2 DEF Shapes, Halves
  <2>4. \A t \in 0..MaxTime : archive'[t]["public"] = archive[t]["public"]
    BY <2>1 DEF Shapes, Halves
  <2>5. /\ archive'[task.stamp]["private"] = live["private"]
        /\ \A t \in 0..MaxTime : t # task.stamp => archive'[t]["private"] = archive[t]["private"]
    BY <2>1 DEF Shapes, Halves
  <2>6. ~live'["private"].exists
    BY <2>3 DEF Absent
  <2> QED
    BY <1>1, <1>2, <1>3, <2>3, <2>4, <2>5, <2>6
<1>4. CASE ~live["private"].exists
  <2>1. UNCHANGED <<live, archive>>
    BY <1>4 DEF ArchivePrivate, Rename
  <2> QED
    BY <1>1, <1>2, <1>4, <2>1
<1> QED
  BY <1>3, <1>4

\* The public file is archived, if it is there.
LEMMA ArchivePublicEffect ==
  ASSUME Shapes, ArchivePublic
  PROVE  /\ task.step = "archive-public" /\ task'.step = "open-private"
         /\ task'.key = task.key /\ task'.stamp = task.stamp
         /\ live'["private"] = live["private"]
         /\ live["public"].exists => live'["public"] = Absent
         /\ ~live["public"].exists => live'["public"] = live["public"]
         /\ ~live'["public"].exists
         /\ \A t \in 0..MaxTime : archive'[t]["private"] = archive[t]["private"]
         /\ live["public"].exists => archive'[task.stamp]["public"] = live["public"]
         /\ \A t \in 0..MaxTime :
              t # task.stamp \/ ~live["public"].exists => archive'[t]["public"] = archive[t]["public"]
         /\ UNCHANGED <<app, generated, now, certs, advised, load, host>>
<1>1. /\ task.step = "archive-public" /\ task'.step = "open-private"
      /\ task'.key = task.key /\ task'.stamp = task.stamp
  BY DEF ArchivePublic, At, Goto, Shapes
<1>2. UNCHANGED <<app, generated, now, certs, advised, load, host>>
  BY DEF ArchivePublic, Rename
<1>3. CASE live["public"].exists
  <2>1. archive' = [archive EXCEPT ![task.stamp]["public"] = live["public"]]
    BY <1>3 DEF ArchivePublic, Rename
  <2>2. live' = [live EXCEPT !["public"] = Absent]
    BY <1>3 DEF ArchivePublic, Rename
  <2>3. live'["public"] = Absent /\ live'["private"] = live["private"]
    BY <2>2 DEF Shapes, Halves
  <2>4. \A t \in 0..MaxTime : archive'[t]["private"] = archive[t]["private"]
    BY <2>1 DEF Shapes, Halves
  <2>5. /\ archive'[task.stamp]["public"] = live["public"]
        /\ \A t \in 0..MaxTime : t # task.stamp => archive'[t]["public"] = archive[t]["public"]
    BY <2>1 DEF Shapes, Halves
  <2>6. ~live'["public"].exists
    BY <2>3 DEF Absent
  <2> QED
    BY <1>1, <1>2, <1>3, <2>3, <2>4, <2>5, <2>6
<1>4. CASE ~live["public"].exists
  <2>1. UNCHANGED <<live, archive>>
    BY <1>4 DEF ArchivePublic, Rename
  <2> QED
    BY <1>1, <1>2, <1>4, <2>1
<1> QED
  BY <1>3, <1>4

\* The private file is emptied or made.
LEMMA OpenPrivateEffect ==
  ASSUME TypeOK, Shapes, OpenPrivate
  PROVE  /\ task.step = "open-private" /\ task'.step = "write-private"
         /\ task'.key = generated + 1 /\ generated \in Nat /\ task'.stamp = task.stamp
         /\ live'["public"] = live["public"]
         /\ live'["private"].key = 0 /\ live'["private"].exists
         /\ live["private"].exists \/ host = "posix" => (live'["private"].safe <=> live["private"].exists /\ live["private"].safe)
         /\ generated' = generated + 1 /\ UNCHANGED <<archive, app, now, certs, advised, load, host>>
<1>0. live["private"] \in File
  BY DEF Shapes, Halves
<1> DEFINE opened == [key |-> 0, exists |-> TRUE,
                      safe |-> IF live["private"].exists THEN live["private"].safe ELSE host = "private-umask"]
<1>1. live' = [live EXCEPT !["private"] = opened]
  BY DEF OpenPrivate, Open
<1>2. live'["private"] = opened /\ live'["public"] = live["public"]
  BY <1>1 DEF Shapes, Halves
<1>3. /\ task.step = "open-private" /\ task'.step = "write-private"
      /\ task'.key = generated + 1 /\ generated \in Nat /\ task'.stamp = task.stamp
  <2>1. task.step = "open-private" /\ task' = [task EXCEPT !.step = "write-private", !.key = generated + 1]
    BY DEF OpenPrivate, At
  <2>2. generated \in Nat
    BY BoundsAssumption DEF TypeOK
  <2> QED
    BY <2>1, <2>2 DEF Shapes
<1>4. generated' = generated + 1 /\ UNCHANGED <<archive, app, now, certs, advised, load, host>>
  BY DEF OpenPrivate, Open
<1>5. opened.key = 0 /\ opened.exists
  OBVIOUS
<1>6. live["private"].exists \/ host = "posix" => (opened.safe <=> live["private"].exists /\ live["private"].safe)
  BY <1>0 DEF File
<1> HIDE DEF opened
<1> QED
  BY <1>2, <1>3, <1>4, <1>5, <1>6

\* The public file is emptied or made.
LEMMA OpenPublicEffect ==
  ASSUME Shapes, OpenPublic
  PROVE  /\ task.step = "open-public" /\ task'.step = "write-public"
         /\ task'.key = task.key /\ task'.stamp = task.stamp
         /\ live'["private"] = live["private"]
         /\ live'["public"].key = 0 /\ live'["public"].exists
         /\ live["public"].exists \/ host = "posix" => (live'["public"].safe <=> live["public"].exists /\ live["public"].safe)
         /\ generated' = generated /\ UNCHANGED <<archive, app, now, certs, advised, load, host>>
<1>0. live["public"] \in File
  BY DEF Shapes, Halves
<1> DEFINE opened == [key |-> 0, exists |-> TRUE,
                      safe |-> IF live["public"].exists THEN live["public"].safe ELSE host = "private-umask"]
<1>1. live' = [live EXCEPT !["public"] = opened]
  BY DEF OpenPublic, Open
<1>2. live'["public"] = opened /\ live'["private"] = live["private"]
  BY <1>1 DEF Shapes, Halves
<1>3. /\ task.step = "open-public" /\ task'.step = "write-public"
      /\ task'.key = task.key /\ task'.stamp = task.stamp
  BY DEF OpenPublic, At, Goto, Shapes
<1>4. generated' = generated /\ UNCHANGED <<archive, app, now, certs, advised, load, host>>
  BY DEF OpenPublic, Open
<1>5. opened.key = 0 /\ opened.exists
  OBVIOUS
<1>6. live["public"].exists \/ host = "posix" => (opened.safe <=> live["public"].exists /\ live["public"].safe)
  BY <1>0 DEF File
<1> HIDE DEF opened
<1> QED
  BY <1>2, <1>3, <1>4, <1>5, <1>6

\* The private file gets its contents.
LEMMA WritePrivateEffect ==
  ASSUME Shapes, WritePrivate
  PROVE  /\ task.step = "write-private" /\ task'.step = "open-public"
         /\ task'.key = task.key /\ task'.stamp = task.stamp
         /\ live'["public"] = live["public"] /\ live'["private"].key = task.key
         /\ (live'["private"].exists <=> live["private"].exists) /\ (live'["private"].safe <=> live["private"].safe)
         /\ UNCHANGED <<archive, app, generated, now, certs, advised, load, host>>
<1>1. live' = [live EXCEPT !["private"] = [live["private"] EXCEPT !.key = task.key]]
  BY DEF WritePrivate, Write
<1>2. live'["private"] = [live["private"] EXCEPT !.key = task.key] /\ live'["public"] = live["public"]
  BY <1>1 DEF Shapes, Halves
<1>3. live["private"] \in File
  BY DEF Shapes, Halves
<1>4. /\ task.step = "write-private" /\ task'.step = "open-public"
      /\ task'.key = task.key /\ task'.stamp = task.stamp
  BY DEF WritePrivate, At, Goto, Shapes
<1>5. UNCHANGED <<archive, app, generated, now, certs, advised, load, host>>
  BY DEF WritePrivate, Write
<1>6. live'["private"].key = task.key
      /\ (live'["private"].exists <=> live["private"].exists) /\ (live'["private"].safe <=> live["private"].safe)
  BY <1>2, <1>3 DEF File
<1> QED
  BY <1>2, <1>4, <1>5, <1>6

\* The public file gets its contents.
LEMMA WritePublicEffect ==
  ASSUME Shapes, WritePublic
  PROVE  /\ task.step = "write-public" /\ task'.step = "chmod"
         /\ task'.key = task.key /\ task'.stamp = task.stamp
         /\ live'["private"] = live["private"] /\ live'["public"].key = task.key
         /\ (live'["public"].exists <=> live["public"].exists) /\ (live'["public"].safe <=> live["public"].safe)
         /\ UNCHANGED <<archive, app, generated, now, certs, advised, load, host>>
<1>1. live' = [live EXCEPT !["public"] = [live["public"] EXCEPT !.key = task.key]]
  BY DEF WritePublic, Write
<1>2. live'["public"] = [live["public"] EXCEPT !.key = task.key] /\ live'["private"] = live["private"]
  BY <1>1 DEF Shapes, Halves
<1>3. live["public"] \in File
  BY DEF Shapes, Halves
<1>4. /\ task.step = "write-public" /\ task'.step = "chmod"
      /\ task'.key = task.key /\ task'.stamp = task.stamp
  BY DEF WritePublic, At, Goto, Shapes
<1>5. UNCHANGED <<archive, app, generated, now, certs, advised, load, host>>
  BY DEF WritePublic, Write
<1>6. live'["public"].key = task.key
      /\ (live'["public"].exists <=> live["public"].exists) /\ (live'["public"].safe <=> live["public"].safe)
  BY <1>2, <1>3 DEF File
<1> QED
  BY <1>2, <1>4, <1>5, <1>6

\* The modes are set, or not, and the call ends.
LEMMA RestrictEffect ==
  ASSUME Shapes, Restrict
  PROVE  /\ task.step = "chmod" /\ task'.step = "none"
         /\ live'["private"].key = live["private"].key /\ (live'["private"].exists <=> live["private"].exists)
         /\ live'["public"].key = live["public"].key /\ (live'["public"].exists <=> live["public"].exists)
         /\ UNCHANGED <<archive, generated, now, certs, load, host>>
<1>1. live["private"] \in File /\ live["public"] \in File
  BY DEF Shapes, Halves
<1>2. CASE Posix
  <2>1. live' = [live EXCEPT !["private"] = [live["private"] EXCEPT !.safe = TRUE],
                             !["public"] = [live["public"] EXCEPT !.safe = FALSE]]
    BY <1>2 DEF Restrict
  <2>2. live'["private"] = [live["private"] EXCEPT !.safe = TRUE]
        /\ live'["public"] = [live["public"] EXCEPT !.safe = FALSE]
    BY <2>1 DEF Shapes, Halves
  <2> QED
    BY <1>1, <2>2 DEF File, Restrict, At, Goto, Shapes
<1>3. CASE ~Posix
  BY <1>3 DEF Restrict, At, Goto, Shapes
<1> QED
  BY <1>2, <1>3

\* The mode is set by hand.
LEMMA ChmodEffect ==
  ASSUME Shapes, Chmod
  PROVE  /\ live'["private"].key = live["private"].key /\ (live'["private"].exists <=> live["private"].exists)
         /\ live["private"].exists /\ live'["private"].safe /\ live'["public"] = live["public"] /\ advised'
         /\ UNCHANGED <<archive, app, task, generated, now, certs, load, host>>
<1>1. live["private"] \in File
  BY DEF Shapes, Halves
<1>2. live' = [live EXCEPT !["private"] = [live["private"] EXCEPT !.safe = TRUE]]
  BY DEF Chmod
<1>3. live'["private"] = [live["private"] EXCEPT !.safe = TRUE] /\ live'["public"] = live["public"]
  BY <1>2 DEF Shapes, Halves
<1> QED
  BY <1>1, <1>3 DEF File, Chmod

\* A rotation begins.
LEMMA RotateEffect ==
  ASSUME Shapes, Rotate
  PROVE  /\ task'.step = "archive-private" /\ task'.key = 0 /\ task'.stamp = now
         /\ load'.step = load.step /\ load'.private = load.private /\ ~load'.alone
         /\ UNCHANGED <<live, archive, app, generated, now, certs, advised, host>>
<1>1. load' = [load EXCEPT !.alone = FALSE]
  BY DEF Rotate
<1>2. load'.step = load.step /\ load'.private = load.private /\ ~load'.alone
  BY <1>1 DEF Shapes
<1> QED
  BY <1>2 DEF Rotate, Begin

Loading == LookForPrivate \/ StatPrivate \/ ReadPrivate \/ ReadPublic

\* A missing file may make the start generate.
LEMMA RaiseEffect ==
  ASSUME NEW error, Raise(error)
  PROVE  /\ UNCHANGED <<live, archive, generated, now, advised, host, certs>>
         /\ load'.step = "none" /\ ~load'.alone
         /\ \/ task' = task /\ app' = app
            \/ /\ task.step = "none" /\ task'.step = "open-private" /\ task'.key = 0
               /\ app = "down" /\ app' = "starting" /\ generated < MaxKeys
               /\ error = "FileNotFoundError"
<1>1. load'.step = "none" /\ ~load'.alone
  BY DEF Raise, Idle
<1> QED
  BY <1>1 DEF Raise, Untouched, Begin

\* The call goes on.
LEMMA ProceedEffect ==
  ASSUME Shapes, NEW step, NEW key, Proceed(step, key)
  PROVE  /\ UNCHANGED <<live, archive, generated, now, advised, host, certs, app, task>>
         /\ load'.step = step /\ load'.private = key /\ (load'.alone <=> load.alone)
<1>1. load' = [load EXCEPT !.step = step, !.private = key]
  BY DEF Proceed
<1>2. load'.step = step /\ load'.private = key /\ (load'.alone <=> load.alone)
  BY <1>1 DEF Shapes
<1> QED
  BY <1>2 DEF Proceed, Untouched

\* What load_keypair does, look by look.
LEMMA LoadEffect ==
  ASSUME TypeOK, Shapes, Absences, Loading
  PROVE  /\ UNCHANGED <<live, archive, generated, now, advised, host>>
         /\ app # "starting"
         /\ \/ task' = task /\ app' \in {app, "up"}
            \/ /\ task.step = "none" /\ task'.step = "open-private" /\ task'.key = 0
               /\ app' = "starting" /\ generated < MaxKeys /\ load'.step = "none"
               /\ ~live["private"].exists \/ ~live["public"].exists
         /\ load'.alone => task' = task /\ (task.step = "none" \/ load.alone)
         /\ load'.step = "read-private" /\ host = "posix" =>
              live["private"].exists /\ live["private"].safe
         /\ load'.step = "read-public" =>
              /\ load'.private = live["private"].key /\ live["private"].key # 0
              /\ live["private"].exists /\ load.step = "read-private" /\ (load'.alone => load.alone)
         /\ \/ certs' = certs
            \/ /\ load.step = "read-public" /\ live["public"].exists
               /\ certs' = certs \cup {load.private}
<1>0. /\ app = "starting" => load.step = "none"
      /\ ~live["private"].exists => live["private"].key = 0 /\ ~live["private"].safe
  BY DEF TypeOK, Absences, Halves
<1>1. CASE LookForPrivate
  <2>1. app # "starting"
    BY <1>1 DEF LookForPrivate
  <2>2. CASE live["private"].exists
    <3> DEFINE begun == [step |-> IF Posix THEN "stat" ELSE "read-private", private |-> 0,
                         alone |-> task.step = "none"]
    <3>1. load' = begun /\ UNCHANGED <<live, archive, generated, now, advised, host, app, task, certs>>
      BY <1>1, <2>2 DEF LookForPrivate, Untouched
    <3>2. begun.step = (IF Posix THEN "stat" ELSE "read-private") /\ (begun.alone <=> task.step = "none")
      OBVIOUS
    <3> HIDE DEF begun
    <3>3. load'.step # "read-public" /\ (load'.step = "read-private" => host # "posix")
      BY <3>1, <3>2 DEF Posix
    <3> QED
      BY <2>1, <3>1, <3>2, <3>3
  <2>3. CASE ~live["private"].exists
    <3>1. Raise("FileNotFoundError")
      BY <1>1, <2>3 DEF LookForPrivate
    <3> QED
      BY <2>1, <2>3, <3>1, RaiseEffect
  <2> QED
    BY <2>2, <2>3
<1>2. CASE StatPrivate
  <2>1. app # "starting"
    BY <1>0, <1>2 DEF StatPrivate
  <2>2. CASE ~live["private"].exists /\ Raise("FileNotFoundError")
    BY <2>1, <2>2, RaiseEffect
  <2>3. CASE Raise("PermissionError")
    BY <2>1, <2>3, RaiseEffect
  <2>4. CASE live["private"].safe /\ Proceed("read-private", 0)
    <3>1. live["private"].exists /\ load'.step = "read-private"
      BY <1>0, <2>4, ProceedEffect
    <3> QED
      BY <2>1, <2>4, <3>1, ProceedEffect
  <2> QED
    BY <1>2, <2>2, <2>3, <2>4 DEF StatPrivate
<1>3. CASE ReadPrivate
  <2>1. app # "starting" /\ load.step = "read-private"
    BY <1>0, <1>3 DEF ReadPrivate
  <2>2. CASE ~live["private"].exists /\ Raise("FileNotFoundError")
    BY <2>1, <2>2, RaiseEffect
  <2>3. CASE Raise("ValueError")
    BY <2>1, <2>3, RaiseEffect
  <2>4. CASE live["private"].key # 0 /\ Proceed("read-public", live["private"].key)
    <3>1. live["private"].exists /\ load'.step = "read-public" /\ load'.private = live["private"].key
      BY <1>0, <2>4, ProceedEffect
    <3> QED
      BY <2>1, <2>4, <3>1, ProceedEffect
  <2> QED
    BY <1>3, <2>2, <2>3, <2>4 DEF ReadPrivate
<1>4. CASE ReadPublic
  <2>1. app # "starting" /\ load.step = "read-public"
    BY <1>0, <1>4 DEF ReadPublic
  <2>2. CASE live["public"].exists
    <3>1. load' = Idle /\ app' = "up" /\ UNCHANGED <<live, archive, generated, now, advised, host, task>>
      BY <1>4, <2>2 DEF ReadPublic, Untouched
    <3>2. load'.step = "none" /\ ~load'.alone
      BY <3>1 DEF Idle
    <3>3. certs' = certs \/ certs' = certs \cup {load.private}
      BY <1>4, <2>2 DEF ReadPublic
    <3> QED
      BY <2>1, <2>2, <3>1, <3>2, <3>3
  <2>3. CASE ~live["public"].exists
    <3>1. Raise("FileNotFoundError")
      BY <1>4, <2>3 DEF ReadPublic
    <3> QED
      BY <2>1, <2>3, <3>1, RaiseEffect
  <2> QED
    BY <2>2, <2>3
<1> QED
  BY <1>1, <1>2, <1>3, <1>4 DEF Loading

\* What is killed ends.
LEMMA KillEffect ==
  ASSUME Shapes, Kill
  PROVE  task.step # "none" /\ task'.step = "none" /\ UNCHANGED <<live, archive, generated, now, certs, advised, load, host>>
BY DEF Kill, Goto, Shapes

\* Nothing is left of a call of load_keypair when its process ends.
LEMMA StopEffect ==
  ASSUME TypeOK, Stop
  PROVE  /\ load'.step = "none" /\ ~load'.alone /\ app # "starting"
         /\ UNCHANGED <<live, archive, task, generated, now, certs, advised, host>>
BY DEF Stop, Idle, TypeOK

-----------------------------------------------------------------------------
(* Each part of the invariant is kept by every step.                        *)

\* Files appear when they are opened and disappear when they are renamed.
LEMMA AbsencesStep == TypeOK /\ Absences /\ Progress /\ [Next]_vars => Absences'
<1> SUFFICES ASSUME TypeOK, Absences, Progress, [Next]_vars PROVE Absences'
  OBVIOUS
<1> USE DEF Halves, Absent, Absences, Progress
<1>0. Shapes
  BY TypedShapes
<1>1. CASE Rotate
  BY <1>0, <1>1, RotateEffect
<1>2. CASE ArchivePrivate
  <2>1. \A h \in Halves : ~live'[h].exists => live'[h].key = 0 /\ ~live'[h].safe
    <3>1. ~live'["public"].exists => live'["public"].key = 0 /\ ~live'["public"].safe
      BY <1>0, <1>2, ArchivePrivateEffect
    <3>2. live'["private"].key = 0 /\ ~live'["private"].safe
      <4>1. CASE live["private"].exists
        <5>1. live'["private"] = Absent
          BY <1>0, <1>2, <4>1, ArchivePrivateEffect
        <5>2. Absent.key = 0 /\ ~Absent.safe
          BY Zenon DEF Absent
        <5> HIDE DEF Absent
        <5> QED
          BY <5>1, <5>2
      <4>2. CASE ~live["private"].exists
        BY <1>0, <1>2, <4>2, ArchivePrivateEffect
      <4> QED
        BY <4>1, <4>2
    <3> QED
      BY <3>1, <3>2
  <2>2. \A t \in 0..MaxTime, h \in Halves : ~archive'[t][h].exists => archive'[t][h].key = 0
    <3> SUFFICES ASSUME NEW t \in 0..MaxTime
                 PROVE  \A h \in Halves : ~archive'[t][h].exists => archive'[t][h].key = 0
      OBVIOUS
    <3>1. ~archive'[t]["public"].exists => archive'[t]["public"].key = 0
      BY <1>0, <1>2, ArchivePrivateEffect
    <3>2. CASE t = task.stamp /\ live["private"].exists
      BY <1>0, <1>2, <3>1, <3>2, ArchivePrivateEffect
    <3>3. CASE ~(t = task.stamp /\ live["private"].exists)
      BY <1>0, <1>2, <3>1, <3>3, ArchivePrivateEffect
    <3> QED
      BY <3>2, <3>3
  <2>3. task'.step \in {"archive-public", "open-private"}
    BY <1>0, <1>2, ArchivePrivateEffect
  <2> QED
    BY <2>1, <2>2, <2>3
<1>3. CASE ArchivePublic
  <2>1. \A h \in Halves : ~live'[h].exists => live'[h].key = 0 /\ ~live'[h].safe
    <3>1. ~live'["private"].exists => live'["private"].key = 0 /\ ~live'["private"].safe
      BY <1>0, <1>3, ArchivePublicEffect
    <3>2. live'["public"].key = 0 /\ ~live'["public"].safe
      <4>1. CASE live["public"].exists
        <5>1. live'["public"] = Absent
          BY <1>0, <1>3, <4>1, ArchivePublicEffect
        <5>2. Absent.key = 0 /\ ~Absent.safe
          BY Zenon DEF Absent
        <5> HIDE DEF Absent
        <5> QED
          BY <5>1, <5>2
      <4>2. CASE ~live["public"].exists
        BY <1>0, <1>3, <4>2, ArchivePublicEffect
      <4> QED
        BY <4>1, <4>2
    <3> QED
      BY <3>1, <3>2
  <2>2. \A t \in 0..MaxTime, h \in Halves : ~archive'[t][h].exists => archive'[t][h].key = 0
    <3> SUFFICES ASSUME NEW t \in 0..MaxTime
                 PROVE  \A h \in Halves : ~archive'[t][h].exists => archive'[t][h].key = 0
      OBVIOUS
    <3>1. ~archive'[t]["private"].exists => archive'[t]["private"].key = 0
      BY <1>0, <1>3, ArchivePublicEffect
    <3>2. CASE t = task.stamp /\ live["public"].exists
      BY <1>0, <1>3, <3>1, <3>2, ArchivePublicEffect
    <3>3. CASE ~(t = task.stamp /\ live["public"].exists)
      BY <1>0, <1>3, <3>1, <3>3, ArchivePublicEffect
    <3> QED
      BY <3>2, <3>3
  <2>3. task'.step \in {"archive-public", "open-private"}
    BY <1>0, <1>3, ArchivePublicEffect
  <2> QED
    BY <2>1, <2>2, <2>3
<1>4. CASE OpenPrivate
  <2>1. \A h \in Halves : ~live'[h].exists => live'[h].key = 0 /\ ~live'[h].safe
    <3>1. ~live'["public"].exists => live'["public"].key = 0 /\ ~live'["public"].safe
      BY <1>0, <1>4, OpenPrivateEffect
    <3>2. ~live'["private"].exists => live'["private"].key = 0 /\ ~live'["private"].safe
      BY <1>0, <1>4, OpenPrivateEffect
    <3> QED
      BY <3>1, <3>2
  <2>2. \A t \in 0..MaxTime, h \in Halves : ~archive'[t][h].exists => archive'[t][h].key = 0
    BY <1>0, <1>4, OpenPrivateEffect
  <2>3. task'.key # 0
    <3>1. generated \in Nat /\ task'.key = generated + 1
      BY <1>0, <1>4, OpenPrivateEffect
    <3>2. generated + 1 # 0
      <4> HIDE DEF Absences, Progress
      <4> QED
        BY <3>1
    <3> QED
      BY <3>1, <3>2
  <2> QED
    BY <2>1, <2>2, <2>3
<1>5. CASE WritePrivate
  <2>1. \A h \in Halves : ~live'[h].exists => live'[h].key = 0 /\ ~live'[h].safe
    <3>1. ~live'["public"].exists => live'["public"].key = 0 /\ ~live'["public"].safe
      BY <1>0, <1>5, WritePrivateEffect
    <3>2. ~live'["private"].exists => live'["private"].key = 0 /\ ~live'["private"].safe
      BY <1>0, <1>5, WritePrivateEffect
    <3> QED
      BY <3>1, <3>2
  <2>2. \A t \in 0..MaxTime, h \in Halves : ~archive'[t][h].exists => archive'[t][h].key = 0
    BY <1>0, <1>5, WritePrivateEffect
  <2>3. task'.key # 0
    BY <1>0, <1>5, WritePrivateEffect
  <2> QED
    BY <2>1, <2>2, <2>3
<1>6. CASE OpenPublic
  BY <1>0, <1>6, OpenPublicEffect
<1>7. CASE WritePublic
  <2>1. \A h \in Halves : ~live'[h].exists => live'[h].key = 0 /\ ~live'[h].safe
    <3>1. ~live'["private"].exists => live'["private"].key = 0 /\ ~live'["private"].safe
      BY <1>0, <1>7, WritePublicEffect
    <3>2. ~live'["public"].exists => live'["public"].key = 0 /\ ~live'["public"].safe
      BY <1>0, <1>7, WritePublicEffect
    <3> QED
      BY <3>1, <3>2
  <2>2. \A t \in 0..MaxTime, h \in Halves : ~archive'[t][h].exists => archive'[t][h].key = 0
    BY <1>0, <1>7, WritePublicEffect
  <2>3. task'.key # 0
    BY <1>0, <1>7, WritePublicEffect
  <2> QED
    BY <2>1, <2>2, <2>3
<1>8. CASE Restrict
  <2>1. \A h \in Halves : ~live'[h].exists => live'[h].key = 0 /\ ~live'[h].safe
    <3>1. ~live'["public"].exists => live'["public"].key = 0 /\ ~live'["public"].safe
      BY <1>0, <1>8, RestrictEffect
    <3>2. ~live'["private"].exists => live'["private"].key = 0 /\ ~live'["private"].safe
      BY <1>0, <1>8, RestrictEffect
    <3> QED
      BY <3>1, <3>2
  <2>2. \A t \in 0..MaxTime, h \in Halves : ~archive'[t][h].exists => archive'[t][h].key = 0
    BY <1>0, <1>8, RestrictEffect
  <2>3. task'.step = "none"
    BY <1>0, <1>8, RestrictEffect
  <2> QED
    BY <2>1, <2>2, <2>3
<1>9. CASE Loading
  BY <1>0, <1>9, LoadEffect
<1>11. CASE Chmod
  BY <1>0, <1>11, ChmodEffect
<1>12. CASE Kill
  BY <1>0, <1>12, KillEffect
<1>13. CASE Stop
  BY <1>0, <1>13, StopEffect
<1>14. CASE Tick
  BY <1>0, <1>14 DEF Tick
<1>15. CASE UNCHANGED vars
  BY <1>15 DEF vars
<1> QED
  BY <1>1, <1>2, <1>3, <1>4, <1>5, <1>6, <1>7, <1>8, <1>9, <1>11, <1>12, <1>13, <1>14, <1>15 DEF Next, Loading

\* Only the process that generates touches the pair, but for its mode.
LEMMA ProgressStep == TypeOK /\ Absences /\ Progress /\ [Next]_vars => Progress'
<1> SUFFICES ASSUME TypeOK, Absences, Progress, [Next]_vars PROVE Progress'
  OBVIOUS
<1> USE DEF Halves, Absent, Absences, Progress
<1>0. Shapes
  BY TypedShapes
<1>1. CASE Rotate
  BY <1>0, <1>1, RotateEffect
<1>2. CASE ArchivePrivate
  BY <1>0, <1>2, ArchivePrivateEffect
<1>3. CASE ArchivePublic
  BY <1>0, <1>3, ArchivePublicEffect
<1>4. CASE OpenPrivate
  BY <1>0, <1>4, OpenPrivateEffect
<1>5. CASE WritePrivate
  BY <1>0, <1>5, WritePrivateEffect
<1>6. CASE OpenPublic
  BY <1>0, <1>6, OpenPublicEffect
<1>7. CASE WritePublic
  BY <1>0, <1>7, WritePublicEffect
<1>8. CASE Restrict
  BY <1>0, <1>8, RestrictEffect
<1>9. CASE Loading
  BY <1>0, <1>9, LoadEffect
<1>11. CASE Chmod
  BY <1>0, <1>11, ChmodEffect
<1>12. CASE Kill
  BY <1>0, <1>12, KillEffect
<1>13. CASE Stop
  BY <1>0, <1>13, StopEffect
<1>14. CASE Tick
  BY <1>0, <1>14 DEF Tick
<1>15. CASE UNCHANGED vars
  BY <1>15 DEF vars
<1> QED
  BY <1>1, <1>2, <1>3, <1>4, <1>5, <1>6, <1>7, <1>8, <1>9, <1>11, <1>12, <1>13, <1>14, <1>15 DEF Next, Loading

\* The mode is set when the pair is complete.
LEMMA ModeLastStep == TypeOK /\ Absences /\ Progress /\ ModeLast /\ [Next]_vars => ModeLast'
<1> SUFFICES ASSUME TypeOK, Absences, Progress, ModeLast, [Next]_vars PROVE ModeLast'
  OBVIOUS
<1> USE DEF Halves, Absent, Absences, Progress, ModeLast
<1>0. Shapes
  BY TypedShapes
<1>1. CASE Rotate
  BY <1>0, <1>1, RotateEffect
<1>2. CASE ArchivePrivate
  BY <1>0, <1>2, ArchivePrivateEffect
<1>3. CASE ArchivePublic
  BY <1>0, <1>3, ArchivePublicEffect
<1>4. CASE OpenPrivate
  BY <1>0, <1>4, OpenPrivateEffect
<1>5. CASE WritePrivate
  BY <1>0, <1>5, WritePrivateEffect
<1>6. CASE OpenPublic
  BY <1>0, <1>6, OpenPublicEffect
<1>7. CASE WritePublic
  BY <1>0, <1>7, WritePublicEffect
<1>8. CASE Restrict
  BY <1>0, <1>8, RestrictEffect
<1>9. CASE Loading
  BY <1>0, <1>9, LoadEffect
<1>11. CASE Chmod
  BY <1>0, <1>11, ChmodEffect
<1>12. CASE Kill
  BY <1>0, <1>12, KillEffect
<1>13. CASE Stop
  BY <1>0, <1>13, StopEffect
<1>14. CASE Tick
  BY <1>0, <1>14 DEF Tick
<1>15. CASE UNCHANGED vars
  BY <1>15 DEF vars
<1> QED
  BY <1>1, <1>2, <1>3, <1>4, <1>5, <1>6, <1>7, <1>8, <1>9, <1>11, <1>12, <1>13, <1>14, <1>15 DEF Next, Loading

\* A rotation begins in a second that has no archive yet.
LEMMA UnoccupiedStep == TypeOK /\ Absences /\ Unoccupied /\ [Next]_vars => Unoccupied'
<1> SUFFICES ASSUME TypeOK, Absences, Unoccupied, [Next]_vars PROVE Unoccupied'
  OBVIOUS
<1> USE DEF Halves, Absent, Unoccupied, Absences
<1>0. Shapes
  BY TypedShapes
<1>1. CASE Rotate
  BY <1>0, <1>1, RotateEffect DEF Rotate, Unarchived, TypeOK
<1>2. CASE ArchivePrivate
  <2>1. task'.step = "archive-public" /\ task'.stamp = task.stamp /\ task.stamp \in 0..MaxTime
    BY <1>0, <1>2, ArchivePrivateEffect DEF Shapes
  <2>2. archive'[task.stamp]["public"] = archive[task.stamp]["public"]
    BY <1>0, <1>2, <2>1, ArchivePrivateEffect
  <2>3. archive[task.stamp]["public"].key = 0
    BY <1>0, <1>2, ArchivePrivateEffect
  <2> QED
    BY <2>1, <2>2, <2>3
<1>3. CASE ArchivePublic
  BY <1>0, <1>3, ArchivePublicEffect
<1>4. CASE OpenPrivate
  BY <1>0, <1>4, OpenPrivateEffect
<1>5. CASE WritePrivate
  BY <1>0, <1>5, WritePrivateEffect
<1>6. CASE OpenPublic
  BY <1>0, <1>6, OpenPublicEffect
<1>7. CASE WritePublic
  BY <1>0, <1>7, WritePublicEffect
<1>8. CASE Restrict
  BY <1>0, <1>8, RestrictEffect
<1>9. CASE Loading
  BY <1>0, <1>9, LoadEffect
<1>11. CASE Chmod
  BY <1>0, <1>11, ChmodEffect
<1>12. CASE Kill
  BY <1>0, <1>12, KillEffect
<1>13. CASE Stop
  BY <1>0, <1>13, StopEffect
<1>14. CASE Tick
  BY <1>0, <1>14 DEF Tick
<1>15. CASE UNCHANGED vars
  BY <1>15 DEF vars
<1> QED
  BY <1>1, <1>2, <1>3, <1>4, <1>5, <1>6, <1>7, <1>8, <1>9, <1>11, <1>12, <1>13, <1>14, <1>15 DEF Next, Loading

\* Nothing is lost by a step that keeps the archived private keys and a pair.
LEMMA HeldKept ==
  ASSUME TypeOK, Held, certs' = certs,
         \A t \in 0..MaxTime : archive'[t]["private"] = archive[t]["private"],
         live["private"].key # 0 /\ live["private"].exists /\ live["public"].exists =>
           /\ live'["private"].key = live["private"].key
           /\ live'["private"].exists /\ live'["public"].exists
  PROVE  Held'
<1>1. \A c \in certs : c # 0
  BY DEF TypeOK
<1> QED
  BY <1>1 DEF Held

\* A private key is archived before its file is replaced.
LEMMA HeldStep ==
  TypeOK /\ Absences /\ Progress /\ Unoccupied /\ Held /\ Taken /\ [Next]_vars => Held'
<1> SUFFICES ASSUME TypeOK, Absences, Progress, Unoccupied, Held, Taken, [Next]_vars PROVE Held'
  OBVIOUS
<1>0. Shapes
  BY TypedShapes
<1>1. CASE Rotate
  <2>1. certs' = certs /\ \A t \in 0..MaxTime : archive'[t]["private"] = archive[t]["private"]
    BY <1>0, <1>1, RotateEffect
  <2>2. live["private"].key # 0 /\ live["private"].exists /\ live["public"].exists =>
          live'["private"].key = live["private"].key /\ live'["private"].exists /\ live'["public"].exists
    BY <1>0, <1>1, RotateEffect DEF Progress, Absent
  <2> QED
    BY <2>1, <2>2, HeldKept
<1>2. CASE ArchivePrivate
  <2>1. certs' = certs /\ task.stamp \in 0..MaxTime /\ archive[task.stamp]["private"].key = 0
    BY <1>0, <1>2, ArchivePrivateEffect DEF Unoccupied, Shapes
  <2>2. ASSUME NEW c \in certs
        PROVE  \/ \E t \in 0..MaxTime : archive'[t]["private"].key = c
               \/ live'["private"].key = c /\ live'["private"].exists /\ live'["public"].exists
    <3>1. c # 0
      BY DEF TypeOK
    <3>2. CASE \E t \in 0..MaxTime : archive[t]["private"].key = c
      <4>1. PICK t \in 0..MaxTime : archive[t]["private"].key = c
        BY <3>2
      <4>2. archive'[t]["private"] = archive[t]["private"]
        BY <1>0, <1>2, <2>1, <3>1, <4>1, ArchivePrivateEffect
      <4> QED
        BY <4>1, <4>2
    <3>3. CASE live["private"].key = c /\ live["private"].exists
      <4>1. archive'[task.stamp]["private"] = live["private"]
        BY <1>0, <1>2, <2>1, <3>3, ArchivePrivateEffect
      <4> QED
        BY <2>1, <3>3, <4>1
    <3> QED
      BY <3>2, <3>3 DEF Held
  <2> QED
    BY <2>1, <2>2 DEF Held
<1>3. CASE ArchivePublic
  <2>1. certs' = certs /\ \A t \in 0..MaxTime : archive'[t]["private"] = archive[t]["private"]
    BY <1>0, <1>3, ArchivePublicEffect
  <2>2. live["private"].key # 0 /\ live["private"].exists /\ live["public"].exists =>
          live'["private"].key = live["private"].key /\ live'["private"].exists /\ live'["public"].exists
    BY <1>0, <1>3, ArchivePublicEffect DEF Progress, Absent
  <2> QED
    BY <2>1, <2>2, HeldKept
<1>4. CASE OpenPrivate
  <2>1. certs' = certs /\ \A t \in 0..MaxTime : archive'[t]["private"] = archive[t]["private"]
    BY <1>0, <1>4, OpenPrivateEffect
  <2>2. live["private"].key # 0 /\ live["private"].exists /\ live["public"].exists =>
          live'["private"].key = live["private"].key /\ live'["private"].exists /\ live'["public"].exists
    BY <1>0, <1>4, OpenPrivateEffect DEF Progress
  <2> QED
    BY <2>1, <2>2, HeldKept
<1>5. CASE WritePrivate
  <2>1. certs' = certs /\ \A t \in 0..MaxTime : archive'[t]["private"] = archive[t]["private"]
    BY <1>0, <1>5, WritePrivateEffect
  <2>2. live["private"].key # 0 /\ live["private"].exists /\ live["public"].exists =>
          live'["private"].key = live["private"].key /\ live'["private"].exists /\ live'["public"].exists
    BY <1>0, <1>5, WritePrivateEffect DEF Progress, Absent
  <2> QED
    BY <2>1, <2>2, HeldKept
<1>6. CASE OpenPublic
  <2>1. certs' = certs /\ \A t \in 0..MaxTime : archive'[t]["private"] = archive[t]["private"]
    BY <1>0, <1>6, OpenPublicEffect
  <2>2. live["private"].key # 0 /\ live["private"].exists /\ live["public"].exists =>
          live'["private"].key = live["private"].key /\ live'["private"].exists /\ live'["public"].exists
    BY <1>0, <1>6, OpenPublicEffect DEF Progress, Absent
  <2> QED
    BY <2>1, <2>2, HeldKept
<1>7. CASE WritePublic
  <2>1. certs' = certs /\ \A t \in 0..MaxTime : archive'[t]["private"] = archive[t]["private"]
    BY <1>0, <1>7, WritePublicEffect
  <2>2. live["private"].key # 0 /\ live["private"].exists /\ live["public"].exists =>
          live'["private"].key = live["private"].key /\ live'["private"].exists /\ live'["public"].exists
    BY <1>0, <1>7, WritePublicEffect DEF Progress, Absent
  <2> QED
    BY <2>1, <2>2, HeldKept
<1>8. CASE Restrict
  <2>1. certs' = certs /\ \A t \in 0..MaxTime : archive'[t]["private"] = archive[t]["private"]
    BY <1>0, <1>8, RestrictEffect
  <2>2. live["private"].key # 0 /\ live["private"].exists /\ live["public"].exists =>
          live'["private"].key = live["private"].key /\ live'["private"].exists /\ live'["public"].exists
    BY <1>0, <1>8, RestrictEffect DEF Progress, Absent
  <2> QED
    BY <2>1, <2>2, HeldKept
<1>9. CASE Loading
  <2>1. UNCHANGED <<live, archive>>
    BY <1>0, <1>9, LoadEffect
  <2>2. CASE certs' = certs
    BY <2>1, <2>2 DEF Held
  <2>3. CASE /\ load.step = "read-public" /\ live["public"].exists
             /\ certs' = certs \cup {load.private}
    <3>1. ASSUME NEW c \in certs'
          PROVE  \/ \E t \in 0..MaxTime : archive[t]["private"].key = c
                 \/ live["private"].key = c /\ live["private"].exists /\ live["public"].exists
      <4>1. CASE c \in certs
        BY <4>1 DEF Held
      <4>2. CASE c = load.private
        BY <2>3, <4>2 DEF Taken
      <4> QED
        BY <2>3, <3>1, <4>1, <4>2
    <3> QED
      BY <2>1, <3>1 DEF Held
  <2> QED
    BY <1>0, <1>9, <2>2, <2>3, LoadEffect
<1>11. CASE Chmod
  <2>1. certs' = certs /\ \A t \in 0..MaxTime : archive'[t]["private"] = archive[t]["private"]
    BY <1>0, <1>11, ChmodEffect
  <2>2. live["private"].key # 0 /\ live["private"].exists /\ live["public"].exists =>
          live'["private"].key = live["private"].key /\ live'["private"].exists /\ live'["public"].exists
    BY <1>0, <1>11, ChmodEffect DEF Progress, Absent
  <2> QED
    BY <2>1, <2>2, HeldKept
<1>12. CASE Kill
  <2>1. certs' = certs /\ \A t \in 0..MaxTime : archive'[t]["private"] = archive[t]["private"]
    BY <1>0, <1>12, KillEffect
  <2>2. live["private"].key # 0 /\ live["private"].exists /\ live["public"].exists =>
          live'["private"].key = live["private"].key /\ live'["private"].exists /\ live'["public"].exists
    BY <1>0, <1>12, KillEffect DEF Progress, Absent
  <2> QED
    BY <2>1, <2>2, HeldKept
<1>13. CASE Stop
  BY <1>0, <1>13, StopEffect DEF Held
<1>14. CASE Tick
  BY <1>14 DEF Tick, Held
<1>15. CASE UNCHANGED vars
  BY <1>15 DEF vars, Held
<1> QED
  BY <1>1, <1>2, <1>3, <1>4, <1>5, <1>6, <1>7, <1>8, <1>9, <1>11, <1>12, <1>13, <1>14, <1>15 DEF Next, Loading

\* The key that was read is not lost by a step that keeps the archived private keys
\* and the private key.
LEMMA TakenKept ==
  ASSUME TypeOK, Taken, load'.step = load.step, load'.private = load.private,
         \A t \in 0..MaxTime : archive'[t]["private"] = archive[t]["private"],
         live["private"].key # 0 /\ live["private"].exists =>
           live'["private"].key = live["private"].key /\ live'["private"].exists
  PROVE  Taken'
<1>1. load.step = "read-public" => load.private # 0
  BY DEF TypeOK
<1> QED
  BY <1>1 DEF Taken

\* A private key that load_keypair has read is archived before its file is replaced.
LEMMA TakenStep == TypeOK /\ Absences /\ Progress /\ Unoccupied /\ Taken /\ [Next]_vars => Taken'
<1> SUFFICES ASSUME TypeOK, Absences, Progress, Unoccupied, Taken, [Next]_vars PROVE Taken'
  OBVIOUS
<1>0. Shapes
  BY TypedShapes
<1>1. CASE Rotate
  <2>1. /\ load'.step = load.step /\ load'.private = load.private
        /\ \A t \in 0..MaxTime : archive'[t]["private"] = archive[t]["private"]
    BY <1>0, <1>1, RotateEffect
  <2>2. live["private"].key # 0 /\ live["private"].exists =>
          live'["private"].key = live["private"].key /\ live'["private"].exists
    BY <1>0, <1>1, RotateEffect DEF Progress
  <2> QED
    BY <2>1, <2>2, TakenKept
<1>2. CASE ArchivePrivate
  <2>1. /\ load' = load /\ task.stamp \in 0..MaxTime /\ archive[task.stamp]["private"].key = 0
    BY <1>0, <1>2, ArchivePrivateEffect DEF Unoccupied, Shapes
  <2>2. CASE load.step = "read-public"
    <3>1. load.private # 0
      BY <2>2 DEF TypeOK
    <3>2. CASE \E t \in 0..MaxTime : archive[t]["private"].key = load.private
      <4>1. PICK t \in 0..MaxTime : archive[t]["private"].key = load.private
        BY <3>2
      <4>2. archive'[t]["private"] = archive[t]["private"]
        BY <1>0, <1>2, <2>1, <3>1, <4>1, ArchivePrivateEffect
      <4> QED
        BY <2>1, <4>1, <4>2 DEF Taken
    <3>3. CASE live["private"].key = load.private /\ live["private"].exists
      <4>1. archive'[task.stamp]["private"] = live["private"]
        BY <1>0, <1>2, <2>1, <3>3, ArchivePrivateEffect
      <4> QED
        BY <2>1, <3>3, <4>1 DEF Taken
    <3> QED
      BY <2>2, <3>2, <3>3 DEF Taken
  <2> QED
    BY <2>1, <2>2 DEF Taken
<1>3. CASE ArchivePublic
  <2>1. /\ load'.step = load.step /\ load'.private = load.private
        /\ \A t \in 0..MaxTime : archive'[t]["private"] = archive[t]["private"]
    BY <1>0, <1>3, ArchivePublicEffect
  <2>2. live["private"].key # 0 /\ live["private"].exists =>
          live'["private"].key = live["private"].key /\ live'["private"].exists
    BY <1>0, <1>3, ArchivePublicEffect DEF Progress
  <2> QED
    BY <2>1, <2>2, TakenKept
<1>4. CASE OpenPrivate
  <2>1. load' = load /\ \A t \in 0..MaxTime : archive'[t]["private"] = archive[t]["private"]
    BY <1>0, <1>4, OpenPrivateEffect
  <2>2. CASE live["private"].exists
    <3>1. load.step = "none"
      BY <1>0, <1>4, <2>2, OpenPrivateEffect DEF Progress, TypeOK
    <3> QED
      BY <2>1, <3>1 DEF Taken
  <2>3. CASE ~live["private"].exists
    BY <2>1, <2>3, TakenKept
  <2> QED
    BY <2>2, <2>3
<1>5. CASE WritePrivate
  <2>1. /\ load'.step = load.step /\ load'.private = load.private
        /\ \A t \in 0..MaxTime : archive'[t]["private"] = archive[t]["private"]
    BY <1>0, <1>5, WritePrivateEffect
  <2>2. live["private"].key # 0 /\ live["private"].exists =>
          live'["private"].key = live["private"].key /\ live'["private"].exists
    BY <1>0, <1>5, WritePrivateEffect DEF Progress
  <2> QED
    BY <2>1, <2>2, TakenKept
<1>6. CASE OpenPublic
  <2>1. /\ load'.step = load.step /\ load'.private = load.private
        /\ \A t \in 0..MaxTime : archive'[t]["private"] = archive[t]["private"]
    BY <1>0, <1>6, OpenPublicEffect
  <2>2. live["private"].key # 0 /\ live["private"].exists =>
          live'["private"].key = live["private"].key /\ live'["private"].exists
    BY <1>0, <1>6, OpenPublicEffect DEF Progress
  <2> QED
    BY <2>1, <2>2, TakenKept
<1>7. CASE WritePublic
  <2>1. /\ load'.step = load.step /\ load'.private = load.private
        /\ \A t \in 0..MaxTime : archive'[t]["private"] = archive[t]["private"]
    BY <1>0, <1>7, WritePublicEffect
  <2>2. live["private"].key # 0 /\ live["private"].exists =>
          live'["private"].key = live["private"].key /\ live'["private"].exists
    BY <1>0, <1>7, WritePublicEffect DEF Progress
  <2> QED
    BY <2>1, <2>2, TakenKept
<1>8. CASE Restrict
  <2>1. /\ load'.step = load.step /\ load'.private = load.private
        /\ \A t \in 0..MaxTime : archive'[t]["private"] = archive[t]["private"]
    BY <1>0, <1>8, RestrictEffect
  <2>2. live["private"].key # 0 /\ live["private"].exists =>
          live'["private"].key = live["private"].key /\ live'["private"].exists
    BY <1>0, <1>8, RestrictEffect DEF Progress
  <2> QED
    BY <2>1, <2>2, TakenKept
<1>9. CASE Loading
  <2>1. UNCHANGED <<live, archive>>
    BY <1>0, <1>9, LoadEffect
  <2>2. load'.step = "read-public" => load'.private = live["private"].key /\ live["private"].exists
    BY <1>0, <1>9, LoadEffect
  <2> QED
    BY <2>1, <2>2 DEF Taken
<1>11. CASE Chmod
  <2>1. /\ load'.step = load.step /\ load'.private = load.private
        /\ \A t \in 0..MaxTime : archive'[t]["private"] = archive[t]["private"]
    BY <1>0, <1>11, ChmodEffect
  <2>2. live["private"].key # 0 /\ live["private"].exists =>
          live'["private"].key = live["private"].key /\ live'["private"].exists
    BY <1>0, <1>11, ChmodEffect DEF Progress
  <2> QED
    BY <2>1, <2>2, TakenKept
<1>12. CASE Kill
  <2>1. /\ load'.step = load.step /\ load'.private = load.private
        /\ \A t \in 0..MaxTime : archive'[t]["private"] = archive[t]["private"]
    BY <1>0, <1>12, KillEffect
  <2>2. live["private"].key # 0 /\ live["private"].exists =>
          live'["private"].key = live["private"].key /\ live'["private"].exists
    BY <1>0, <1>12, KillEffect DEF Progress
  <2> QED
    BY <2>1, <2>2, TakenKept
<1>13. CASE Stop
  BY <1>13, StopEffect DEF Taken
<1>14. CASE Tick
  BY <1>14 DEF Tick, Taken
<1>15. CASE UNCHANGED vars
  BY <1>15 DEF vars, Taken
<1> QED
  BY <1>1, <1>2, <1>3, <1>4, <1>5, <1>6, <1>7, <1>8, <1>9, <1>11, <1>12, <1>13, <1>14, <1>15 DEF Next, Loading

\* While a generation or rotation goes on no call of load_keypair is alone, and
\* without one only the mode can change.
LEMMA AloneStep == TypeOK /\ Absences /\ Alone /\ [Next]_vars => Alone'
<1> SUFFICES ASSUME TypeOK, Absences, Alone, [Next]_vars PROVE Alone'
  OBVIOUS
<1>0. Shapes
  BY TypedShapes
<1>1. CASE Rotate
  BY <1>0, <1>1, RotateEffect DEF Alone
<1>2. CASE ArchivePrivate
  <2>1. task.step # "none" /\ load' = load
    BY <1>0, <1>2, ArchivePrivateEffect
  <2> QED
    BY <2>1 DEF Alone
<1>3. CASE ArchivePublic
  <2>1. task.step # "none" /\ load' = load
    BY <1>0, <1>3, ArchivePublicEffect
  <2> QED
    BY <2>1 DEF Alone
<1>4. CASE OpenPrivate
  <2>1. task.step # "none" /\ load' = load
    BY <1>0, <1>4, OpenPrivateEffect
  <2> QED
    BY <2>1 DEF Alone
<1>5. CASE WritePrivate
  <2>1. task.step # "none" /\ load' = load
    BY <1>0, <1>5, WritePrivateEffect
  <2> QED
    BY <2>1 DEF Alone
<1>6. CASE OpenPublic
  <2>1. task.step # "none" /\ load' = load
    BY <1>0, <1>6, OpenPublicEffect
  <2> QED
    BY <2>1 DEF Alone
<1>7. CASE WritePublic
  <2>1. task.step # "none" /\ load' = load
    BY <1>0, <1>7, WritePublicEffect
  <2> QED
    BY <2>1 DEF Alone
<1>8. CASE Restrict
  <2>1. task.step # "none" /\ load' = load
    BY <1>0, <1>8, RestrictEffect
  <2> QED
    BY <2>1 DEF Alone
<1>12. CASE Kill
  <2>1. task.step # "none" /\ load' = load
    BY <1>0, <1>12, KillEffect
  <2> QED
    BY <2>1 DEF Alone
<1>9. CASE Loading
  <2> SUFFICES ASSUME load'.alone PROVE Alone'
    BY DEF Alone
  <2>1. /\ task' = task /\ task.step = "none" /\ UNCHANGED <<live, advised, host>>
    BY <1>0, <1>9, LoadEffect DEF Alone
  <2>2. load'.step = "read-private" /\ host = "posix" => live["private"].exists /\ live["private"].safe
    BY <1>0, <1>9, LoadEffect
  <2>3. load'.step = "read-public" =>
          /\ load.alone /\ load.step = "read-private"
          /\ load'.private = live["private"].key /\ live["private"].exists
    BY <1>0, <1>9, LoadEffect
  <2> QED
    BY <2>1, <2>2, <2>3 DEF Alone
<1>11. CASE Chmod
  BY <1>0, <1>11, ChmodEffect DEF Alone
<1>13. CASE Stop
  BY <1>13, StopEffect DEF Alone
<1>14. CASE Tick
  BY <1>14 DEF Tick, Alone
<1>15. CASE UNCHANGED vars
  BY <1>15 DEF vars, Alone
<1> QED
  BY <1>1, <1>2, <1>3, <1>4, <1>5, <1>6, <1>7, <1>8, <1>9, <1>11, <1>12, <1>13, <1>14, <1>15 DEF Next, Loading

-----------------------------------------------------------------------------
(* The type invariant.                                                      *)

\* A file is a record of its fields.
Files == [key : Keys, safe : BOOLEAN, exists : BOOLEAN]

\* A file can be put under either name.
LEMMA Put ==
  ASSUME NEW pair \in Pairs, NEW half \in Halves
  PROVE  pair[half] \in Files /\ \A file \in Files : [pair EXCEPT ![half] = file] \in Pairs
BY DEF Pairs, Files

\* An absent file, one with a key and one with a mode are files.
LEMMA Kinds ==
  ASSUME TypeOK
  PROVE  /\ Absent \in Files
         /\ \A safe \in BOOLEAN : [key |-> 0, exists |-> TRUE, safe |-> safe] \in Files
         /\ \A file \in Files, key \in Keys : [file EXCEPT !.key = key] \in Files
         /\ \A file \in Files, safe \in BOOLEAN : [file EXCEPT !.safe = safe] \in Files
<1>1. 0 \in Keys
  BY BoundsAssumption DEF TypeOK, Keys
<1>2. Absent \in Files
  BY <1>1 DEF Absent, Files
<1>3. \A safe \in BOOLEAN : [key |-> 0, exists |-> TRUE, safe |-> safe] \in Files
  BY <1>1 DEF Files
<1>4. \A file \in Files, key \in Keys : [file EXCEPT !.key = key] \in Files
  BY DEF Files
<1>5. \A file \in Files, safe \in BOOLEAN : [file EXCEPT !.safe = safe] \in Files
  BY DEF Files
<1> QED
  BY <1>2, <1>3, <1>4, <1>5

\* The files under the key's name are files after every step.
LEMMA LiveTyped == TypeOK /\ [Next]_vars => live' \in Pairs
<1> SUFFICES ASSUME TypeOK, [Next]_vars PROVE live' \in Pairs
  OBVIOUS
<1>0. live \in Pairs /\ task.key \in Keys /\ "private" \in Halves /\ "public" \in Halves
  BY DEF TypeOK, Halves
<1>1. live["private"] \in Files /\ live["public"] \in Files
  BY <1>0, Put
<1>2. CASE ArchivePrivate
  BY <1>0, <1>2, Kinds, Put DEF ArchivePrivate, Rename
<1>3. CASE ArchivePublic
  BY <1>0, <1>3, Kinds, Put DEF ArchivePublic, Rename
<1>4. ASSUME NEW half \in Halves, Open(half) PROVE live' \in Pairs
  <2> DEFINE mode == IF live[half].exists THEN live[half].safe ELSE host = "private-umask"
  <2>1. mode \in BOOLEAN
    BY <1>0, Put DEF Files
  <2>2. live' = [live EXCEPT ![half] = [key |-> 0, exists |-> TRUE, safe |-> mode]]
    BY <1>4 DEF Open
  <2> HIDE DEF mode
  <2>3. [key |-> 0, exists |-> TRUE, safe |-> mode] \in Files
    BY <2>1, Kinds
  <2> QED
    BY <1>0, <2>2, <2>3, Put
<1>5. CASE OpenPrivate \/ OpenPublic
  BY <1>0, <1>4, <1>5 DEF OpenPrivate, OpenPublic
<1>6. CASE WritePrivate
  BY <1>0, <1>1, <1>6, Kinds, Put DEF WritePrivate, Write
<1>7. CASE WritePublic
  BY <1>0, <1>1, <1>7, Kinds, Put DEF WritePublic, Write
<1>8. CASE Restrict
  <2>1. CASE Posix
    <3> DEFINE first == [live EXCEPT !["private"] = [live["private"] EXCEPT !.safe = TRUE]]
    <3>1. first \in Pairs
      BY <1>0, <1>1, Kinds, Put
    <3>2. first["public"] = live["public"]
      BY <1>0 DEF Pairs, Halves
    <3>3. live' = [first EXCEPT !["public"] = [live["public"] EXCEPT !.safe = FALSE]]
      BY <1>8, <2>1, <3>2 DEF Restrict
    <3> QED
      BY <1>0, <1>1, <3>1, <3>3, Kinds, Put
  <2>2. CASE ~Posix
    BY <1>0, <1>8, <2>2 DEF Restrict
  <2> QED
    BY <2>1, <2>2
<1>9. CASE Chmod
  BY <1>0, <1>1, <1>9, Kinds, Put DEF Chmod
<1>10. CASE Loading
  BY <1>0, <1>10 DEF Loading, LookForPrivate, StatPrivate, ReadPrivate, ReadPublic, Raise, Proceed, Untouched
<1>11. CASE Rotate \/ Kill \/ Stop \/ Tick \/ UNCHANGED vars
  BY <1>0, <1>11 DEF Rotate, Kill, Stop, Tick, vars
<1> QED
  BY <1>2, <1>3, <1>5, <1>6, <1>7, <1>8, <1>9, <1>10, <1>11 DEF Next, Loading

\* So are the archived ones.
LEMMA ArchiveTyped == TypeOK /\ [Next]_vars => archive' \in [0..MaxTime -> Pairs]
<1> SUFFICES ASSUME TypeOK, [Next]_vars PROVE archive' \in [0..MaxTime -> Pairs]
  OBVIOUS
<1>0. /\ archive \in [0..MaxTime -> Pairs] /\ task.stamp \in 0..MaxTime
      /\ "private" \in Halves /\ "public" \in Halves
      /\ live["private"] \in Files /\ live["public"] \in Files
  BY Put DEF TypeOK, Halves
<1>1. CASE ArchivePrivate
  <2>1. [archive[task.stamp] EXCEPT !["private"] = live["private"]] \in Pairs
    BY <1>0, Put
  <2> QED
    BY <1>0, <1>1, <2>1 DEF ArchivePrivate, Rename
<1>2. CASE ArchivePublic
  <2>1. [archive[task.stamp] EXCEPT !["public"] = live["public"]] \in Pairs
    BY <1>0, Put
  <2> QED
    BY <1>0, <1>2, <2>1 DEF ArchivePublic, Rename
<1>3. CASE OpenPrivate \/ OpenPublic \/ WritePrivate \/ WritePublic \/ Restrict \/ Chmod
  BY <1>0, <1>3 DEF OpenPrivate, OpenPublic, WritePrivate, WritePublic, Open, Write, Restrict, Chmod
<1>4. CASE Loading
  BY <1>0, <1>4 DEF Loading, LookForPrivate, StatPrivate, ReadPrivate, ReadPublic, Raise, Proceed, Untouched
<1>5. CASE Rotate \/ Kill \/ Stop \/ Tick \/ UNCHANGED vars
  BY <1>0, <1>5 DEF Rotate, Kill, Stop, Tick, vars
<1> QED
  BY <1>1, <1>2, <1>3, <1>4, <1>5 DEF Next, Loading

\* A key is made only when one is left.
LEMMA CountTyped ==
  TypeOK /\ Absences /\ Room /\ [Next]_vars =>
    generated' \in {generated, generated + 1} /\ generated' \in 0..MaxKeys /\ Room'
<1> SUFFICES ASSUME TypeOK, Absences, Room, [Next]_vars
             PROVE generated' \in {generated, generated + 1} /\ generated' \in 0..MaxKeys /\ Room'
  OBVIOUS
<1>0. Shapes /\ generated \in 0..MaxKeys /\ MaxKeys \in Nat
  BY TypedShapes, BoundsAssumption DEF TypeOK
<1>1. CASE OpenPrivate
  <2>1. task.step = "open-private" /\ task'.step = "write-private" /\ generated' = generated + 1
    BY <1>0, <1>1, OpenPrivateEffect
  <2>2. generated < MaxKeys
    BY <2>1 DEF Room
  <2>3. generated + 1 \in 0..MaxKeys
    BY <1>0, <2>2
  <2>4. Room'
    BY <2>1 DEF Room
  <2> QED
    BY <2>1, <2>3, <2>4
<1>2. CASE Rotate
  <2>1. generated' = generated /\ generated < MaxKeys
    BY <1>2 DEF Rotate, Begin
  <2> QED
    BY <1>0, <2>1 DEF Room
<1>3. CASE Loading
  BY <1>0, <1>3, LoadEffect DEF Room
<1>4. CASE ArchivePrivate
  BY <1>0, <1>4, ArchivePrivateEffect DEF Room
<1>5. CASE ArchivePublic
  BY <1>0, <1>5, ArchivePublicEffect DEF Room
<1>6. CASE OpenPublic
  BY <1>0, <1>6, OpenPublicEffect DEF Room
<1>7. CASE WritePrivate
  BY <1>0, <1>7, WritePrivateEffect DEF Room
<1>8. CASE WritePublic
  BY <1>0, <1>8, WritePublicEffect DEF Room
<1>9. CASE Restrict
  BY <1>0, <1>9, RestrictEffect DEF Room
<1>10. CASE Kill
  BY <1>0, <1>10, KillEffect DEF Room
<1>11. CASE Chmod \/ Stop \/ Tick \/ UNCHANGED vars
  BY <1>0, <1>11 DEF Chmod, Stop, Tick, vars, Room
<1> QED
  BY <1>1, <1>2, <1>3, <1>4, <1>5, <1>6, <1>7, <1>8, <1>9, <1>10, <1>11 DEF Next, Loading

\* The calls under way, the application, the clock and the certificates.
Calls ==
  /\ task \in [step : Steps, key : Keys, stamp : 0..MaxTime]
  /\ app \in {"down", "starting", "up"}
  /\ app = "starting" => task.step # "none" /\ load.step = "none"
  /\ now \in 0..MaxTime /\ advised \in BOOLEAN /\ host \in Hosts
  /\ load \in Loads /\ (load.step = "read-public" => load.private # 0)
  /\ certs \subseteq Keys \ {0}

\* They keep their types.
LEMMA CallTyped ==
  ASSUME TypeOK, [Next]_vars, 0 \in Keys, Keys \subseteq Keys', generated + 1 \in Keys' \/ ~OpenPrivate
  PROVE  Calls'
<1>0. /\ task \in [step : Steps, key : Keys', stamp : 0..MaxTime]
      /\ app \in {"down", "starting", "up"}
      /\ app = "starting" => task.step # "none" /\ load.step = "none"
      /\ now \in 0..MaxTime /\ advised \in BOOLEAN /\ host \in Hosts
      /\ load \in Loads' /\ (load.step = "read-public" => load.private # 0)
      /\ certs \subseteq Keys' \ {0} /\ 0 \in Keys'
  BY DEF TypeOK, Loads
<1>0a. Idle \in Loads' /\ Idle.step = "none"
  BY <1>0 DEF Idle, Loads
<1>0b. live["private"].key \in Keys' /\ load.private \in Keys'
  BY <1>0, Put DEF TypeOK, Halves, Files, Loads
<1> USE DEF Steps, At, Goto, Begin, Calls
<1>1. CASE Rotate
  <2>1. load' \in Loads' /\ load'.step = load.step /\ load'.private = load.private
    BY <1>0, <1>1 DEF Rotate, Loads
  <2>2. app # "starting" /\ UNCHANGED <<app, now, advised, host, certs>>
    BY <1>1 DEF Rotate
  <2>3. task' = [step |-> "archive-private", key |-> 0, stamp |-> now]
    BY <1>1 DEF Rotate
  <2> QED
    BY <1>0, <2>1, <2>2, <2>3
<1>2. CASE ArchivePrivate
  BY <1>0, <1>2 DEF ArchivePrivate, Rename
<1>3. CASE ArchivePublic
  BY <1>0, <1>3 DEF ArchivePublic, Rename
<1>4. CASE OpenPrivate
  BY <1>0, <1>4 DEF OpenPrivate, Open
<1>5. CASE OpenPublic
  BY <1>0, <1>5 DEF OpenPublic, Open
<1>6. CASE WritePrivate
  BY <1>0, <1>6 DEF WritePrivate, Write
<1>7. CASE WritePublic
  BY <1>0, <1>7 DEF WritePublic, Write
<1>8. CASE Restrict
  BY <1>0, <1>8 DEF Restrict
<1>9. ASSUME NEW error, Raise(error), app # "starting" PROVE Calls'
  <2>1. load' = Idle /\ UNCHANGED <<now, advised, host, certs>>
    BY <1>9 DEF Raise, Untouched
  <2>2. \/ UNCHANGED <<app, task>>
        \/ app' = "starting" /\ task' = [step |-> "open-private", key |-> 0, stamp |-> now]
    BY <1>9 DEF Raise
  <2> QED
    BY <1>0, <1>0a, <1>9, <2>1, <2>2
<1>10. ASSUME NEW step \in {"read-private", "read-public"}, NEW key \in Keys', Proceed(step, key),
              app # "starting", step = "read-public" => key # 0
       PROVE  Calls'
  <2>1. load' = [load EXCEPT !.step = step, !.private = key]
    BY <1>10 DEF Proceed
  <2>2. load' \in Loads' /\ load'.step = step /\ load'.private = key
    BY <1>0, <1>10, <2>1 DEF Loads
  <2>3. UNCHANGED <<app, task, certs, now, advised, host>>
    BY <1>10 DEF Proceed, Untouched
  <2> QED
    BY <1>0, <1>10, <2>2, <2>3
<1>11. CASE LookForPrivate
  <2>1. app # "starting"
    BY <1>11 DEF LookForPrivate
  <2>2. CASE live["private"].exists
    <3> DEFINE begun == [step |-> IF Posix THEN "stat" ELSE "read-private", private |-> 0,
                         alone |-> task.step = "none"]
    <3>1. load' = begun /\ UNCHANGED <<now, advised, host, app, task, certs>>
      BY <1>11, <2>2 DEF LookForPrivate, Untouched
    <3>2. begun \in Loads' /\ begun.step # "read-public"
      BY <1>0 DEF Loads
    <3> HIDE DEF begun
    <3> QED
      BY <1>0, <2>1, <3>1, <3>2
  <2>3. CASE ~live["private"].exists
    BY <1>9, <1>11, <2>1, <2>3 DEF LookForPrivate
  <2> QED
    BY <2>2, <2>3
<1>12. CASE StatPrivate
  <2>1. app # "starting"
    BY <1>0, <1>12 DEF StatPrivate
  <2> QED
    BY <1>0, <1>9, <1>10, <1>12, <2>1 DEF StatPrivate
<1>13. CASE ReadPrivate
  <2>1. app # "starting"
    BY <1>0, <1>13 DEF ReadPrivate
  <2>2. CASE live["private"].key # 0 /\ Proceed("read-public", live["private"].key)
    BY <1>0b, <1>10, <2>1, <2>2
  <2> QED
    BY <1>9, <1>13, <2>1, <2>2 DEF ReadPrivate
<1>14. CASE ReadPublic
  <2>1. app # "starting" /\ load.private # 0
    BY <1>0, <1>14 DEF ReadPublic
  <2>2. CASE live["public"].exists
    <3>1. /\ load' = Idle /\ app' = "up" /\ UNCHANGED <<now, advised, host, task>>
          /\ certs' \in {certs, certs \cup {load.private}}
      BY <1>14, <2>2 DEF ReadPublic, Untouched
    <3>2. certs' \subseteq Keys' \ {0}
      BY <1>0, <1>0b, <2>1, <3>1
    <3> QED
      BY <1>0, <1>0a, <3>1, <3>2
  <2>3. CASE ~live["public"].exists
    BY <1>9, <1>14, <2>1, <2>3 DEF ReadPublic
  <2> QED
    BY <2>2, <2>3
<1>15. CASE Kill
  BY <1>0, <1>15 DEF Kill
<1>16. CASE Chmod
  BY <1>0, <1>16 DEF Chmod
<1>17. CASE Stop
  BY <1>0, <1>0a, <1>17 DEF Stop
<1>18. CASE Tick
  <2>1. now' \in 0..MaxTime
    <3>1. now < MaxTime /\ now' = now + 1
      BY <1>18 DEF Tick
    <3>2. now \in 0..MaxTime /\ MaxTime \in Nat
      BY <1>0, BoundsAssumption
    <3> QED
      BY <3>1, <3>2
  <2> QED
    BY <1>0, <1>18, <2>1 DEF Tick
<1>19. CASE UNCHANGED vars
  BY <1>0, <1>19 DEF vars
<1> QED
  BY <1>1, <1>2, <1>3, <1>4, <1>5, <1>6, <1>7, <1>8, <1>11, <1>12, <1>13, <1>14, <1>15, <1>16, <1>17,
     <1>18, <1>19 DEF Next

\* The type invariant is kept, together with the room for a key.
LEMMA TypedStep == TypeOK /\ Absences /\ Room /\ [Next]_vars => TypeOK' /\ Room'
<1> SUFFICES ASSUME TypeOK, Absences, Room, [Next]_vars PROVE TypeOK' /\ Room'
  OBVIOUS
<1>1. generated' \in {generated, generated + 1} /\ generated' \in 0..MaxKeys /\ Room'
  BY CountTyped
<1>2. generated \in Nat
  BY BoundsAssumption DEF TypeOK
<1>3. 0 \in Keys /\ Keys \subseteq Keys'
  BY <1>1, <1>2 DEF Keys
<1>4. generated + 1 \in Keys' \/ ~OpenPrivate
  <2> SUFFICES ASSUME OpenPrivate PROVE generated + 1 \in Keys'
    OBVIOUS
  <2>1. generated' = generated + 1
    BY DEF OpenPrivate
  <2>2. generated + 1 \in 0..(generated + 1)
    BY <1>2
  <2> QED
    BY <2>1, <2>2 DEF Keys
<1>5. Pairs \subseteq Pairs'
  BY <1>3 DEF Pairs
<1>6. live' \in Pairs' /\ archive' \in [0..MaxTime -> Pairs']
  BY <1>5, LiveTyped, ArchiveTyped
<1>7. Calls'
  BY <1>3, <1>4, CallTyped
<1> QED
  BY <1>1, <1>6, <1>7 DEF TypeOK, Calls

-----------------------------------------------------------------------------
(* The invariant and what follows from it.                                  *)

IInv ==
  TypeOK /\ Room /\ Absences /\ Progress /\ ModeLast /\ Unoccupied /\ Held /\ Taken /\ Alone

\* Every state of the key store satisfies the inductive invariant.
THEOREM Invariant == Spec => []IInv
<1>1. Init => IInv
  <2> SUFFICES ASSUME Init PROVE IInv
    OBVIOUS
  <2>1. live["private"] = Absent /\ live["public"] = Absent /\ task.step = "none" /\ certs = {}
    BY DEF Init, Halves
  <2>2. \A t \in 0..MaxTime, half \in Halves : archive[t][half] = Absent
    BY DEF Init
  <2>3. Absent.key = 0 /\ ~Absent.safe /\ ~Absent.exists
    BY Zenon DEF Absent
  <2>4. TypeOK
    <3>1. Keys = {0} /\ generated \in 0..MaxKeys /\ now \in 0..MaxTime /\ 0 \in 0..MaxTime
      BY BoundsAssumption DEF Init, Keys
    <3>2. Absent \in [key : Keys, safe : BOOLEAN, exists : BOOLEAN]
      BY <3>1 DEF Absent
    <3>3. [half \in Halves |-> Absent] \in Pairs
      BY <3>2 DEF Pairs
    <3>4. live \in Pairs /\ archive \in [0..MaxTime -> Pairs]
      BY <3>3 DEF Init
    <3>5. task \in [step : Steps, key : Keys, stamp : 0..MaxTime]
      BY <3>1 DEF Init, Steps
    <3>6. load \in Loads /\ (load.step = "read-public" => load.private # 0)
      BY <3>1 DEF Init, Idle, Loads
    <3> QED
      BY <3>1, <3>4, <3>5, <3>6 DEF Init, TypeOK
  <2>5. Absences
    BY <2>1, <2>2, <2>3 DEF Absences, Halves
  <2>6. load.step = "none" /\ ~load.alone
    BY DEF Init, Idle
  <2> QED
    BY <2>1, <2>3, <2>4, <2>5, <2>6 DEF IInv, Room, Progress, ModeLast, Unoccupied, Held, Taken, Alone
<1>2. IInv /\ [Next]_vars => IInv'
  BY TypedStep, AbsencesStep, ProgressStep, ModeLastStep, UnoccupiedStep, HeldStep, TakenStep, AloneStep DEF IInv
<1> QED
  BY <1>1, <1>2, PTL DEF Spec

\* Every variable of the key store has its type.
THEOREM TypeCorrect == Spec => []TypeOK
<1>1. IInv => TypeOK
  BY DEF IInv
<1> QED
  BY <1>1, Invariant, PTL

\* The key of every certificate stays in the store.
THEOREM KeySurvives == Spec => []SigningKeySurvives
<1>1. IInv => SigningKeySurvives
  <2> SUFFICES ASSUME IInv, NEW c \in certs PROVE c \in Kept
    BY DEF SigningKeySurvives
  <2>1. CASE \E t \in 0..MaxTime : archive[t]["private"].key = c
    BY <2>1 DEF Kept, Halves
  <2>2. CASE live["private"].key = c
    BY <2>2 DEF Kept, Halves
  <2> QED
    BY <2>1, <2>2 DEF IInv, Held
<1> QED
  BY <1>1, Invariant, PTL

\* A call of load_keypair that nothing overlaps takes a pair.
THEOREM LoadsAPair == Spec => []LoadedIsPair
<1>1. IInv => LoadedIsPair
  <2> SUFFICES ASSUME IInv, host = "posix", ~advised, load.alone, load.step = "read-public"
               PROVE  live["public"].exists /\ live["public"].key = load.private
    BY DEF LoadedIsPair
  <2>1. live["private"].exists /\ live["private"].safe /\ live["private"].key = load.private
    BY DEF IInv, Alone
  <2> QED
    BY <2>1 DEF IInv, ModeLast
<1> QED
  BY <1>1, Invariant, PTL
=============================================================================
