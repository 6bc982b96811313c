------------------------------ MODULE KeyStore ------------------------------
(***************************************************************************)
(* The signing keys on disk: KeyManager of desktop/modules/key_manager.py,  *)
(* the start of the application, which makes a pair when it finds none, and *)
(* the worker that loads the key to sign with.                              *)
(*                                                                         *)
(* A pair is two files that are written, renamed and chmod-ed one by one,   *)
(* and whoever does it can be killed in between.  load_keypair looks at them *)
(* one by one as well, so that a rotation in another process may come       *)
(* between, and it asks for the private key's mode on posix only.  One      *)
(* process generates at a time, and rotations are started in different      *)
(* seconds, since their archives are named by the second.                   *)
(***************************************************************************)
EXTENDS Naturals

CONSTANTS
  MaxKeys,   \* bound: keys that are generated
  MaxTime    \* bound: seconds in which keys are rotated

ASSUME BoundsAssumption == MaxKeys \in Nat /\ MaxTime \in Nat

VARIABLES
  live,       \* the files under the key's name
  archive,    \* the files under the names with a timestamp
  app,        \* "down", "starting" or "up"
  task,       \* the call of generate_keypair or rotate_key under way
  generated,  \* how many keys have been generated
  now,        \* the clock, in seconds
  certs,      \* the keys that certificates have been signed with
  advised,    \* the private key's mode was set by hand, as PermissionError advises
  load,       \* the call of load_keypair under way, of the start or of a worker
  host        \* the system: os.name, and on posix whether the umask hides new files

vars == <<live, archive, app, task, generated, now, certs, advised, load, host>>

Halves == {"private", "public"}
Absent == [key |-> 0, safe |-> FALSE, exists |-> FALSE]

Steps == {"none", "archive-private", "archive-public", "open-private", "write-private",
          "open-public", "write-public", "chmod"}

\* Key 0 is a file that is not there or not written yet; safe is mode 0600.
Keys == 0..generated
Pairs == [Halves -> [key : Keys, safe : BOOLEAN, exists : BOOLEAN]]

Hosts == {"posix", "private-umask", "windows"}
Posix == host # "windows"

\* alone: nobody has generated or rotated since the call of load_keypair began.
Idle == [step |-> "none", private |-> 0, alone |-> FALSE]
Loads == [step : {"none", "stat", "read-private", "read-public"}, private : Keys, alone : BOOLEAN]

TypeOK ==
  /\ generated \in 0..MaxKeys /\ now \in 0..MaxTime /\ advised \in BOOLEAN
  /\ live \in Pairs
  /\ archive \in [0..MaxTime -> Pairs]
  /\ app \in {"down", "starting", "up"}
  /\ task \in [step : Steps, key : Keys, stamp : 0..MaxTime]
  /\ app = "starting" => task.step # "none" /\ load.step = "none"
  /\ certs \subseteq Keys \ {0}
  /\ load \in Loads /\ (load.step = "read-public" => load.private # 0)
  /\ host \in Hosts

Init ==
  /\ live = [half \in Halves |-> Absent]
  /\ archive = [t \in 0..MaxTime |-> [half \in Halves |-> Absent]]
  /\ app = "down"
  /\ task = [step |-> "none", key |-> 0, stamp |-> 0]
  /\ generated = 0 /\ now = 0
  /\ certs = {}
  /\ advised = FALSE
  /\ load = Idle /\ host \in Hosts

-----------------------------------------------------------------------------
(* generate_keypair and rotate_key, step by step.                           *)

Begin(step) == generated < MaxKeys /\ task.step = "none"
               /\ task' = [step |-> step, key |-> 0, stamp |-> now]

At(step) == task.step = step
Goto(step) == task' = [task EXCEPT !.step = step]

Unarchived == \A half \in Halves : ~archive[now][half].exists

Rotate ==
  /\ app # "starting" /\ Unarchived
  /\ Begin("archive-private")
  /\ load' = [load EXCEPT !.alone = FALSE]
  /\ UNCHANGED <<live, archive, app, generated, now, certs, advised, host>>

\* Mutant: the archive is named without a timestamp.
MutRename(half) ==
  /\ IF live[half].exists
     THEN /\ archive' = [archive EXCEPT ![0][half] = live[half]]
          /\ live' = [live EXCEPT ![half] = Absent]
     ELSE UNCHANGED <<live, archive>>
  /\ UNCHANGED <<app, generated, now, certs, advised, load, host>>

Rename(half) ==
  /\ IF live[half].exists
     THEN /\ archive' = [archive EXCEPT ![task.stamp][half] = live[half]]
          /\ live' = [live EXCEPT ![half] = Absent]
     ELSE UNCHANGED <<live, archive>>
  /\ UNCHANGED <<app, generated, now, certs, advised, load, host>>

ArchivePrivate == At("archive-private") /\ Goto("archive-public") /\ Rename("private")
ArchivePublic == At("archive-public") /\ Goto("open-private") /\ Rename("public")

\* open(..., "wb") empties a file that is there, which keeps its mode; a new one
\* gets the mode that the umask leaves.
Open(half) ==
  /\ live' = [live EXCEPT ![half] =
       [key |-> 0, exists |-> TRUE, safe |-> IF @.exists THEN @.safe ELSE host = "private-umask"]]
  /\ UNCHANGED <<archive, app, now, certs, advised, load, host>>

OpenPrivate ==
  /\ At("open-private")
  /\ generated' = generated + 1
  /\ task' = [task EXCEPT !.step = "write-private", !.key = generated + 1]
  /\ Open("private")

OpenPublic == At("open-public") /\ Goto("write-public") /\ Open("public") /\ UNCHANGED generated

Write(half) ==
  /\ live' = [live EXCEPT ![half].key = task.key]
  /\ UNCHANGED <<archive, app, generated, now, certs, advised, load, host>>

\* Mutant: the private key gets its mode as soon as it is written.
MutWritePrivate ==
  /\ At("write-private") /\ Goto("open-public")
  /\ live' = [live EXCEPT !["private"] = [key |-> task.key, safe |-> TRUE, exists |-> TRUE]]
  /\ UNCHANGED <<archive, app, generated, now, certs, advised, load, host>>

WritePrivate == At("write-private") /\ Goto("open-public") /\ Write("private")
WritePublic == At("write-public") /\ Goto("chmod") /\ Write("public")

\* The two modes, which are set on posix only, and the end of the call.
Restrict ==
  /\ At("chmod") /\ Goto("none")
  /\ IF Posix
     THEN /\ live' = [live EXCEPT !["private"].safe = TRUE, !["public"].safe = FALSE]
          /\ advised' = FALSE
     ELSE UNCHANGED <<live, advised>>
  /\ app' = IF app = "starting" THEN "up" ELSE app
  /\ UNCHANGED <<archive, generated, now, certs, load, host>>

-----------------------------------------------------------------------------
(* load_keypair, look by look: when the application starts (app is "down")  *)
(* and when a worker of it signs.                                           *)

\* What load_keypair leaves alone.
Untouched == UNCHANGED <<live, archive, generated, now, advised, host>>

\* It raises.  A start goes on to generate a pair if a file was missing, and ends
\* with any other error; a worker signs nothing.
Raise(error) ==
  /\ load' = Idle
  /\ IF app = "down" /\ error = "FileNotFoundError"
     THEN app' = "starting" /\ Begin("open-private")
     ELSE UNCHANGED <<app, task>>
  /\ Untouched /\ UNCHANGED certs

Proceed(step, key) ==
  /\ load' = [load EXCEPT !.step = step, !.private = key]
  /\ Untouched /\ UNCHANGED <<app, task, certs>>

LookForPrivate ==
  /\ app # "starting" /\ load.step = "none"
  /\ IF live["private"].exists
     THEN /\ load' = [step |-> IF Posix THEN "stat" ELSE "read-private", private |-> 0,
                      alone |-> task.step = "none"]
          /\ Untouched /\ UNCHANGED <<app, task, certs>>
     ELSE Raise("FileNotFoundError")

StatPrivate ==
  /\ load.step = "stat"
  /\ \/ ~live["private"].exists /\ Raise("FileNotFoundError")
     \/ live["private"].exists /\ ~live["private"].safe /\ Raise("PermissionError")
     \/ live["private"].safe /\ Proceed("read-private", 0)

\* Mutant: what was read is not parsed.
MutReadPrivate ==
  /\ load.step = "read-private"
  /\ \/ ~live["private"].exists /\ Raise("FileNotFoundError")
     \/ live["private"].exists /\ Proceed("read-public", live["private"].key)

\* An empty file is no key.
ReadPrivate ==
  /\ load.step = "read-private"
  /\ \/ ~live["private"].exists /\ Raise("FileNotFoundError")
     \/ live["private"].exists /\ live["private"].key = 0 /\ Raise("ValueError")
     \/ live["private"].key # 0 /\ Proceed("read-public", live["private"].key)

\* The public key is not parsed.  The start is over, or the worker signs.
ReadPublic ==
  /\ load.step = "read-public"
  /\ IF live["public"].exists
     THEN /\ load' = Idle /\ app' = "up"
          /\ certs' = IF app = "up" THEN certs \cup {load.private} ELSE certs
          /\ Untouched /\ UNCHANGED task
     ELSE Raise("FileNotFoundError")

-----------------------------------------------------------------------------
(* The operator, the ends of processes, and time.                           *)

\* "Fix with: chmod 600".
Chmod ==
  /\ Posix /\ live["private"].exists /\ ~live["private"].safe
  /\ live' = [live EXCEPT !["private"].safe = TRUE]
  /\ advised' = TRUE
  /\ UNCHANGED <<archive, app, task, generated, now, certs, load, host>>

\* The process that generates or rotates is killed.
Kill ==
  /\ task.step # "none" /\ Goto("none")
  /\ app' = IF app = "starting" THEN "down" ELSE app
  /\ UNCHANGED <<live, archive, generated, now, certs, advised, load, host>>

\* The application ends, or is killed while it starts.
Stop ==
  /\ app = "up" \/ load.step # "none"
  /\ app' = "down" /\ load' = Idle
  /\ UNCHANGED <<live, archive, task, generated, now, certs, advised, host>>

Tick ==
  /\ now < MaxTime /\ now' = now + 1
  /\ UNCHANGED <<live, archive, app, task, generated, certs, advised, load, host>>

Next ==
  \/ Rotate \/ ArchivePrivate \/ ArchivePublic
  \/ OpenPrivate \/ WritePrivate \/ OpenPublic \/ WritePublic \/ Restrict
  \/ LookForPrivate \/ StatPrivate \/ ReadPrivate \/ ReadPublic
  \/ Chmod \/ Kill \/ Stop \/ Tick

Spec == Init /\ [][Next]_vars

-----------------------------------------------------------------------------
(* Properties.                                                             *)

\* What can still be read from the store, a public key also from its private one.
Kept == {live[half].key : half \in Halves}
        \cup {archive[t][half].key : t \in 0..MaxTime, half \in Halves}

\* Certificates remain verifiable: through rotations and restarts, each of which
\* may be killed at any step, overlap a load_keypair and be followed by a start that
\* generates keys over what it finds, the key of every certificate stays in the
\* store, on posix and on Windows.
SigningKeySurvives == certs \subseteq Kept

\* A call of load_keypair that no generation or rotation overlaps takes a private
\* key and the public key of the same pair, whatever killed generations and rotations
\* have left: on posix with a umask that lets others read, the mode that is set last
\* keeps it from a private key next to the public key of another pair.  Only who sets
\* the mode by hand, as the error message advises, can make it.  With a umask of 077
\* and on Windows nothing keeps it from that.
LoadedIsPair ==
  host = "posix" /\ ~advised /\ load.alone /\ load.step = "read-public" =>
    live["public"].exists /\ live["public"].key = load.private
=============================================================================
