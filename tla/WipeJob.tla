------------------------------ MODULE WipeJob ------------------------------
(***************************************************************************)
(* A batch of wipes as the desktop application runs it: the target list     *)
(* and the buttons of UIController, the thread WipeWorker with its pipeline *)
(* per target (scan, hash, wipe, hash, certificate), and the signals that   *)
(* carry certificates and ends back to the event loop.                      *)
(*                                                                         *)
(* A target names a file (perhaps by a link, which the scanner resolves), a *)
(* folder or something else; files are numbered in the order of their       *)
(* paths, which is the order in which the children of a folder are wiped.   *)
(* Other programs write and remove files at any moment.  The wipe of one    *)
(* file is one step with the outcomes of WipeEngine.                        *)
(***************************************************************************)
EXTENDS Compliance, Naturals, Sequences, FiniteSets

CONSTANTS
  Files,        \* the files in question, numbered in path order
  Targets,      \* paths the operator can add
  Kind,         \* what each of them resolves to: "file", "folder", "other"
  Under,        \* the files it stands for
  Drive,        \* the drive that df names for it
  Standards,    \* what the operator can choose
  MaxTargets,   \* bound: targets in the list
  MaxBatches,   \* bound: batches that are started
  MaxChanges    \* bound: what other programs write and remove

ASSUME FilesAssumption == Files \subseteq Nat
ASSUME TargetAssumption ==
  /\ Kind \in [Targets -> {"file", "folder", "other"}]
  /\ Under \in [Targets -> SUBSET Files]
  /\ \A t \in Targets : Kind[t] = "file" => \E f \in Files : Under[t] = {f}
  /\ Drive \in [Targets -> [kind : {"nvme", "disk", "mapped", "unreadable"}, rotational : BOOLEAN]]
ASSUME ChoiceAssumption ==
  /\ Standards \subseteq WipeStandards
  /\ MaxTargets \in Nat /\ MaxBatches \in Nat /\ MaxChanges \in Nat

VARIABLES
  content,   \* of each file: "absent", "data" or "erased"
  changes,   \* how often other programs have changed that
  ui,        \* the target list, the two buttons, and what the event loop is in:
             \* "idle", wait(3000) of a cancellation, or the dialog of a failure
  workers,   \* the worker of each batch, in the order of their start
  signals,   \* signals emitted and not yet delivered
  certs,     \* UIController._certificates
  ended      \* per batch: which of WIPE_FAILED and WIPE_COMPLETED were logged

vars == <<content, changes, ui, workers, signals, certs, ended>>

Batches == 1..MaxBatches
Steps == {"scan", "hash", "wipe", "rehash", "issue", "end", "gone"}

Certificates ==
  [batch : Batches, position : Nat \ {0}, target : Targets, standard : Standards,
   verified : BOOLEAN, missed : SUBSET Files,
   wiped : SUBSET Files,        \* what was overwritten for it
   claims : SUBSET UNION {Table[s] \cup {"SOC2_CC6_5"} : s \in WipeStandards}]

Workers ==
  [pc : Steps, standard : Standards, targets : Seq(Targets), idx : Nat \ {0},
   children : SUBSET Files, left : SUBSET Files, verified : BOOLEAN,
   unseen : SUBSET Files,       \* in the target, and not seen by its scan
   missed : SUBSET Files,       \* seen, and hashed after the wipe with data in it
   uncertified : SUBSET Files,  \* overwritten, and in no certificate so far
   terminated : BOOLEAN,
   outlived : BOOLEAN]          \* still running when the wait for it timed out

Signals == [type : {"completed", "failed", "finished"}, batch : Batches,
            cert : SUBSET Certificates]

TypeOK ==
  /\ content \in [Files -> {"absent", "data", "erased"}] /\ changes \in 0..MaxChanges
  /\ ui \in [targets : Seq(Targets), start : BOOLEAN, cancel : BOOLEAN,
            loop : {"idle", "wait", "dialog"}]
  /\ workers \in Seq(Workers) /\ Len(workers) <= MaxBatches
  /\ \A i \in DOMAIN signals : signals[i] \in Signals
  /\ certs \subseteq Certificates
  /\ ended \in [Batches -> SUBSET {"failed", "completed"}]

Init ==
  /\ content \in [Files -> {"absent", "data"}] /\ changes = 0
  /\ ui = [targets |-> << >>, start |-> TRUE, cancel |-> FALSE, loop |-> "idle"]
  /\ workers = << >>
  /\ signals = << >>
  /\ certs = {}
  /\ ended = [b \in Batches |-> {}]

\* /sys/block has an entry for a disk and, digits cut off, its partitions; what
\* has none there (a mapped device, a card's partition) passes for rotational.
DeviceType(drive) ==
  CASE drive.kind = "unreadable" -> "unknown"
    [] drive.kind = "nvme" -> "NVMe"
    [] drive.kind = "disk" /\ ~drive.rotational -> "SSD"
    [] OTHER -> "HDD"

Media(t) == DeviceType(Drive[t])

Running(b) == workers[b].pc # "gone"
Current == Len(workers)
Elements(s) == {s[i] : i \in DOMAIN s}
Holding(t) == {f \in Under[t] : content[f] = "data"}

-----------------------------------------------------------------------------
(* The operator and the event loop.  Handlers run to their end, except that  *)
(* cancelling waits for the thread.                                          *)

AddTarget(t) ==
  /\ ui.loop = "idle"
  /\ t \notin Elements(ui.targets) /\ Len(ui.targets) < MaxTargets
  /\ ui' = [ui EXCEPT !.targets = Append(@, t)]
  /\ UNCHANGED <<content, changes, workers, signals, certs, ended>>

RemoveTarget(t) ==
  /\ ui.loop = "idle"
  /\ \E i \in DOMAIN ui.targets :
       /\ ui.targets[i] = t
       /\ ui' = [ui EXCEPT !.targets = SubSeq(@, 1, i - 1) \o SubSeq(@, i + 1, Len(@))]
  /\ UNCHANGED <<content, changes, workers, signals, certs, ended>>

NewWorker(standard, targets) ==
  [pc |-> "scan", standard |-> standard, targets |-> targets, idx |-> 1,
   children |-> {}, left |-> {}, verified |-> TRUE, unseen |-> {},
   missed |-> {}, uncertified |-> {}, terminated |-> FALSE, outlived |-> FALSE]

\* The worker gets a copy of the list.  The event loop runs while the operator
\* confirms, so what was emitted before has been delivered.
StartWipe(standard) ==
  /\ ui.loop = "idle" /\ ui.start /\ ui.targets # << >>
  /\ signals = << >>
  /\ Len(workers) < MaxBatches
  /\ ui' = [ui EXCEPT !.start = FALSE, !.cancel = TRUE]
  /\ workers' = Append(workers, NewWorker(standard, ui.targets))
  /\ UNCHANGED <<content, changes, signals, certs, ended>>

CancelWipe ==
  /\ ui.loop = "idle" /\ ui.cancel
  /\ IF Running(Current)
     THEN /\ workers' = [workers EXCEPT ![Current].terminated = TRUE]
          /\ ui' = [ui EXCEPT !.loop = "wait"]
     ELSE /\ ui' = [ui EXCEPT !.start = TRUE, !.cancel = FALSE]
          /\ UNCHANGED workers
  /\ UNCHANGED <<content, changes, signals, certs, ended>>

\* wait(3000) returns when the thread has ended, or after three seconds; which
\* of the two, the handler does not ask.
CancelReturns ==
  /\ ui.loop = "wait"
  /\ ui' = [ui EXCEPT !.loop = "idle", !.start = TRUE, !.cancel = FALSE]
  /\ ended' = [ended EXCEPT ![Current] = @ \cup {"failed"}]
  /\ workers' = [workers EXCEPT ![Current].outlived = @ \/ Running(Current)]
  /\ UNCHANGED <<content, changes, signals, certs>>

\* Mutant: the buttons are left to a handler of the failure.
MutDeliver ==
  /\ ui.loop # "wait" /\ signals # << >>
  /\ LET s == Head(signals) IN
     /\ certs' = certs \cup s.cert
     /\ ended' = IF s.type = "finished" /\ ui.loop = "idle"
                 THEN [ended EXCEPT ![s.batch] = @ \cup {"completed"}] ELSE ended
     /\ ui' = CASE s.type = "failed" -> [ui EXCEPT !.loop = "dialog"]
                [] s.type = "finished" -> [ui EXCEPT !.start = TRUE, !.cancel = FALSE]
                [] OTHER -> ui
  /\ signals' = Tail(signals)
  /\ UNCHANGED <<content, changes, workers>>

\* Mutant: the start button comes back with the failure.
MutDeliverFailed ==
  /\ ui.loop # "wait" /\ signals # << >>
  /\ LET s == Head(signals) IN
     /\ certs' = certs \cup s.cert
     /\ ended' = IF s.type = "finished"
                 THEN [ended EXCEPT ![s.batch] = @ \cup {"completed"}] ELSE ended
     /\ ui' = CASE s.type = "failed" -> [ui EXCEPT !.loop = "dialog", !.start = TRUE]
                [] s.type = "finished" -> [ui EXCEPT !.start = TRUE, !.cancel = FALSE]
                [] OTHER -> ui
  /\ signals' = Tail(signals)
  /\ UNCHANGED <<content, changes, workers>>

\* _on_cert_received, _on_wipe_failed up to its dialog, whose own event loop
\* goes on delivering, and _on_wipe_finished, which is called for a worker that
\* failed or was terminated, too.
Deliver ==
  /\ ui.loop # "wait" /\ signals # << >>
  /\ LET s == Head(signals) IN
     /\ certs' = certs \cup s.cert
     /\ ended' = IF s.type = "finished"
                 THEN [ended EXCEPT ![s.batch] = @ \cup {"completed"}] ELSE ended
     /\ ui' = CASE s.type = "failed" -> [ui EXCEPT !.loop = "dialog"]
                [] s.type = "finished" -> [ui EXCEPT !.start = TRUE, !.cancel = FALSE]
                [] OTHER -> ui
  /\ signals' = Tail(signals)
  /\ UNCHANGED <<content, changes, workers>>

\* The operator closes the dialog, and only then the failure is logged.
Acknowledge ==
  /\ ui.loop = "dialog"
  /\ ui' = [ui EXCEPT !.loop = "idle"]
  /\ ended' = [ended EXCEPT ![Current] = @ \cup {"failed"}]
  /\ UNCHANGED <<content, changes, workers, signals, certs>>

-----------------------------------------------------------------------------
(* The thread of batch b.                                                    *)

Target(b) == workers[b].targets[workers[b].idx]
At(b, step) == workers[b].pc = step
Become(b, w) == workers' = [workers EXCEPT ![b] = w]

Emit(b, type, cert) == signals' = Append(signals, [type |-> type, batch |-> b, cert |-> cert])

\* The for loop goes on to its next target, or the thread to its end.
NextTarget(w) ==
  [w EXCEPT !.idx = @ + 1, !.pc = IF w.idx < Len(w.targets) THEN "scan" ELSE "end",
            !.verified = TRUE, !.children = {}, !.left = {}, !.unseen = {}, !.missed = {}]

\* What a folder is scanned for: its files but those that cannot be examined.
ScanFound(t) == {seen \in SUBSET Under[t] :
                   /\ \A f \in seen : content[f] # "absent"
                   /\ Kind[t] = "file" => seen = Under[t]}

\* Something without entries is passed over.
Scan(b) ==
  /\ At(b, "scan")
  /\ IF Kind[Target(b)] = "other" THEN Become(b, NextTarget(workers[b]))
     ELSE \E seen \in ScanFound(Target(b)) :
            Become(b, [workers[b] EXCEPT !.pc = "hash", !.children = seen, !.left = seen,
                                         !.unseen = Under[Target(b)] \ seen])
  /\ UNCHANGED <<content, changes, ui, signals, certs, ended>>

\* hash_file raises for a missing file, hash_directory takes what is there.
Hashable(t) == Kind[t] = "file" => \A f \in Under[t] : content[f] # "absent"

HashBefore(b) ==
  /\ At(b, "hash") /\ Hashable(Target(b))
  /\ Become(b, [workers[b] EXCEPT !.pc = IF workers[b].left = {} THEN "rehash" ELSE "wipe"])
  /\ UNCHANGED <<content, changes, ui, signals, certs, ended>>

\* Mutant: the last file decides whether the folder is verified.
MutWiped(w, f, verified) ==
  [w EXCEPT !.left = @ \ {f}, !.verified = verified,
            !.pc = IF w.left = {f} THEN "rehash" ELSE "wipe"]

\* The result of one wipe is added to that of the target.
Wiped(w, f, verified) ==
  [w EXCEPT !.left = @ \ {f}, !.verified = @ /\ verified,
            !.pc = IF w.left = {f} THEN "rehash" ELSE "wipe"]

\* Mutant: a standard without passes falls back to zeros.
MutOverwrites == WipeStandards

\* _STANDARD_PASSES has no entry for Purge, which is a hardware command.
Overwrites == WipeStandards \ {"NIST_800_88_PURGE"}

\* The next child in order: overwritten and verified, or with errors in some
\* pass, after which it may or may not hold its data.  For a standard without
\* passes the wipe raises a KeyError.
WipeFile(b) ==
  /\ At(b, "wipe") /\ workers[b].standard \in Overwrites
  /\ \E f \in workers[b].left, verified, erased \in BOOLEAN :
       /\ \A g \in workers[b].left : f <= g
       /\ content[f] # "absent"
       /\ verified => erased
       /\ content' = IF erased THEN [content EXCEPT ![f] = "erased"] ELSE content
       /\ LET w == Wiped(workers[b], f, verified) IN
          Become(b, [w EXCEPT !.uncertified = IF erased THEN @ \cup {f} ELSE @])
  /\ UNCHANGED <<changes, ui, signals, certs, ended>>

HashAfter(b) ==
  /\ At(b, "rehash") /\ Hashable(Target(b))
  /\ Become(b, [workers[b] EXCEPT !.pc = "issue", !.left = {}, !.unseen = {},
                                   !.missed = Holding(Target(b)) \ workers[b].unseen])
  /\ UNCHANGED <<content, changes, ui, signals, certs, ended>>

\* Mutant: chain_position counts from zero.
MutBuild(b, w) ==
  [batch |-> b, position |-> w.idx - 1, target |-> Target(b), standard |-> w.standard,
   verified |-> w.verified, missed |-> w.missed, wiped |-> w.children,
   claims |-> Satisfied(Map(w.standard, Media(Target(b)), "none"))]

\* The certificate; the claims do not depend on `verified', and no previous
\* certificate is passed, so that every one of a batch starts a chain.
Build(b, w) ==
  [batch |-> b, position |-> w.idx, target |-> Target(b), standard |-> w.standard,
   verified |-> w.verified, missed |-> w.missed, wiped |-> w.children,
   claims |-> Satisfied(Map(w.standard, Media(Target(b)), "none"))]

\* Mutant: only a verified wipe is certified.
MutIssue(b) ==
  /\ At(b, "issue")
  /\ LET w == workers[b] IN
     IF w.verified
     THEN /\ Emit(b, "completed", {Build(b, w)})
          /\ Become(b, NextTarget([w EXCEPT !.uncertified = @ \ w.children]))
     ELSE /\ Become(b, NextTarget(w))
          /\ UNCHANGED signals
  /\ UNCHANGED <<content, changes, ui, certs, ended>>

\* Map, build, load the key, sign and emit.
Issue(b) ==
  /\ At(b, "issue")
  /\ LET w == workers[b] IN
     /\ Emit(b, "completed", {Build(b, w)})
     /\ Become(b, NextTarget([w EXCEPT !.uncertified = @ \ w.children]))
  /\ UNCHANGED <<content, changes, ui, certs, ended>>

\* Mutant: what fails is passed over.
MutRaise(b) ==
  /\ workers[b].pc \in {"scan", "hash", "wipe", "rehash", "issue"}
  /\ Become(b, NextTarget(workers[b]))
  /\ UNCHANGED <<content, changes, ui, signals, certs, ended>>

\* Any step may fail: a path that is gone, a file that cannot be read, a key
\* that cannot be loaded.  The rest of the batch is not done.
Raise(b) ==
  /\ workers[b].pc \in {"scan", "hash", "wipe", "rehash", "issue"}
  /\ Become(b, [workers[b] EXCEPT !.pc = "end"])
  /\ Emit(b, "failed", {})
  /\ UNCHANGED <<content, changes, ui, certs, ended>>

\* run returns; Qt emits finished, as it does for a thread that is terminated.
End(b) ==
  /\ At(b, "end") \/ (workers[b].terminated /\ Running(b))
  /\ Become(b, [workers[b] EXCEPT !.pc = "gone", !.left = {}, !.unseen = {}, !.missed = {}])
  /\ Emit(b, "finished", {})
  /\ UNCHANGED <<content, changes, ui, certs, ended>>

-----------------------------------------------------------------------------
(* Other programs.                                                           *)

\* A file is created, or filled again: the scans made so far know nothing of it.
OtherWrites(f) ==
  /\ content[f] # "data"
  /\ changes < MaxChanges /\ changes' = changes + 1
  /\ content' = [content EXCEPT ![f] = "data"]
  /\ workers' = [b \in DOMAIN workers |->
       [workers[b] EXCEPT !.unseen =
          IF workers[b].pc \in {"hash", "wipe", "rehash"} /\ f \in Under[Target(b)]
          THEN @ \cup {f} ELSE @]]
  /\ UNCHANGED <<ui, signals, certs, ended>>

OtherRemoves(f) ==
  /\ content[f] # "absent"
  /\ changes < MaxChanges /\ changes' = changes + 1
  /\ content' = [content EXCEPT ![f] = "absent"]
  /\ UNCHANGED <<ui, workers, signals, certs, ended>>

-----------------------------------------------------------------------------
WorkerStep(b) ==
  Scan(b) \/ HashBefore(b) \/ WipeFile(b) \/ HashAfter(b) \/ Issue(b) \/ Raise(b) \/ End(b)

Next ==
  \/ \E t \in Targets : AddTarget(t) \/ RemoveTarget(t)
  \/ \E s \in Standards : StartWipe(s)
  \/ CancelWipe \/ CancelReturns \/ Deliver \/ Acknowledge
  \/ \E b \in DOMAIN workers : WorkerStep(b)
  \/ \E f \in Files : OtherWrites(f) \/ OtherRemoves(f)

Spec == Init /\ [][Next]_vars

\* Threads run, wait returns, the event loop delivers what was posted; nothing
\* makes the operator or another program act.
FairSpec ==
  /\ Spec
  /\ \A b \in Batches : WF_vars(b \in DOMAIN workers /\ WorkerStep(b))
  /\ WF_vars(CancelReturns) /\ WF_vars(Deliver)

-----------------------------------------------------------------------------
(* Properties.                                                             *)

\* A second batch runs beside another only through a cancelled thread that the
\* three seconds of its wait were not enough for, and never more of them than
\* there were such threads: not by any order of clicks, failures, dialogs and
\* ends, although the late end of such a thread gives back the start button
\* while the batch after it runs.
OneWorker ==
  Cardinality({b \in DOMAIN workers : Running(b)})
    <= 1 + Cardinality({b \in DOMAIN workers : workers[b].outlived})

\* However a batch ends (failure, cancellation, a thread that dies anywhere),
\* what it has overwritten without a certificate belongs to one target, the
\* one it was working on.
UncertifiedIsCurrent ==
  \A b \in DOMAIN workers : workers[b].uncertified \subseteq workers[b].children

\* When a verified certificate was made out, data was left in its target only
\* where the scan had not seen it: in files that other programs have written
\* since, or that could not be examined.
UnwipedIsUnseen == \A c \in certs : c.verified => c.missed = {}

\* Until a wait has timed out: a batch that is logged as completed and not as
\* failed (or about to be, once the dialog is closed) has a certificate, with its
\* place in the chain, for each of its targets but those without entries.
EndIsAccounted ==
  (\A b \in DOMAIN workers : ~workers[b].outlived) =>
    \A b \in DOMAIN workers : ended[b] = {"completed"} /\ ui.loop # "dialog" =>
      \A i \in DOMAIN workers[b].targets :
        \/ Kind[workers[b].targets[i]] = "other"
        \/ \E c \in certs :
             c.batch = b /\ c.position = i /\ c.target = workers[b].targets[i]

\* Purge is offered like every other standard, but the program overwrites, and
\* only the hardware purges.  What it has overwritten is never certified as
\* purged: the batch fails at its first file, and a certificate that claims Purge
\* is about a folder in which the scan found none.
OverwritingIsNoPurge == \A c \in certs : "NIST_800_88_PURGE" \in c.claims => c.wiped = {}

\* Every batch that is started is reported as ended, by the log and by the
\* button, also when it fails or is cancelled.
BatchEnds == \A b \in Batches : b \in DOMAIN workers ~> "completed" \in ended[b]
=============================================================================
