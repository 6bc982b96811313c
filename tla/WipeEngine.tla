----------------------------- MODULE WipeEngine -----------------------------
(***************************************************************************)
(* The overwriting of one file, SecureWipeEngine.wipe of                    *)
(* desktop/modules/secure_wipe_engine.py.                                   *)
(*                                                                         *)
(* Several threads (Wipers) may wipe the same file, since a cancelled       *)
(* worker that does not stop in time goes on next to its successor; other   *)
(* programs change, cut, extend, replace or remove the file meanwhile.  The *)
(* path is opened anew for every pass and for every read-back, so what it   *)
(* names can differ from one to the next: files are numbered (inodes), and  *)
(* an open descriptor keeps its file when the path is given to another.     *)
(*                                                                         *)
(* The unit of data is a cell; a cell holds the name of what was written    *)
(* there last: original data, another program's, or a pattern's.            *)
(***************************************************************************)
EXTENDS Naturals, Sequences

CONSTANTS
  Wipers,        \* threads inside wipe
  Paths,         \* the paths a caller may name the file by
  Links,         \* those that are symbolic links to it
  Passes,        \* the pass sequence of the standard, as pass labels
  Random,        \* the label of a pass of random data
  Zero,          \* the label of 0x00, what a hole in a file reads as
  SingleByte,    \* the labels of patterns of one byte
  MultiByte,     \* the labels of longer patterns
  FileSize,      \* cells of the file at first
  BufferSize,    \* cells written or read at a time
  ShortWrites,   \* may os.write write less than it was given?
  Interference,  \* what other programs do to the file
  MaxErrors,     \* bound: OSErrors a wiper meets, a missing file apart
  MaxChanges     \* bound: changes by other programs

Labels == SingleByte \cup MultiByte \cup {Random}

ASSUME PathAssumption == Links \subseteq Paths
ASSUME PassAssumption ==
  /\ Passes \in Seq(Labels) /\ Passes # <<>>
  /\ Zero \in SingleByte
  /\ "original" \notin Labels
ASSUME SizeAssumption == FileSize \in Nat /\ BufferSize \in Nat \ {0}
ASSUME BoundsAssumption == MaxErrors \in Nat /\ MaxChanges \in Nat
ASSUME FaultAssumption ==
  /\ ShortWrites \in BOOLEAN
  /\ Interference \subseteq {"overwrite", "extend", "truncate", "replace", "remove"}

VARIABLES
  named,      \* the file the path names (0: none)
  content,    \* cells of each file
  pc,         \* where a wiper is
  path,       \* the path it was given
  size,       \* file_size, read once
  passNum,    \* pass_num
  fd,         \* the file it has open
  offset,     \* position in that file
  written,    \* bytes_written
  touched,    \* cells written in this pass
  detail,     \* result.pass_detail
  verified,   \* result.verified
  errors,     \* OSErrors a wiper has met
  changes     \* changes by other programs so far

fileVars == <<named, content>>
callVars == <<path, size>>
ioVars == <<fd, offset, written, touched>>
resultVars == <<passNum, detail, verified>>
vars == <<fileVars, pc, callVars, ioVars, resultVars, errors, changes>>

Inodes == 1..MaxChanges + 1
Cell == Labels \cup {"original", "other"}
PassDetail == [verified : BOOLEAN, error : BOOLEAN, touched : SUBSET Nat]
Steps == {"idle", "open", "write", "verify", "read", "done", "raised"}

TypeOK ==
  /\ named \in Inodes \cup {0}
  /\ content \in [Inodes -> Seq(Cell)]
  /\ pc \in [Wipers -> Steps]
  /\ path \in [Wipers -> Paths]
  /\ size \in [Wipers -> Nat]
  /\ passNum \in [Wipers -> 1..Len(Passes)]
  /\ fd \in [Wipers -> Inodes]
  /\ offset \in [Wipers -> Nat]
  /\ written \in [Wipers -> Nat]
  /\ touched \in [Wipers -> SUBSET Nat]
  /\ detail \in [Wipers -> Seq(PassDetail)]
  /\ verified \in [Wipers -> BOOLEAN]
  /\ errors \in [Wipers -> Nat]
  /\ changes \in 0..MaxChanges

Init ==
  /\ named = 1
  /\ content = [n \in Inodes |-> IF n = 1 THEN [i \in 1..FileSize |-> "original"] ELSE <<>>]
  /\ pc = [w \in Wipers |-> "idle"]
  /\ path \in [Wipers -> Paths]
  /\ size = [w \in Wipers |-> 0]
  /\ passNum = [w \in Wipers |-> 1]
  /\ fd = [w \in Wipers |-> 1]
  /\ offset = [w \in Wipers |-> 0]
  /\ written = [w \in Wipers |-> 0]
  /\ touched = [w \in Wipers |-> {}]
  /\ detail = [w \in Wipers |-> <<>>]
  /\ verified = [w \in Wipers |-> FALSE]
  /\ errors = [w \in Wipers |-> 0]
  /\ changes = 0

Goto(w, step) == pc' = [pc EXCEPT ![w] = step]
Lesser(a, b) == IF a <= b THEN a ELSE b

-----------------------------------------------------------------------------
(* wipe: the checks before the first pass.                                 *)

\* resolve() comes first, so what exists(), is_symlink() and stat() look at is
\* the file behind the link.
Resolved(p) == p \notin Links
IsSymlink(p) == ~Resolved(p)
AfterResolve(p) == IF IsSymlink(p) THEN CHOOSE q \in Paths : Resolved(q) ELSE p

StartWipe(w) ==
  /\ pc[w] = "idle"
  /\ named # 0 /\ ~IsSymlink(AfterResolve(path[w]))
  /\ size' = [size EXCEPT ![w] = Len(content[named])]
  /\ Goto(w, "open")
  /\ UNCHANGED <<fileVars, path, ioVars, resultVars, errors, changes>>

\* FileNotFoundError, or ValueError for a link.
RefuseWipe(w) ==
  /\ pc[w] = "idle"
  /\ named = 0 \/ IsSymlink(AfterResolve(path[w]))
  /\ Goto(w, "raised")
  /\ UNCHANGED <<fileVars, callVars, ioVars, resultVars, errors, changes>>

-----------------------------------------------------------------------------
(* The loop over the passes: what a pass leaves in the result.             *)

CloseFile(w) ==
  /\ fd' = [fd EXCEPT ![w] = 1]
  /\ offset' = [offset EXCEPT ![w] = 0]
  /\ written' = [written EXCEPT ![w] = 0]
  /\ touched' = [touched EXCEPT ![w] = {}]

\* Mutant: one pass too many.
MutPassEndsLate(w, ok, error) ==
  /\ detail' = [detail EXCEPT ![w] =
       Append(@, [verified |-> ok, error |-> error, touched |-> touched[w]])]
  /\ passNum' = [passNum EXCEPT ![w] = @ + 1]
  /\ Goto(w, IF passNum[w] <= Len(Passes) THEN "open" ELSE "done")
  /\ UNCHANGED verified
  /\ CloseFile(w)

\* Mutant: the last pass alone decides.
MutPassEndsLast(w, ok, error) ==
  /\ detail' = [detail EXCEPT ![w] =
       Append(@, [verified |-> ok, error |-> error, touched |-> touched[w]])]
  /\ IF passNum[w] < Len(Passes)
     THEN /\ passNum' = [passNum EXCEPT ![w] = @ + 1]
          /\ Goto(w, "open")
          /\ UNCHANGED verified
     ELSE /\ verified' = [verified EXCEPT ![w] = ok]
          /\ Goto(w, "done")
          /\ UNCHANGED passNum
  /\ CloseFile(w)

\* A pass that raised is recorded, the ones after it are made all the same.
PassEnds(w, ok, error) ==
  /\ detail' = [detail EXCEPT ![w] =
       Append(@, [verified |-> ok, error |-> error, touched |-> touched[w]])]
  /\ IF passNum[w] < Len(Passes)
     THEN /\ passNum' = [passNum EXCEPT ![w] = @ + 1]
          /\ Goto(w, "open")
          /\ UNCHANGED verified
     ELSE /\ verified' = [verified EXCEPT ![w] =
               \A i \in 1..Len(detail'[w]) : detail'[w][i].verified /\ ~detail'[w][i].error]
          /\ Goto(w, "done")
          /\ UNCHANGED passNum
  /\ CloseFile(w)

Error(w) == errors' = [errors EXCEPT ![w] = @ + 1]

-----------------------------------------------------------------------------
(* _execute_pass.                                                          *)

OpenFile(w) ==
  /\ pc[w] = "open" /\ named # 0
  /\ fd' = [fd EXCEPT ![w] = named]
  /\ Goto(w, "write")
  /\ UNCHANGED <<fileVars, callVars, offset, written, touched, resultVars, errors, changes>>

OpenFails(w) ==
  /\ pc[w] = "open" /\ named = 0
  /\ Error(w)
  /\ PassEnds(w, FALSE, TRUE)
  /\ UNCHANGED <<fileVars, callVars, changes>>

\* Mutant: the last chunk is as long as the others.
MutChunkSize(w) == BufferSize

ChunkSize(w) == Lesser(BufferSize, size[w] - written[w])

\* n cells of data from position p on; a gap before them reads as zeros.
Overwrite(f, p, n, data) ==
  [i \in 1..(IF Len(f) > p + n THEN Len(f) ELSE p + n) |->
     IF i \in p + 1..p + n THEN data ELSE IF i <= Len(f) THEN f[i] ELSE Zero]

\* os.write moves on by what it wrote, bytes_written by what it was given.
WriteChunk(w, n) ==
  /\ pc[w] = "write" /\ written[w] < size[w]
  /\ n = ChunkSize(w) \/ (ShortWrites /\ n \in 1..ChunkSize(w))
  /\ content' = [content EXCEPT ![fd[w]] = Overwrite(@, offset[w], n, Passes[passNum[w]])]
  /\ offset' = [offset EXCEPT ![w] = @ + n]
  /\ written' = [written EXCEPT ![w] = @ + ChunkSize(w)]
  /\ touched' = [touched EXCEPT ![w] = @ \cup (offset[w] + 1..offset[w] + n)]
  /\ UNCHANGED <<named, pc, callVars, fd, resultVars, errors, changes>>

\* Mutant: no pass is read back.
MutSyncUnread(w) ==
  /\ pc[w] = "write" /\ written[w] >= size[w]
  /\ PassEnds(w, TRUE, FALSE)
  /\ UNCHANGED <<fileVars, callVars, errors, changes>>

\* Mutant: the last chunk is left out when it is shorter than the buffer.
MutSyncEarly(w) ==
  /\ pc[w] = "write" /\ written[w] + BufferSize > size[w]
  /\ IF Passes[passNum[w]] \in SingleByte
     THEN Goto(w, "verify") /\ UNCHANGED <<ioVars, resultVars>>
     ELSE PassEnds(w, TRUE, FALSE)
  /\ UNCHANGED <<fileVars, callVars, errors, changes>>

\* fsync and close; only patterns of one byte are read back.
SyncFile(w) ==
  /\ pc[w] = "write" /\ written[w] >= size[w]
  /\ IF Passes[passNum[w]] \in SingleByte
     THEN Goto(w, "verify") /\ UNCHANGED <<ioVars, resultVars>>
     ELSE PassEnds(w, TRUE, FALSE)
  /\ UNCHANGED <<fileVars, callVars, errors, changes>>

\* open, write or fsync raises OSError.
PassRaises(w) ==
  /\ pc[w] \in {"open", "write"} /\ errors[w] < MaxErrors
  /\ Error(w)
  /\ PassEnds(w, FALSE, TRUE)
  /\ UNCHANGED <<fileVars, callVars, changes>>

-----------------------------------------------------------------------------
(* _verify_pass.                                                           *)

OpenToVerify(w) ==
  /\ pc[w] = "verify" /\ named # 0
  /\ fd' = [fd EXCEPT ![w] = named]
  /\ offset' = [offset EXCEPT ![w] = 0]    \* a descriptor of its own
  /\ Goto(w, "read")
  /\ UNCHANGED <<fileVars, callVars, written, touched, resultVars, errors, changes>>

\* The cells the next read returns.
Chunk(w) ==
  SubSeq(content[fd[w]], offset[w] + 1, Lesser(offset[w] + BufferSize, Len(content[fd[w]])))
Matches(w) == \A i \in 1..Len(Chunk(w)) : Chunk(w)[i] = Passes[passNum[w]]

\* Mutant: every read starts at the beginning.
MutReadChunk(w) == pc[w] = "read" /\ Chunk(w) # <<>> /\ Matches(w) /\ UNCHANGED vars

ReadChunk(w) ==
  /\ pc[w] = "read" /\ Chunk(w) # <<>> /\ Matches(w)
  /\ offset' = [offset EXCEPT ![w] = @ + Len(Chunk(w))]
  /\ UNCHANGED <<fileVars, pc, callVars, fd, written, touched, resultVars, errors, changes>>

\* The end of the file, or a byte that differs.
ReadEnds(w) ==
  /\ pc[w] = "read" /\ (Chunk(w) = <<>> \/ ~Matches(w))
  /\ PassEnds(w, Matches(w), FALSE)
  /\ UNCHANGED <<fileVars, callVars, errors, changes>>

\* An OSError of the read-back counts as a mismatch.
VerifyRaises(w) ==
  /\ \/ pc[w] = "verify" /\ named = 0
     \/ pc[w] \in {"verify", "read"} /\ errors[w] < MaxErrors
  /\ Error(w)
  /\ PassEnds(w, FALSE, FALSE)
  /\ UNCHANGED <<fileVars, callVars, changes>>

-----------------------------------------------------------------------------
(* Other programs.                                                         *)

Change(kind) ==
  /\ kind \in Interference /\ changes < MaxChanges /\ named # 0
  /\ changes' = changes + 1
  /\ UNCHANGED <<pc, callVars, ioVars, resultVars, errors>>

OverwriteCell(i) ==
  /\ Change("overwrite")
  /\ content' = [content EXCEPT ![named][i] = "other"]
  /\ UNCHANGED named
Extend ==
  /\ Change("extend")
  /\ content' = [content EXCEPT ![named] = Append(@, "other")]
  /\ UNCHANGED named
Truncate(n) ==
  /\ Change("truncate")
  /\ content' = [content EXCEPT ![named] = SubSeq(@, 1, n)]
  /\ UNCHANGED named
\* A new file takes over the name; the old one lives on in open descriptors.
Replace ==
  /\ Change("replace")
  /\ named' = changes' + 1
  /\ content' = [content EXCEPT ![changes' + 1] = <<"other">>]
Remove ==
  /\ Change("remove")
  /\ named' = 0
  /\ UNCHANGED content

-----------------------------------------------------------------------------
WipeStep(w) ==
  \/ StartWipe(w) \/ RefuseWipe(w) \/ OpenFile(w) \/ OpenFails(w)
  \/ \E n \in 1..BufferSize : WriteChunk(w, n)
  \/ SyncFile(w) \/ OpenToVerify(w) \/ ReadChunk(w) \/ ReadEnds(w)
ErrorStep(w) == PassRaises(w) \/ VerifyRaises(w)
OtherStep ==
  \/ \E i \in 1..(IF named = 0 THEN 0 ELSE Len(content[named])) : OverwriteCell(i) \/ Truncate(i - 1)
  \/ Extend \/ Replace \/ Remove

Next == OtherStep \/ \E w \in Wipers : WipeStep(w) \/ ErrorStep(w)

Spec == Init /\ [][Next]_vars

\* A thread inside wipe keeps running.
FairSpec == Spec /\ \A w \in Wipers : WF_vars(WipeStep(w) \/ ErrorStep(w))

-----------------------------------------------------------------------------
(* Properties.                                                             *)

\* When a wipe ends as verified, nothing of the original data can be read under
\* the file's path any more, whatever other wipers and other programs do and
\* however many writes are cut short.
VerifiedMeansErased ==
  \A w \in Wipers : verified[w] /\ named # 0 =>
    \A i \in 1..Len(content[named]) : content[named][i] # "original"

\* A pass that is recorded as verified has written every cell the file had when
\* the wipe began, in chunks that do not divide its size, too.
VerifiedPassesCover ==
  \A w \in Wipers : \A k \in 1..Len(detail[w]) :
    detail[w][k].verified => 1..size[w] \subseteq detail[w][k].touched

\* One wiper and no change by another program: after a verified wipe the file is
\* full of the last pass's data, and as long as before.
LastPassRemains ==
  \A w \in Wipers : verified[w] /\ changes = 0 =>
    content[named] = [i \in 1..FileSize |-> Passes[Len(Passes)]]

\* An OSError in any pass or read-back keeps the wipe from being verified, also
\* when all later passes succeed.
ErrorsNeverVerified == \A w \in Wipers : verified[w] => errors[w] = 0

\* wipe comes to an end, whatever happens to the file meanwhile.
WipeEnds == \A w \in Wipers : pc[w] # "idle" ~> pc[w] \in {"done", "raised"}
=============================================================================
