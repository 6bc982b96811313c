-------------------------- MODULE WipeEngineProofs --------------------------
(***************************************************************************)
(* Proofs about WipeEngine: its type invariant; that a wipe which ends as   *)
(* verified has erased the file, for every pass sequence with a pass that   *)
(* is read back, every file and buffer size, any number of wipers and any   *)
(* interference by other programs; that no error is forgotten; that passes  *)
(* whose writes are not cut short cover the file; and what a wipe that is   *)
(* left alone leaves in it.                                                 *)
(***************************************************************************)
EXTENDS WipeEngine, SequenceTheorems, TLAPS

\* A fact about every wiper's results, wherever it is in wipe.
ResultTypes ==
  /\ pc \in [Wipers -> Steps]
  /\ passNum \in [Wipers -> 1..Len(Passes)]
  /\ fd \in [Wipers -> Inodes]
  /\ offset \in [Wipers -> Nat]
  /\ written \in [Wipers -> Nat]
  /\ touched \in [Wipers -> SUBSET Nat]
  /\ detail \in [Wipers -> Seq(PassDetail)]
  /\ verified \in [Wipers -> BOOLEAN]

\* The end of a pass keeps the types of everything it changes.
LEMMA PassEndsTypes ==
  ASSUME TypeOK, NEW w \in Wipers, NEW ok \in BOOLEAN, NEW error \in BOOLEAN,
         PassEnds(w, ok, error)
  PROVE  ResultTypes'
<1>1. Len(Passes) \in Nat \ {0}
  BY PassAssumption
<1>2. 1 \in Inodes
  BY BoundsAssumption DEF Inodes
<1>3. fd' \in [Wipers -> Inodes] /\ offset' \in [Wipers -> Nat]
      /\ written' \in [Wipers -> Nat] /\ touched' \in [Wipers -> SUBSET Nat]
  BY <1>2 DEF PassEnds, CloseFile, TypeOK
<1>4. [verified |-> ok, error |-> error, touched |-> touched[w]] \in PassDetail
  BY DEF PassDetail, TypeOK
<1>5. detail' \in [Wipers -> Seq(PassDetail)]
  BY <1>4 DEF PassEnds, TypeOK
<1>6. CASE passNum[w] < Len(Passes)
  <2> DEFINE n == Len(Passes)
  <2>1. passNum' \in [Wipers -> 1..Len(Passes)]
    <3>1. passNum' = [passNum EXCEPT ![w] = @ + 1] /\ passNum \in [Wipers -> 1..n]
      BY <1>6 DEF PassEnds, TypeOK
    <3>2. n \in Nat /\ passNum[w] < n
      BY <1>1, <1>6
    <3> HIDE DEF n
    <3>3. passNum' \in [Wipers -> 1..n]
      BY <3>1, <3>2
    <3> QED
      BY <3>3 DEF n
  <2>2. pc' \in [Wipers -> Steps]
    BY <1>6 DEF PassEnds, TypeOK, Goto, Steps
  <2>3. verified' \in [Wipers -> BOOLEAN]
    BY <1>6 DEF PassEnds, TypeOK
  <2> QED
    BY <1>3, <1>5, <2>1, <2>2, <2>3 DEF ResultTypes
<1>7. CASE ~(passNum[w] < Len(Passes))
  <2>1. passNum' \in [Wipers -> 1..Len(Passes)]
    BY <1>7 DEF PassEnds, TypeOK
  <2>2. pc' \in [Wipers -> Steps]
    BY <1>7 DEF PassEnds, TypeOK, Goto, Steps
  <2>3. verified' \in [Wipers -> BOOLEAN]
    <3> DEFINE all == \A i \in 1..Len(detail'[w]) : detail'[w][i].verified /\ ~detail'[w][i].error
    <3>1. verified' = [verified EXCEPT ![w] = all]
      BY <1>7 DEF PassEnds
    <3>2. all \in BOOLEAN
      OBVIOUS
    <3> HIDE DEF all
    <3> QED
      BY <3>1, <3>2 DEF TypeOK
  <2> QED
    BY <1>3, <1>5, <2>1, <2>2, <2>3 DEF ResultTypes
<1> QED
  BY <1>6, <1>7

\* Writing keeps a file a sequence of cells, brings back no original data, and
\* changes only cells of the chunk and of a gap before it.
LEMMA OverwriteCells ==
  ASSUME NEW f \in Seq(Cell), NEW p \in Nat, NEW n \in Nat, NEW data \in Cell
  PROVE  /\ Overwrite(f, p, n, data) \in Seq(Cell)
         /\ data # "original" =>
              \A i \in 1..Len(Overwrite(f, p, n, data)) :
                Overwrite(f, p, n, data)[i] = "original" => i \in 1..Len(f) /\ f[i] = "original"
<1> DEFINE m == IF Len(f) > p + n THEN Len(f) ELSE p + n
           g == Overwrite(f, p, n, data)
<1>1. m \in Nat
  OBVIOUS
<1>2. Zero \in Cell /\ Zero # "original"
  BY PassAssumption DEF Cell, Labels
<1>3. g = [i \in 1..m |-> IF i \in p + 1..p + n THEN data ELSE IF i <= Len(f) THEN f[i] ELSE Zero]
  BY DEF Overwrite
<1> HIDE DEF m, g
<1>4. \A i \in 1..m : i <= Len(f) => f[i] \in Cell
  BY <1>1
<1>5. g \in [1..m -> Cell]
  BY <1>2, <1>3, <1>4
<1>6. g \in Seq(Cell) /\ Len(g) = m
  BY <1>1, <1>5, SMT
<1>7. ASSUME data # "original", NEW i \in 1..m, g[i] = "original"
      PROVE  i \in 1..Len(f) /\ f[i] = "original"
  BY <1>1, <1>2, <1>3, <1>7
<1> QED
  BY <1>6, <1>7 DEF g

\* Initially, everything has its type.
LEMMA InitTypes == Init => TypeOK
<1> SUFFICES ASSUME Init PROVE TypeOK
  OBVIOUS
<1> USE DEF Init
<1>1. 1 \in Inodes /\ Len(Passes) \in Nat \ {0}
  BY BoundsAssumption, PassAssumption DEF Inodes
<1>2. content \in [Inodes -> Seq(Cell)]
  <2>1. [i \in 1..FileSize |-> "original"] \in Seq(Cell)
    <3>1. "original" \in Cell
      BY DEF Cell
    <3> QED
      BY <3>1, SizeAssumption
  <2> QED
    BY <2>1
<1>3. pc \in [Wipers -> Steps] /\ passNum \in [Wipers -> 1..Len(Passes)] /\ fd \in [Wipers -> Inodes]
  BY <1>1 DEF Steps
<1>4. detail \in [Wipers -> Seq(PassDetail)] /\ verified \in [Wipers -> BOOLEAN]
  OBVIOUS
<1>5. /\ size \in [Wipers -> Nat] /\ offset \in [Wipers -> Nat] /\ written \in [Wipers -> Nat]
      /\ touched \in [Wipers -> SUBSET Nat] /\ errors \in [Wipers -> Nat]
  OBVIOUS
<1>6. named \in Inodes /\ changes \in 0..MaxChanges /\ path \in [Wipers -> Paths]
  BY <1>1, BoundsAssumption
<1> QED
  BY <1>2, <1>3, <1>4, <1>5, <1>6 DEF TypeOK

\* A change by another program keeps the types.
LEMMA OtherTypes == TypeOK /\ OtherStep => TypeOK'
<1> SUFFICES ASSUME TypeOK, OtherStep PROVE TypeOK'
  OBVIOUS
<1>1. /\ UNCHANGED <<pc, callVars, ioVars, resultVars, errors>>
      /\ named # 0 /\ changes < MaxChanges /\ changes' = changes + 1
  BY DEF OtherStep, OverwriteCell, Extend, Truncate, Replace, Remove, Change
<1>2. changes' \in 0..MaxChanges /\ changes' + 1 \in Inodes /\ named \in Inodes
  BY <1>1, BoundsAssumption DEF TypeOK, Inodes
<1>3. "other" \in Cell
  BY DEF Cell
<1>4. content[named] \in Seq(Cell)
  BY <1>2 DEF TypeOK
<1>5. content' \in [Inodes -> Seq(Cell)] /\ named' \in Inodes \cup {0}
  <2>1. ASSUME NEW i \in 1..Len(content[named]), OverwriteCell(i) PROVE content' \in [Inodes -> Seq(Cell)] /\ named' \in Inodes \cup {0}
    <3>1. [content[named] EXCEPT ![i] = "other"] \in Seq(Cell)
      BY <1>3, <1>4
    <3> QED
      BY <2>1, <3>1, <1>2 DEF OverwriteCell, TypeOK
  <2>2. ASSUME NEW i \in 1..Len(content[named]), Truncate(i - 1) PROVE content' \in [Inodes -> Seq(Cell)] /\ named' \in Inodes \cup {0}
    <3>1. SubSeq(content[named], 1, i - 1) \in Seq(Cell)
      BY <1>4
    <3> QED
      BY <2>2, <3>1, <1>2 DEF Truncate, TypeOK
  <2>3. CASE Extend
    <3>1. Append(content[named], "other") \in Seq(Cell)
      BY <1>3, <1>4
    <3> QED
      BY <2>3, <3>1, <1>2 DEF Extend, TypeOK
  <2>4. CASE Replace
    <3>1. <<"other">> \in Seq(Cell)
      BY <1>3
    <3> QED
      BY <2>4, <3>1, <1>2 DEF Replace, TypeOK
  <2>5. CASE Remove
    BY <2>5 DEF Remove, TypeOK
  <2>6. CASE \E i \in 1..(IF named = 0 THEN 0 ELSE Len(content[named])) :
               OverwriteCell(i) \/ Truncate(i - 1)
    <3>1. PICK i \in 1..Len(content[named]) : OverwriteCell(i) \/ Truncate(i - 1)
      BY <1>1, <2>6
    <3> QED
      BY <2>1, <2>2, <3>1
  <2> QED
    BY <2>3, <2>4, <2>5, <2>6 DEF OtherStep
<1> QED
  BY <1>1, <1>2, <1>5 DEF TypeOK, callVars, ioVars, resultVars

\* Counting an OSError keeps the type of the counts.
LEMMA ErrorTypes ==
  ASSUME TypeOK, NEW w \in Wipers, Error(w)
  PROVE  errors' \in [Wipers -> Nat]
<1>1. errors \in [Wipers -> Nat] /\ errors[w] + 1 \in Nat
  BY DEF TypeOK
<1> QED
  BY <1>1 DEF Error

\* Every step of a wiper keeps the types.
LEMMA WiperTypes ==
  ASSUME TypeOK, NEW w \in Wipers, WipeStep(w) \/ ErrorStep(w)
  PROVE  TypeOK'
<1>1. passNum[w] \in 1..Len(Passes) /\ Passes[passNum[w]] \in Labels /\ fd[w] \in Inodes
  BY PassAssumption DEF TypeOK
<1>2. /\ size[w] \in Nat /\ written[w] \in Nat /\ offset[w] \in Nat /\ errors[w] \in Nat
      /\ detail[w] \in Seq(PassDetail) /\ touched[w] \subseteq Nat
  BY DEF TypeOK
<1>3. CASE StartWipe(w)
  <2>1. Len(content[named]) \in Nat
    BY <1>3 DEF StartWipe, TypeOK
  <2> QED
    BY <1>3, <2>1 DEF StartWipe, TypeOK, Goto, Steps, fileVars, ioVars, resultVars
<1>4. CASE RefuseWipe(w)
  BY <1>4 DEF RefuseWipe, TypeOK, Goto, Steps, fileVars, callVars, ioVars, resultVars
<1>5. CASE OpenFile(w)
  BY <1>5 DEF OpenFile, TypeOK, Goto, Steps, fileVars, callVars, resultVars
<1>6. CASE OpenFails(w)
  <2>1. ResultTypes'
    BY <1>6, PassEndsTypes DEF OpenFails
  <2>2. errors' \in [Wipers -> Nat]
    BY <1>6, ErrorTypes DEF OpenFails
  <2> QED
    BY <1>6, <2>1, <2>2 DEF OpenFails, TypeOK, ResultTypes, fileVars, callVars
<1>7. ASSUME NEW n \in 1..BufferSize, WriteChunk(w, n) PROVE TypeOK'
  <2>1. n \in Nat /\ ChunkSize(w) \in Nat
    BY <1>2, <1>7, SizeAssumption DEF WriteChunk, ChunkSize, Lesser
  <2>2. Overwrite(content[fd[w]], offset[w], n, Passes[passNum[w]]) \in Seq(Cell)
    BY <1>1, <1>2, <2>1, OverwriteCells DEF TypeOK, Cell
  <2>3. content' \in [Inodes -> Seq(Cell)]
    BY <1>1, <1>7, <2>2 DEF WriteChunk, TypeOK
  <2>4. touched' \in [Wipers -> SUBSET Nat]
    <3>1. offset[w] + 1..offset[w] + n \subseteq Nat
      BY <1>2, <2>1
    <3> QED
      BY <1>2, <1>7, <3>1 DEF WriteChunk, TypeOK
  <2>5. offset' \in [Wipers -> Nat] /\ written' \in [Wipers -> Nat]
    BY <1>2, <1>7, <2>1 DEF WriteChunk, TypeOK
  <2> QED
    BY <1>7, <2>3, <2>4, <2>5 DEF WriteChunk, TypeOK, callVars, resultVars
<1>8. CASE SyncFile(w)
  <2>1. CASE Passes[passNum[w]] \in SingleByte
    BY <1>8, <2>1 DEF SyncFile, TypeOK, Goto, Steps, fileVars, callVars, ioVars, resultVars
  <2>2. CASE Passes[passNum[w]] \notin SingleByte
    <3>1. ResultTypes'
      BY <1>8, <2>2, PassEndsTypes DEF SyncFile
    <3> QED
      BY <1>8, <3>1 DEF SyncFile, TypeOK, ResultTypes, fileVars, callVars
  <2> QED
    BY <2>1, <2>2
<1>9. CASE PassRaises(w)
  <2>1. ResultTypes'
    BY <1>9, PassEndsTypes DEF PassRaises
  <2>2. errors' \in [Wipers -> Nat]
    BY <1>9, ErrorTypes DEF PassRaises
  <2> QED
    BY <1>9, <2>1, <2>2 DEF PassRaises, TypeOK, ResultTypes, fileVars, callVars
<1>10. CASE OpenToVerify(w)
  BY <1>10 DEF OpenToVerify, TypeOK, Goto, Steps, fileVars, callVars, resultVars
<1>11. CASE ReadChunk(w)
  <2>1. Len(Chunk(w)) \in Nat
    <3>1. content[fd[w]] \in Seq(Cell)
      BY <1>1 DEF TypeOK
    <3>2. Lesser(offset[w] + BufferSize, Len(content[fd[w]])) \in Nat
      BY <1>2, <3>1, SizeAssumption DEF Lesser
    <3> QED
      BY <1>2, <3>1, <3>2, SubSeqProperties DEF Chunk
  <2>2. offset' \in [Wipers -> Nat]
    BY <1>2, <1>11, <2>1 DEF ReadChunk, TypeOK
  <2> QED
    BY <1>11, <2>2 DEF ReadChunk, TypeOK, fileVars, callVars, resultVars
<1>12. CASE ReadEnds(w)
  <2>1. Matches(w) \in BOOLEAN
    BY DEF Matches
  <2>2. ResultTypes'
    BY <1>12, <2>1, PassEndsTypes DEF ReadEnds
  <2> QED
    BY <1>12, <2>2 DEF ReadEnds, TypeOK, ResultTypes, fileVars, callVars
<1>13. CASE VerifyRaises(w)
  <2>1. ResultTypes'
    BY <1>13, PassEndsTypes DEF VerifyRaises
  <2>2. errors' \in [Wipers -> Nat]
    BY <1>13, ErrorTypes DEF VerifyRaises
  <2> QED
    BY <1>13, <2>1, <2>2 DEF VerifyRaises, TypeOK, ResultTypes, fileVars, callVars
<1> QED
  BY <1>3, <1>4, <1>5, <1>6, <1>7, <1>8, <1>9, <1>10, <1>11, <1>12, <1>13 DEF WipeStep, ErrorStep

\* Type correctness, for every value of the constants.
THEOREM TypeCorrect == Spec => []TypeOK
<1>1. TypeOK /\ [Next]_vars => TypeOK'
  <2> SUFFICES ASSUME TypeOK, [Next]_vars PROVE TypeOK'
    OBVIOUS
  <2>1. CASE OtherStep
    BY <2>1, OtherTypes
  <2>2. CASE \E w \in Wipers : WipeStep(w) \/ ErrorStep(w)
    BY <2>2, WiperTypes
  <2>3. CASE UNCHANGED vars
    BY <2>3 DEF vars, fileVars, callVars, ioVars, resultVars, TypeOK
  <2> QED
    BY <2>1, <2>2, <2>3 DEF Next
<1> QED
  BY <1>1, InitTypes, PTL DEF Spec

-----------------------------------------------------------------------------
(* Erasure.  Once a read-back has succeeded, the file the path names holds  *)
(* no original data (ReadBackErased); while one is under way, what has been *)
(* read so far holds none, and neither does a file that has taken over the  *)
(* path since (ReadErased).  A verified wipe has recorded every pass as     *)
(* verified (Recorded), so a read-back is among them.                       *)

Erased(n) == \A i \in 1..Len(content[n]) : content[n][i] # "original"

Inside == {"open", "write", "verify", "read"}

ReadBackDone(w) ==
  \E k \in 1..Len(detail[w]) : detail[w][k].verified /\ Passes[k] \in SingleByte

Recorded(w) ==
  /\ pc[w] = "idle" => detail[w] = <<>> /\ passNum[w] = 1
  /\ pc[w] \in Inside => Len(detail[w]) = passNum[w] - 1
  /\ pc[w] \in {"verify", "read"} => Passes[passNum[w]] \in SingleByte
  /\ verified[w] => /\ Len(detail[w]) = Len(Passes)
                    /\ \A k \in 1..Len(detail[w]) : detail[w][k].verified
                    /\ pc[w] = "done"

ReadBackErased(w) == ReadBackDone(w) /\ named # 0 => Erased(named)

ReadErased(w) ==
  pc[w] = "read" =>
    /\ \A i \in 1..Len(content[fd[w]]) : i <= offset[w] => content[fd[w]][i] # "original"
    /\ named \notin {0, fd[w]} => Erased(named)

ErasureInv ==
  /\ TypeOK
  /\ \A w \in Wipers : Recorded(w) /\ ReadBackErased(w) /\ ReadErased(w)

\* Original data never comes back, and a file that takes over the path has none.
NoneReturns ==
  /\ \A n \in Inodes : \A i \in 1..Len(content'[n]) :
       content'[n][i] = "original" => i \in 1..Len(content[n]) /\ content[n][i] = "original"
  /\ named' \in {named, 0} \/ Erased(named)'

\* What a wiper does to the files and what it leaves alone.
LEMMA WiperNoneReturns ==
  ASSUME TypeOK, NEW w \in Wipers, WipeStep(w) \/ ErrorStep(w)
  PROVE  NoneReturns
<1>1. ASSUME NEW n \in 1..BufferSize, WriteChunk(w, n) PROVE NoneReturns
  <2>1. /\ fd[w] \in Inodes /\ content[fd[w]] \in Seq(Cell) /\ offset[w] \in Nat /\ n \in Nat
        /\ Passes[passNum[w]] \in Cell /\ Passes[passNum[w]] # "original"
    BY PassAssumption, SizeAssumption DEF TypeOK, Cell
  <2> DEFINE g == Overwrite(content[fd[w]], offset[w], n, Passes[passNum[w]])
  <2>2. \A i \in 1..Len(g) :
          g[i] = "original" => i \in 1..Len(content[fd[w]]) /\ content[fd[w]][i] = "original"
    BY <2>1, OverwriteCells
  <2>3. content' = [content EXCEPT ![fd[w]] = g] /\ named' = named
    BY <1>1 DEF WriteChunk
  <2> HIDE DEF g
  <2> QED
    BY <2>1, <2>2, <2>3 DEF NoneReturns, TypeOK
<1>2. CASE UNCHANGED fileVars
  BY <1>2 DEF NoneReturns, fileVars
<1>3. UNCHANGED fileVars \/ \E n \in 1..BufferSize : WriteChunk(w, n)
  BY DEF WipeStep, ErrorStep, StartWipe, RefuseWipe, OpenFile, OpenFails, SyncFile, OpenToVerify,
         ReadChunk, ReadEnds, PassRaises, VerifyRaises
<1> QED
  BY <1>1, <1>2, <1>3

\* What other programs do to the files.
LEMMA OtherNoneReturns ==
  ASSUME TypeOK, OtherStep
  PROVE  NoneReturns
<1>1. named # 0 /\ changes < MaxChanges /\ changes' = changes + 1
  BY DEF OtherStep, OverwriteCell, Extend, Truncate, Replace, Remove, Change
<1>2. changes' + 1 \in Inodes /\ named \in Inodes /\ content[named] \in Seq(Cell)
  BY <1>1, BoundsAssumption DEF TypeOK, Inodes
<1>3. ASSUME NEW i \in 1..Len(content[named]), OverwriteCell(i) PROVE NoneReturns
  <2> DEFINE g == [content[named] EXCEPT ![i] = "other"]
  <2>1. content' = [content EXCEPT ![named] = g] /\ named' = named
    BY <1>3 DEF OverwriteCell
  <2>2. Len(g) = Len(content[named]) /\ \A j \in 1..Len(g) : g[j] = "original" => content[named][j] = "original"
    BY <1>2
  <2> HIDE DEF g
  <2> QED
    BY <1>2, <2>1, <2>2 DEF NoneReturns, TypeOK
<1>4. ASSUME NEW i \in 1..Len(content[named]), Truncate(i - 1) PROVE NoneReturns
  <2> DEFINE g == SubSeq(content[named], 1, i - 1)
  <2>1. content' = [content EXCEPT ![named] = g] /\ named' = named
    BY <1>4 DEF Truncate
  <2>2. Len(g) = i - 1 /\ \A j \in 1..Len(g) : j \in 1..Len(content[named]) /\ g[j] = content[named][j]
    BY <1>2, SubSeqProperties
  <2> HIDE DEF g
  <2> QED
    BY <1>2, <2>1, <2>2 DEF NoneReturns, TypeOK
<1>5. CASE Extend
  <2> DEFINE g == Append(content[named], "other")
  <2>1. content' = [content EXCEPT ![named] = g] /\ named' = named
    BY <1>5 DEF Extend
  <2>2. \A j \in 1..Len(g) : g[j] = "original" => j \in 1..Len(content[named]) /\ content[named][j] = "original"
    BY <1>2
  <2> HIDE DEF g
  <2> QED
    BY <1>2, <2>1, <2>2 DEF NoneReturns, TypeOK
<1>6. CASE Replace
  <2>1. content' = [content EXCEPT ![changes' + 1] = <<"other">>] /\ named' = changes' + 1
    BY <1>6 DEF Replace
  <2>2. content'[changes' + 1] = <<"other">>
    BY <1>2, <2>1 DEF TypeOK
  <2>3. Erased(named)'
    BY <2>1, <2>2 DEF Erased
  <2>4. \A n \in Inodes : n # changes' + 1 => content'[n] = content[n]
    BY <2>1 DEF TypeOK
  <2> QED
    BY <2>2, <2>3, <2>4 DEF NoneReturns
<1>7. CASE Remove
  BY <1>7 DEF Remove, NoneReturns
<1>8. CASE \E i \in 1..(IF named = 0 THEN 0 ELSE Len(content[named])) :
             OverwriteCell(i) \/ Truncate(i - 1)
  <2>1. PICK i \in 1..Len(content[named]) : OverwriteCell(i) \/ Truncate(i - 1)
    BY <1>1, <1>8
  <2> QED
    BY <1>3, <1>4, <2>1
<1> QED
  BY <1>5, <1>6, <1>7, <1>8 DEF OtherStep

\* What was erased stays erased.
LEMMA StaysErased ==
  ASSUME TypeOK, NoneReturns, NEW n \in Inodes, Erased(n)
  PROVE  Erased(n)'
BY DEF Erased, NoneReturns

LEMMA NamedStaysErased ==
  ASSUME TypeOK, NoneReturns, named # 0 => Erased(named)
  PROVE  (named # 0 => Erased(named))'
<1>1. CASE named' = named /\ named # 0
  BY <1>1, StaysErased DEF TypeOK, Erased
<1> QED
  BY <1>1 DEF NoneReturns

\* A read-back keeps what it has found when the files change under it.
LEMMA ReadingKeeps ==
  ASSUME TypeOK, NoneReturns, NEW w \in Wipers, ReadErased(w), pc[w] = "read",
         fd'[w] = fd[w], offset'[w] = offset[w]
  PROVE  ReadErased(w)'
<1>1. fd[w] \in Inodes
  BY DEF TypeOK
<1>2. \A i \in 1..Len(content'[fd[w]]) : i <= offset[w] => content'[fd[w]][i] # "original"
  BY <1>1 DEF ReadErased, NoneReturns
<1>3. named' \notin {0, fd[w]} => Erased(named)'
  <2>1. CASE named' = named /\ named \notin {0, fd[w]}
    <3>1. Erased(named)
      BY <2>1 DEF ReadErased
    <3> QED
      BY <2>1, <3>1, StaysErased DEF TypeOK, Erased
  <2> QED
    BY <2>1 DEF NoneReturns
<1> QED
  BY <1>2, <1>3 DEF ReadErased

\* A wiper that does not move keeps its part of the invariant.
LEMMA StandingKeeps ==
  ASSUME ErasureInv, NoneReturns, NEW w \in Wipers,
         pc'[w] = pc[w], passNum'[w] = passNum[w], fd'[w] = fd[w], offset'[w] = offset[w],
         detail'[w] = detail[w], verified'[w] = verified[w]
  PROVE  Recorded(w)' /\ ReadBackErased(w)' /\ ReadErased(w)'
<1>1. Recorded(w)'
  BY DEF ErasureInv, Recorded
<1>2. ReadBackErased(w)'
  BY NamedStaysErased DEF ErasureInv, ReadBackErased, ReadBackDone
<1>3. ReadErased(w)'
  <2>1. CASE pc[w] = "read"
    BY <2>1, ReadingKeeps DEF ErasureInv
  <2>2. CASE pc[w] # "read"
    BY <2>2 DEF ReadErased
  <2> QED
    BY <2>1, <2>2
<1> QED
  BY <1>1, <1>2, <1>3

\* The end of a pass adds one entry, and a read-back is done afterwards only if
\* it was before or this pass's has just succeeded.
LEMMA PassEndsRecords ==
  ASSUME TypeOK, NEW w \in Wipers, Recorded(w), pc[w] \in Inside,
         NEW ok \in BOOLEAN, NEW error \in BOOLEAN, PassEnds(w, ok, error)
  PROVE  /\ Recorded(w)'
         /\ ReadBackDone(w)' => ReadBackDone(w) \/ (ok /\ Passes[passNum[w]] \in SingleByte)
         /\ pc'[w] # "read"
<1> DEFINE old == detail[w]
           new == detail'[w]
           r == [verified |-> ok, error |-> error, touched |-> touched[w]]
<1>1. /\ old \in Seq(PassDetail) /\ r \in PassDetail
      /\ passNum[w] \in 1..Len(Passes) /\ Len(Passes) \in Nat
      /\ Len(old) = passNum[w] - 1
  BY PassAssumption DEF TypeOK, PassDetail, Recorded
<1>2. new = Append(old, r)
  BY DEF PassEnds, TypeOK
<1>3. /\ Len(new) = passNum[w] /\ new[passNum[w]] = r
      /\ \A k \in 1..Len(new) : k # passNum[w] => k \in 1..Len(old) /\ new[k] = old[k]
  BY <1>1, <1>2
<1>4. verified[w] = FALSE
  BY DEF Recorded, TypeOK, Inside
<1>5. r.verified = ok
  OBVIOUS
<1> HIDE DEF old, new, r
<1>6. ReadBackDone(w)' => ReadBackDone(w) \/ (ok /\ Passes[passNum[w]] \in SingleByte)
  <2>1. SUFFICES ASSUME NEW k \in 1..Len(new), new[k].verified, Passes[k] \in SingleByte
                 PROVE  ReadBackDone(w) \/ (ok /\ Passes[passNum[w]] \in SingleByte)
    BY DEF ReadBackDone, new
  <2>2. CASE k = passNum[w]
    BY <1>3, <1>5, <2>1, <2>2
  <2>3. CASE k # passNum[w]
    <3>1. k \in 1..Len(old) /\ old[k].verified
      BY <1>3, <2>1, <2>3
    <3> QED
      BY <2>1, <3>1 DEF ReadBackDone, old
  <2> QED
    BY <2>2, <2>3
<1>7. CASE passNum[w] < Len(Passes)
  <2>1. pc'[w] = "open" /\ passNum'[w] = passNum[w] + 1 /\ verified'[w] = FALSE
    BY <1>4, <1>7 DEF PassEnds, Goto, TypeOK
  <2>2. Len(detail'[w]) = passNum'[w] - 1
    BY <1>1, <1>3, <2>1 DEF new
  <2> QED
    BY <1>6, <2>1, <2>2 DEF Recorded
<1>8. CASE ~(passNum[w] < Len(Passes))
  <2>1. pc'[w] = "done"
    BY <1>8 DEF PassEnds, Goto, TypeOK
  <2>2. Len(detail'[w]) = Len(Passes)
    BY <1>1, <1>3, <1>8 DEF new
  <2>3. verified'[w] => \A k \in 1..Len(detail'[w]) : detail'[w][k].verified
    <3> DEFINE all == \A i \in 1..Len(detail'[w]) : detail'[w][i].verified /\ ~detail'[w][i].error
    <3>1. verified' = [verified EXCEPT ![w] = all]
      BY <1>8 DEF PassEnds
    <3>2. verified'[w] = all
      <4> HIDE DEF all
      <4> QED
        BY <3>1 DEF TypeOK
    <3> QED
      BY <3>2
  <2> QED
    BY <1>6, <2>1, <2>2, <2>3 DEF Recorded, Inside
<1> QED
  BY <1>7, <1>8

\* A pass that ends without a read-back, or with one that failed.
LEMMA PlainEndKeeps ==
  ASSUME ErasureInv, NoneReturns, NEW w \in Wipers, pc[w] \in Inside,
         NEW ok \in BOOLEAN, NEW error \in BOOLEAN, PassEnds(w, ok, error),
         ok => Passes[passNum[w]] \notin SingleByte
  PROVE  Recorded(w)' /\ ReadBackErased(w)' /\ ReadErased(w)'
<1>1. Recorded(w)' /\ (ReadBackDone(w)' => ReadBackDone(w)) /\ pc'[w] # "read"
  BY PassEndsRecords DEF ErasureInv
<1>2. ReadBackErased(w)'
  BY <1>1, NamedStaysErased DEF ErasureInv, ReadBackErased
<1> QED
  BY <1>1, <1>2 DEF ReadErased

\* A wiper's step leaves the others' positions and results alone.
LEMMA OthersStand ==
  ASSUME TypeOK, NEW w \in Wipers, NEW v \in Wipers, v # w, WipeStep(w) \/ ErrorStep(w)
  PROVE  /\ pc'[v] = pc[v] /\ passNum'[v] = passNum[v] /\ fd'[v] = fd[v] /\ offset'[v] = offset[v]
         /\ detail'[v] = detail[v] /\ verified'[v] = verified[v]
<1> DEFINE Stands ==
      /\ pc'[v] = pc[v] /\ passNum'[v] = passNum[v] /\ fd'[v] = fd[v] /\ offset'[v] = offset[v]
      /\ detail'[v] = detail[v] /\ verified'[v] = verified[v]
<1>1. ASSUME NEW ok, NEW error, PassEnds(w, ok, error) PROVE Stands
  BY <1>1 DEF PassEnds, CloseFile, Goto, TypeOK
<1>2. CASE StartWipe(w) \/ RefuseWipe(w) \/ OpenFile(w) \/ OpenToVerify(w) \/ ReadChunk(w)
  BY <1>2 DEF StartWipe, RefuseWipe, OpenFile, OpenToVerify, ReadChunk, Goto, TypeOK, ioVars, resultVars
<1>3. CASE \E n \in 1..BufferSize : WriteChunk(w, n)
  BY <1>3 DEF WriteChunk, TypeOK, resultVars
<1>4. CASE SyncFile(w)
  BY <1>1, <1>4 DEF SyncFile, Goto, TypeOK, ioVars, resultVars
<1>5. CASE OpenFails(w) \/ ReadEnds(w) \/ PassRaises(w) \/ VerifyRaises(w)
  BY <1>1, <1>5 DEF OpenFails, ReadEnds, PassRaises, VerifyRaises
<1> QED
  BY <1>2, <1>3, <1>4, <1>5 DEF WipeStep, ErrorStep

\* A slice that is not empty: its length and its elements.
LEMMA SliceFacts ==
  ASSUME NEW f \in Seq(Cell), NEW p \in Nat, NEW m \in 0..Len(f), SubSeq(f, p + 1, m) # <<>>
  PROVE  /\ Len(SubSeq(f, p + 1, m)) = m - p
         /\ \A i \in 1..m - p : SubSeq(f, p + 1, m)[i] = f[p + i]
<1> DEFINE q == p + 1
<1>1. q \in Nat /\ q > 0 /\ m \in Nat /\ \A i \in q..m : f[i] \in Cell
  OBVIOUS
<1> HIDE DEF q
<1>2. /\ SubSeq(f, q, m) \in Seq(Cell)
      /\ Len(SubSeq(f, q, m)) = IF q <= m THEN m - q + 1 ELSE 0
      /\ \A i \in 1..m - q + 1 : SubSeq(f, q, m)[i] = f[q + i - 1]
  BY <1>1, SubSeqProperties
<1>3. SubSeq(f, q, m) # <<>>
  BY DEF q
<1>4. q <= m
  BY <1>1, <1>2, <1>3, EmptySeq
<1>5. Len(SubSeq(f, q, m)) = m - p /\ \A i \in 1..m - p : SubSeq(f, q, m)[i] = f[q + i - 1]
  BY <1>1, <1>2, <1>4 DEF q
<1>6. \A i \in 1..m - p : q + i - 1 = p + i
  BY <1>1 DEF q
<1> QED
  BY <1>5, <1>6 DEF q

\* A step of a wiper keeps that wiper's part of the invariant.
LEMMA WiperKeepsOwn ==
  ASSUME ErasureInv, NoneReturns, NEW w \in Wipers, WipeStep(w) \/ ErrorStep(w)
  PROVE  Recorded(w)' /\ ReadBackErased(w)' /\ ReadErased(w)'
<1> USE DEF Inside
<1>1. TypeOK /\ Recorded(w) /\ ReadBackErased(w) /\ ReadErased(w)
  BY DEF ErasureInv
<1>2. /\ fd[w] \in Inodes /\ content[fd[w]] \in Seq(Cell) /\ offset[w] \in Nat
      /\ passNum[w] \in 1..Len(Passes) /\ Passes[passNum[w]] # "original"
      /\ BufferSize \in Nat \ {0}
  BY <1>1, PassAssumption, SizeAssumption DEF TypeOK
\* Steps that leave the results alone and do not read.
<1>3. ASSUME pc'[w] # "read", detail' = detail, passNum' = passNum, verified' = verified,
             Recorded(w)'
      PROVE  Recorded(w)' /\ ReadBackErased(w)' /\ ReadErased(w)'
  <2>1. ReadBackErased(w)'
    BY <1>1, <1>3, NamedStaysErased DEF ReadBackErased, ReadBackDone
  <2> QED
    BY <1>3, <2>1 DEF ReadErased
<1>4. CASE StartWipe(w)
  BY <1>1, <1>3, <1>4 DEF StartWipe, Goto, TypeOK, resultVars, Recorded
<1>5. CASE RefuseWipe(w)
  BY <1>1, <1>3, <1>5 DEF RefuseWipe, Goto, TypeOK, resultVars, Recorded
<1>6. CASE OpenFile(w)
  BY <1>1, <1>3, <1>6 DEF OpenFile, Goto, TypeOK, resultVars, Recorded
<1>7. CASE OpenFails(w)
  BY <1>7, PlainEndKeeps DEF OpenFails
<1>8. ASSUME NEW n \in 1..BufferSize, WriteChunk(w, n)
      PROVE  Recorded(w)' /\ ReadBackErased(w)' /\ ReadErased(w)'
  BY <1>1, <1>3, <1>8 DEF WriteChunk, resultVars, Recorded
<1>9. CASE SyncFile(w)
  <2>1. CASE Passes[passNum[w]] \in SingleByte
    BY <1>1, <1>3, <1>9, <2>1 DEF SyncFile, Goto, TypeOK, resultVars, Recorded
  <2>2. CASE Passes[passNum[w]] \notin SingleByte
    BY <1>9, <2>2, PlainEndKeeps DEF SyncFile
  <2> QED
    BY <2>1, <2>2
<1>10. CASE PassRaises(w)
  BY <1>10, PlainEndKeeps DEF PassRaises
<1>11. CASE VerifyRaises(w)
  BY <1>11, PlainEndKeeps DEF VerifyRaises
<1>12. CASE OpenToVerify(w)
  <2>1. /\ pc'[w] = "read" /\ fd'[w] = named /\ offset'[w] = 0 /\ named' = named
        /\ content' = content /\ detail' = detail /\ passNum' = passNum /\ verified' = verified
    BY <1>1, <1>12 DEF OpenToVerify, Goto, TypeOK, fileVars, resultVars
  <2>2. Recorded(w)'
    BY <1>1, <1>12, <2>1 DEF OpenToVerify, Recorded, TypeOK
  <2>3. ReadBackErased(w)'
    BY <1>1, <2>1 DEF ReadBackErased, ReadBackDone, Erased
  <2>4. \A i \in 1..Len(content'[fd'[w]]) : ~(i <= offset'[w])
    BY <2>1
  <2>5. ReadErased(w)'
    BY <2>1, <2>4 DEF ReadErased
  <2> QED
    BY <2>2, <2>3, <2>5
\* The next cells are the pass's pattern, so none of them is original.
<1>13. CASE ReadChunk(w)
  <2> DEFINE f == content[fd[w]]
             m == Lesser(offset[w] + BufferSize, Len(f))
  <2>1. /\ pc' = pc /\ fd' = fd /\ named' = named /\ content' = content
        /\ detail' = detail /\ passNum' = passNum /\ verified' = verified /\ pc[w] = "read"
    BY <1>13 DEF ReadChunk, fileVars, resultVars
  <2>2. offset'[w] = offset[w] + Len(Chunk(w))
    BY <1>1, <1>13 DEF ReadChunk, TypeOK
  <2>3. m \in Nat /\ m <= Len(f) /\ Chunk(w) = SubSeq(f, offset[w] + 1, m)
    BY <1>2 DEF Chunk, Lesser
  <2>4. Chunk(w) # <<>>
    BY <1>13 DEF ReadChunk
  <2> HIDE DEF f, m
  <2>5. /\ Len(Chunk(w)) = m - offset[w]
        /\ \A i \in 1..Len(Chunk(w)) : Chunk(w)[i] = f[offset[w] + i]
    <3>1. f \in Seq(Cell) /\ m \in 0..Len(f)
      BY <1>2, <2>3 DEF f
    <3>2. SubSeq(f, offset[w] + 1, m) # <<>>
      BY <2>3, <2>4
    <3>3. /\ Len(SubSeq(f, offset[w] + 1, m)) = m - offset[w]
          /\ \A i \in 1..m - offset[w] : SubSeq(f, offset[w] + 1, m)[i] = f[offset[w] + i]
      BY <1>2, <3>1, <3>2, SliceFacts
    <3> QED
      BY <2>3, <3>3
  <2>6. \A i \in 1..Len(Chunk(w)) : Chunk(w)[i] # "original"
    BY <1>2, <1>13 DEF ReadChunk, Matches
  <2>7. ASSUME NEW i \in 1..Len(f), i <= offset[w] + Len(Chunk(w)) PROVE f[i] # "original"
    <3>1. CASE i <= offset[w]
      BY <1>1, <2>1, <2>7, <3>1 DEF ReadErased, f
    <3>2. CASE ~(i <= offset[w])
      <4>1. i - offset[w] \in 1..Len(Chunk(w)) /\ offset[w] + (i - offset[w]) = i
        <5>1. Len(f) \in Nat
          BY <1>2 DEF f
        <5>2. offset[w] \in Nat /\ m \in Nat /\ Len(Chunk(w)) = m - offset[w] /\ i \in 1..Len(f)
          BY <1>2, <2>3, <2>5, <2>7
        <5>3. i <= m /\ i > offset[w]
          BY <2>7, <3>2, <5>1, <5>2
        <5> QED
          BY <5>1, <5>2, <5>3
      <4> QED
        BY <2>5, <2>6, <4>1
    <3> QED
      BY <3>1, <3>2
  <2>8. ReadErased(w)'
    BY <1>1, <2>1, <2>2, <2>7 DEF ReadErased, Erased, f
  <2>9. Recorded(w)' /\ ReadBackErased(w)'
    BY <1>1, <2>1 DEF Recorded, ReadBackErased, ReadBackDone, Erased
  <2> QED
    BY <2>8, <2>9
\* At the end of the file every cell has been read.
<1>14. CASE ReadEnds(w)
  <2>1. /\ pc[w] = "read" /\ named' = named /\ content' = content
        /\ PassEnds(w, Matches(w), FALSE) /\ Matches(w) \in BOOLEAN
    BY <1>14 DEF ReadEnds, fileVars, Matches
  <2>2. /\ Recorded(w)' /\ pc'[w] # "read"
        /\ ReadBackDone(w)' => ReadBackDone(w) \/ Matches(w)
    BY <1>1, <2>1, PassEndsRecords
  <2>3. ASSUME Matches(w), named # 0 PROVE Erased(named)
    <3> DEFINE f == content[fd[w]]
               m == Lesser(offset[w] + BufferSize, Len(f))
    <3>1. Chunk(w) = <<>>
      BY <1>14, <2>3 DEF ReadEnds
    <3>2. Chunk(w) = SubSeq(f, offset[w] + 1, m)
      BY DEF Chunk
    <3>3. Len(f) \in Nat /\ m = IF offset[w] + BufferSize <= Len(f) THEN offset[w] + BufferSize ELSE Len(f)
      BY <1>2 DEF Lesser
    <3>4. f \in Seq(Cell)
      BY <1>2
    <3> HIDE DEF f, m
    <3>5. ~(offset[w] + 1 <= m)
      <4> SUFFICES ASSUME offset[w] + 1 <= m PROVE FALSE
        OBVIOUS
      <4>1. m \in Nat /\ m <= Len(f)
        BY <1>2, <3>3
      <4>2. Len(Chunk(w)) = m - (offset[w] + 1) + 1
        BY <1>2, <3>2, <3>4, <4>1, SubSeqProperties
      <4> QED
        BY <1>2, <3>1, <4>1, <4>2
    <3>6. Len(f) <= offset[w]
      BY <1>2, <3>3, <3>5
    <3>7. Erased(fd[w])
      BY <1>1, <1>2, <2>1, <3>3, <3>6 DEF ReadErased, Erased, f
    <3> QED
      BY <1>1, <2>1, <2>3, <3>7 DEF ReadErased
  <2>4. ReadBackErased(w)'
    BY <1>1, <2>1, <2>2, <2>3 DEF ReadBackErased, Erased
  <2> QED
    BY <2>2, <2>4 DEF ReadErased
<1> QED
  BY <1>4, <1>5, <1>6, <1>7, <1>8, <1>9, <1>10, <1>11, <1>12, <1>13, <1>14 DEF WipeStep, ErrorStep

\* The inductive invariant.
THEOREM ErasureHolds == Spec => []ErasureInv
<1>1. Init => ErasureInv
  <2> SUFFICES ASSUME Init PROVE ErasureInv
    OBVIOUS
  <2>1. ASSUME NEW w \in Wipers PROVE Recorded(w) /\ ReadBackErased(w) /\ ReadErased(w)
    BY DEF Init, Recorded, ReadBackErased, ReadBackDone, ReadErased, Inside
  <2> QED
    BY <2>1, InitTypes DEF ErasureInv
<1>2. ErasureInv /\ [Next]_vars => ErasureInv'
  <2> SUFFICES ASSUME ErasureInv, [Next]_vars PROVE ErasureInv'
    OBVIOUS
  <2>1. TypeOK
    BY DEF ErasureInv
  <2>2. CASE OtherStep
    <3>1. TypeOK' /\ NoneReturns
      BY <2>1, <2>2, OtherTypes, OtherNoneReturns
    <3>2. UNCHANGED <<pc, ioVars, resultVars>>
      BY <2>2 DEF OtherStep, OverwriteCell, Extend, Truncate, Replace, Remove, Change
    <3>3. ASSUME NEW v \in Wipers PROVE Recorded(v)' /\ ReadBackErased(v)' /\ ReadErased(v)'
      BY <3>1, <3>2, StandingKeeps DEF ioVars, resultVars
    <3> QED
      BY <3>1, <3>3 DEF ErasureInv
  <2>3. ASSUME NEW w \in Wipers, WipeStep(w) \/ ErrorStep(w) PROVE ErasureInv'
    <3>1. TypeOK' /\ NoneReturns
      BY <2>1, <2>3, WiperTypes, WiperNoneReturns
    <3>2. ASSUME NEW v \in Wipers, v # w PROVE Recorded(v)' /\ ReadBackErased(v)' /\ ReadErased(v)'
      <4>1. /\ pc'[v] = pc[v] /\ passNum'[v] = passNum[v] /\ fd'[v] = fd[v] /\ offset'[v] = offset[v]
            /\ detail'[v] = detail[v] /\ verified'[v] = verified[v]
        BY <2>1, <2>3, <3>2, OthersStand
      <4> QED
        BY <3>1, <4>1, StandingKeeps
    <3>3. Recorded(w)' /\ ReadBackErased(w)' /\ ReadErased(w)'
      BY <2>3, <3>1, WiperKeepsOwn
    <3> QED
      BY <3>1, <3>2, <3>3 DEF ErasureInv
  <2>4. CASE UNCHANGED vars
    <3>1. TypeOK' /\ NoneReturns
      BY <2>1, <2>4 DEF vars, fileVars, callVars, ioVars, resultVars, TypeOK, NoneReturns
    <3>2. ASSUME NEW v \in Wipers PROVE Recorded(v)' /\ ReadBackErased(v)' /\ ReadErased(v)'
      BY <2>4, <3>1, StandingKeeps DEF vars, ioVars, resultVars
    <3> QED
      BY <3>1, <3>2 DEF ErasureInv
  <2> QED
    BY <2>2, <2>3, <2>4 DEF Next
<1> QED
  BY <1>1, <1>2, PTL DEF Spec

\* A verified wipe has erased the file, as long as one pass of the standard is
\* read back, which every standard in _STANDARD_PASSES provides for.
THEOREM VerifiedErases ==
  ASSUME \E k \in 1..Len(Passes) : Passes[k] \in SingleByte
  PROVE  Spec => []VerifiedMeansErased
<1>1. ErasureInv => VerifiedMeansErased
  <2> SUFFICES ASSUME ErasureInv, NEW w \in Wipers, verified[w], named # 0
               PROVE  Erased(named)
    BY DEF VerifiedMeansErased, Erased
  <2>1. ReadBackDone(w)
    BY DEF ErasureInv, Recorded, ReadBackDone
  <2> QED
    BY <2>1 DEF ErasureInv, ReadBackErased
<1> QED
  BY <1>1, ErasureHolds, PTL

-----------------------------------------------------------------------------
(* Errors.  Whatever raises in a pass leaves an unverified pass in the      *)
(* result, which no later pass removes.                                     *)

Remembered(w) == errors[w] # 0 => \E k \in 1..Len(detail[w]) : ~detail[w][k].verified

\* The end of a pass keeps the entries of the passes before it.
LEMMA PassEndsRemembers ==
  ASSUME TypeOK, NEW w \in Wipers, NEW ok \in BOOLEAN, NEW error \in BOOLEAN, PassEnds(w, ok, error)
  PROVE  /\ ~ok => Remembered(w)'
         /\ Remembered(w) /\ errors'[w] = errors[w] => Remembered(w)'
<1> DEFINE old == detail[w]
           new == detail'[w]
           r == [verified |-> ok, error |-> error, touched |-> touched[w]]
<1>1. old \in Seq(PassDetail) /\ r \in PassDetail /\ r.verified = ok
  BY DEF TypeOK, PassDetail
<1>2. new = Append(old, r)
  BY DEF PassEnds, TypeOK
<1> HIDE DEF old, new, r
<1>3. /\ Len(new) = Len(old) + 1 /\ Len(old) \in Nat /\ new[Len(old) + 1] = r
      /\ \A k \in 1..Len(old) : k \in 1..Len(new) /\ new[k] = old[k]
  BY <1>1, <1>2
<1>4. ~ok => \E k \in 1..Len(new) : ~new[k].verified
  BY <1>1, <1>3
<1>5. (\E k \in 1..Len(old) : ~old[k].verified) => \E k \in 1..Len(new) : ~new[k].verified
  BY <1>3
<1> QED
  BY <1>4, <1>5 DEF Remembered, old, new

\* A step of a wiper keeps what is known of its own errors.
LEMMA WiperRemembers ==
  ASSUME TypeOK, NEW w \in Wipers, Remembered(w), WipeStep(w) \/ ErrorStep(w)
  PROVE  Remembered(w)'
<1>1. CASE StartWipe(w) \/ RefuseWipe(w) \/ OpenFile(w) \/ OpenToVerify(w) \/ ReadChunk(w)
  BY <1>1 DEF StartWipe, RefuseWipe, OpenFile, OpenToVerify, ReadChunk, resultVars, Remembered
<1>2. CASE \E n \in 1..BufferSize : WriteChunk(w, n)
  BY <1>2 DEF WriteChunk, resultVars, Remembered
<1>3. CASE SyncFile(w)
  <2>1. CASE PassEnds(w, TRUE, FALSE)
    BY <1>3, <2>1, PassEndsRemembers DEF SyncFile
  <2>2. CASE UNCHANGED <<ioVars, resultVars>>
    BY <1>3, <2>2 DEF SyncFile, resultVars, Remembered
  <2> QED
    BY <1>3, <2>1, <2>2 DEF SyncFile
<1>4. CASE ReadEnds(w)
  <2>1. PassEnds(w, Matches(w), FALSE) /\ errors' = errors
    BY <1>4 DEF ReadEnds
  <2>2. Matches(w) \in BOOLEAN
    BY DEF Matches
  <2> QED
    BY <2>1, <2>2, PassEndsRemembers
<1>5. CASE OpenFails(w) \/ PassRaises(w)
  BY <1>5, PassEndsRemembers DEF OpenFails, PassRaises
<1>6. CASE VerifyRaises(w)
  BY <1>6, PassEndsRemembers DEF VerifyRaises
<1> QED
  BY <1>1, <1>2, <1>3, <1>4, <1>5, <1>6 DEF WipeStep, ErrorStep

\* It leaves the errors of the others alone.
LEMMA OthersErrors ==
  ASSUME TypeOK, NEW w \in Wipers, NEW v \in Wipers, v # w, WipeStep(w) \/ ErrorStep(w)
  PROVE  errors'[v] = errors[v]
<1>1. errors' = errors \/ Error(w)
  BY DEF WipeStep, ErrorStep, StartWipe, RefuseWipe, OpenFile, OpenFails, WriteChunk, SyncFile,
         OpenToVerify, ReadChunk, ReadEnds, PassRaises, VerifyRaises
<1> QED
  BY <1>1 DEF Error, TypeOK

\* No wipe in which an OSError was met ends as verified.
THEOREM ErrorsRemain == Spec => []ErrorsNeverVerified
<1> DEFINE Inv == TypeOK /\ \A w \in Wipers : Remembered(w)
<1>1. Init => Inv
  BY InitTypes DEF Init, Remembered
<1>2. Inv /\ TypeOK' /\ [Next]_vars => Inv'
  <2> SUFFICES ASSUME Inv, TypeOK', [Next]_vars, NEW v \in Wipers PROVE Remembered(v)'
    OBVIOUS
  <2>1. CASE OtherStep
    <3>1. UNCHANGED <<errors, resultVars>>
      BY <2>1 DEF OtherStep, OverwriteCell, Extend, Truncate, Replace, Remove, Change
    <3> QED
      BY <3>1 DEF Remembered, resultVars
  <2>2. ASSUME NEW w \in Wipers, WipeStep(w) \/ ErrorStep(w) PROVE Remembered(v)'
    <3>1. CASE v = w
      BY <2>2, <3>1, WiperRemembers
    <3>2. CASE v # w
      <4>1. detail'[v] = detail[v]
        BY <2>2, <3>2, OthersStand
      <4>2. errors'[v] = errors[v]
        BY <2>2, <3>2, OthersErrors
      <4> QED
        BY <4>1, <4>2 DEF Remembered
    <3> QED
      BY <3>1, <3>2
  <2>3. CASE UNCHANGED vars
    BY <2>3 DEF vars, resultVars, Remembered
  <2> QED
    BY <2>1, <2>2, <2>3 DEF Next
<1>3. Inv /\ ErasureInv => ErrorsNeverVerified
  <2> SUFFICES ASSUME Inv, ErasureInv, NEW w \in Wipers, verified[w] PROVE errors[w] = 0
    BY DEF ErrorsNeverVerified
  <2>1. \A k \in 1..Len(detail[w]) : detail[w][k].verified
    BY DEF ErasureInv, Recorded
  <2> QED
    BY <2>1 DEF Remembered
<1> HIDE DEF Inv
<1> QED
  BY <1>1, <1>2, <1>3, TypeCorrect, ErasureHolds, PTL DEF Spec

-----------------------------------------------------------------------------
(* Coverage.  Where os.write writes what it is given, a pass has touched    *)
(* every cell up to its position, and ends with the size that was read      *)
(* before the first pass.                                                   *)

PassesCover(w) ==
  \A k \in 1..Len(detail[w]) : detail[w][k].verified => 1..size[w] \subseteq detail[w][k].touched

Covering(w) ==
  /\ pc[w] = "idle" => detail[w] = <<>>
  /\ pc[w] \in {"idle", "open"} => offset[w] = 0 /\ written[w] = 0
  /\ pc[w] = "write" => /\ offset[w] = written[w] /\ written[w] <= size[w]
                        /\ 1..written[w] \subseteq touched[w]
  /\ pc[w] \in {"verify", "read"} => 1..size[w] \subseteq touched[w]
  /\ PassesCover(w)

\* The end of a pass that has touched every cell, or is not verified.
LEMMA PassEndsCovering ==
  ASSUME TypeOK, NEW w \in Wipers, NEW ok \in BOOLEAN, NEW error \in BOOLEAN,
         PassEnds(w, ok, error), size' = size, Covering(w),
         ok => 1..size[w] \subseteq touched[w]
  PROVE  Covering(w)'
<1> DEFINE old == detail[w]
           new == detail'[w]
           r == [verified |-> ok, error |-> error, touched |-> touched[w]]
<1>1. old \in Seq(PassDetail) /\ r \in PassDetail /\ r.verified = ok /\ r.touched = touched[w]
  BY DEF TypeOK, PassDetail
<1>2. new = Append(old, r)
  BY DEF PassEnds, TypeOK
<1>3. \A k \in 1..Len(old) : old[k].verified => 1..size[w] \subseteq old[k].touched
  BY DEF Covering, PassesCover
<1>4. pc'[w] \in {"open", "done"} /\ offset'[w] = 0 /\ written'[w] = 0
  BY DEF PassEnds, CloseFile, Goto, TypeOK
<1> HIDE DEF old, new, r
<1>5. /\ Len(new) = Len(old) + 1 /\ Len(old) \in Nat /\ new[Len(old) + 1] = r
      /\ \A k \in 1..Len(old) : new[k] = old[k]
  BY <1>1, <1>2
<1>6. ASSUME NEW k \in 1..Len(new), new[k].verified PROVE 1..size[w] \subseteq new[k].touched
  <2>1. CASE k = Len(old) + 1
    BY <1>1, <1>5, <1>6, <2>1
  <2>2. CASE k # Len(old) + 1
    BY <1>3, <1>5, <1>6, <2>2
  <2> QED
    BY <2>1, <2>2
<1>7. PassesCover(w)'
  BY <1>6 DEF PassesCover, new
<1> QED
  BY <1>4, <1>7 DEF Covering

\* What a full write does to position and count.
LEMMA FullWrite ==
  ASSUME TypeOK, ~ShortWrites, NEW w \in Wipers, NEW n \in 1..BufferSize, WriteChunk(w, n), Covering(w)
  PROVE  /\ pc[w] = "write" /\ pc'[w] = "write" /\ n \in Nat \ {0}
         /\ offset[w] = written[w] /\ written[w] + n <= size[w] /\ written[w] \in Nat /\ size[w] \in Nat
         /\ offset'[w] = offset[w] + n /\ written'[w] = written[w] + n
         /\ touched'[w] = touched[w] \cup (offset[w] + 1..offset[w] + n)
         /\ size' = size /\ detail' = detail
<1>1. size[w] \in Nat /\ written[w] \in Nat /\ offset[w] \in Nat /\ BufferSize \in Nat \ {0}
  BY SizeAssumption DEF TypeOK
<1>2. n = ChunkSize(w) /\ written[w] < size[w] /\ pc[w] = "write" /\ pc' = pc
  BY DEF WriteChunk
<1>3. n \in Nat \ {0} /\ written[w] + n <= size[w]
  BY <1>1, <1>2 DEF ChunkSize, Lesser
<1>4. /\ offset'[w] = offset[w] + n /\ written'[w] = written[w] + n
      /\ touched'[w] = touched[w] \cup (offset[w] + 1..offset[w] + n)
  BY <1>2 DEF WriteChunk, TypeOK
<1>5. size' = size /\ detail' = detail
  BY DEF WriteChunk, callVars, resultVars
<1>6. offset[w] = written[w]
  BY <1>2 DEF Covering
<1> QED
  BY <1>1, <1>2, <1>3, <1>4, <1>5, <1>6

\* A step of a wiper keeps what its passes have covered.
LEMMA WiperCovers ==
  ASSUME TypeOK, ~ShortWrites, NEW w \in Wipers, Covering(w), WipeStep(w) \/ ErrorStep(w)
  PROVE  Covering(w)'
<1>0. size[w] \in Nat /\ written[w] \in Nat /\ detail[w] \in Seq(PassDetail)
  BY DEF TypeOK
<1>1. CASE StartWipe(w)
  <2>1. pc[w] = "idle" /\ pc'[w] = "open" /\ UNCHANGED <<ioVars, resultVars>>
    BY <1>1 DEF StartWipe, Goto, TypeOK
  <2>2. detail'[w] = <<>> /\ offset'[w] = 0 /\ written'[w] = 0
    BY <2>1 DEF Covering, ioVars, resultVars
  <2>3. PassesCover(w)'
    BY <2>2 DEF PassesCover
  <2> QED
    BY <2>1, <2>2, <2>3 DEF Covering
<1>2. CASE RefuseWipe(w)
  BY <1>2 DEF RefuseWipe, Goto, TypeOK, callVars, ioVars, resultVars, Covering, PassesCover
<1>3. CASE OpenFile(w)
  <2>1. /\ pc[w] = "open" /\ pc'[w] = "write" /\ UNCHANGED <<size, offset, written, touched, detail>>
    BY <1>3 DEF OpenFile, Goto, TypeOK, callVars, resultVars
  <2>2. offset[w] = 0 /\ written[w] = 0
    BY <2>1 DEF Covering
  <2> QED
    BY <1>0, <2>1, <2>2 DEF Covering, PassesCover
<1>4. CASE OpenFails(w) \/ PassRaises(w) \/ VerifyRaises(w)
  BY <1>4, PassEndsCovering DEF OpenFails, PassRaises, VerifyRaises, callVars
<1>5. ASSUME NEW n \in 1..BufferSize, WriteChunk(w, n) PROVE Covering(w)'
  <2>1. /\ pc[w] = "write" /\ pc'[w] = "write" /\ n \in Nat \ {0}
        /\ offset[w] = written[w] /\ written[w] + n <= size[w]
        /\ offset'[w] = offset[w] + n /\ written'[w] = written[w] + n
        /\ touched'[w] = touched[w] \cup (offset[w] + 1..offset[w] + n)
        /\ size' = size /\ detail' = detail
    BY <1>5, FullWrite
  <2>2. 1..written[w] \subseteq touched[w] /\ PassesCover(w)
    BY <2>1 DEF Covering
  <2>3. 1..written'[w] \subseteq touched'[w]
    BY <1>0, <2>1, <2>2
  <2>4. PassesCover(w)'
    BY <2>1, <2>2 DEF PassesCover
  <2> QED
    BY <1>0, <2>1, <2>3, <2>4 DEF Covering
<1>6. CASE SyncFile(w)
  <2>1. pc[w] = "write" /\ written[w] >= size[w] /\ size' = size
    BY <1>6 DEF SyncFile, callVars
  <2>2. 1..size[w] \subseteq touched[w]
    BY <1>0, <2>1 DEF Covering
  <2>3. CASE Passes[passNum[w]] \in SingleByte
    <3>1. pc'[w] = "verify" /\ UNCHANGED <<ioVars, resultVars>>
      BY <1>6, <2>3 DEF SyncFile, Goto, TypeOK
    <3> QED
      BY <2>1, <2>2, <3>1 DEF Covering, PassesCover, ioVars, resultVars
  <2>4. CASE Passes[passNum[w]] \notin SingleByte
    <3>1. PassEnds(w, TRUE, FALSE)
      BY <1>6, <2>4 DEF SyncFile
    <3> QED
      BY <2>1, <2>2, <3>1, PassEndsCovering
  <2> QED
    BY <2>3, <2>4
<1>7. CASE OpenToVerify(w)
  BY <1>7 DEF OpenToVerify, Goto, TypeOK, callVars, resultVars, Covering, PassesCover
<1>8. CASE ReadChunk(w)
  BY <1>8 DEF ReadChunk, callVars, resultVars, Covering, PassesCover
<1>9. CASE ReadEnds(w)
  <2>1. PassEnds(w, Matches(w), FALSE) /\ size' = size /\ pc[w] = "read" /\ Matches(w) \in BOOLEAN
    BY <1>9 DEF ReadEnds, callVars, Matches
  <2>2. 1..size[w] \subseteq touched[w]
    BY <2>1 DEF Covering
  <2> QED
    BY <2>1, <2>2, PassEndsCovering
<1> QED
  BY <1>1, <1>2, <1>3, <1>4, <1>5, <1>6, <1>7, <1>8, <1>9 DEF WipeStep, ErrorStep

\* It leaves the sizes, counts and touched cells of the others alone.
LEMMA OthersCover ==
  ASSUME TypeOK, NEW w \in Wipers, NEW v \in Wipers, v # w, WipeStep(w) \/ ErrorStep(w)
  PROVE  size'[v] = size[v] /\ written'[v] = written[v] /\ touched'[v] = touched[v]
<1> DEFINE Stands == size'[v] = size[v] /\ written'[v] = written[v] /\ touched'[v] = touched[v]
<1>1. ASSUME NEW ok, NEW error, PassEnds(w, ok, error), size' = size PROVE Stands
  BY <1>1 DEF PassEnds, CloseFile, TypeOK
<1>2. CASE StartWipe(w) \/ RefuseWipe(w) \/ OpenFile(w) \/ OpenToVerify(w) \/ ReadChunk(w)
  BY <1>2 DEF StartWipe, RefuseWipe, OpenFile, OpenToVerify, ReadChunk, TypeOK, callVars, ioVars
<1>3. CASE \E n \in 1..BufferSize : WriteChunk(w, n)
  BY <1>3 DEF WriteChunk, TypeOK, callVars
<1>4. CASE SyncFile(w)
  BY <1>1, <1>4 DEF SyncFile, callVars, ioVars
<1>5. CASE OpenFails(w) \/ ReadEnds(w) \/ PassRaises(w) \/ VerifyRaises(w)
  BY <1>1, <1>5 DEF OpenFails, ReadEnds, PassRaises, VerifyRaises, callVars
<1> QED
  BY <1>2, <1>3, <1>4, <1>5 DEF WipeStep, ErrorStep

\* Every step keeps what the passes of every wiper have covered.
LEMMA CoveringStep ==
  ASSUME ~ShortWrites
  PROVE  TypeOK /\ (\A w \in Wipers : Covering(w)) /\ [Next]_vars => (\A w \in Wipers : Covering(w))'
<1> SUFFICES ASSUME TypeOK, \A w \in Wipers : Covering(w), [Next]_vars, NEW v \in Wipers
             PROVE  Covering(v)'
  OBVIOUS
<1>1. CASE OtherStep \/ UNCHANGED vars
  <2>1. UNCHANGED <<pc, callVars, ioVars, resultVars>>
    BY <1>1 DEF OtherStep, OverwriteCell, Extend, Truncate, Replace, Remove, Change, vars
  <2> QED
    BY <2>1 DEF Covering, PassesCover, callVars, ioVars, resultVars
<1>2. ASSUME NEW w \in Wipers, WipeStep(w) \/ ErrorStep(w) PROVE Covering(v)'
  <2>1. CASE v = w
    BY <1>2, <2>1, WiperCovers
  <2>2. CASE v # w
    <3>1. /\ pc'[v] = pc[v] /\ offset'[v] = offset[v] /\ detail'[v] = detail[v]
          /\ size'[v] = size[v] /\ written'[v] = written[v] /\ touched'[v] = touched[v]
      BY <1>2, <2>2, OthersStand, OthersCover
    <3> QED
      BY <3>1 DEF Covering, PassesCover
  <2> QED
    BY <2>1, <2>2
<1> QED
  BY <1>1, <1>2 DEF Next

\* Initially nothing is covered or claimed.
LEMMA CoveringInit == Init => \A w \in Wipers : Covering(w)
<1> SUFFICES ASSUME Init, NEW w \in Wipers PROVE Covering(w)
  OBVIOUS
<1>1. pc[w] = "idle" /\ detail[w] = <<>> /\ offset[w] = 0 /\ written[w] = 0
  BY DEF Init
<1>2. PassesCover(w)
  BY <1>1 DEF PassesCover
<1> QED
  BY <1>1, <1>2 DEF Covering

\* Where writes are not cut short, a pass that is recorded as verified has written
\* every cell the file had when the wipe began, for any sizes of file and buffer,
\* and whatever other wipers and other programs do to the file.
THEOREM VerifiedCovers ==
  ASSUME ~ShortWrites
  PROVE  Spec => []VerifiedPassesCover
<1>1. (\A w \in Wipers : Covering(w)) => VerifiedPassesCover
  BY DEF Covering, PassesCover, VerifiedPassesCover
<1> QED
  BY <1>1, CoveringInit, CoveringStep, TypeCorrect, PTL DEF Spec

-----------------------------------------------------------------------------
(* A wipe left alone.  While nobody else changes the file, it keeps its      *)
(* length, and its cells up to the position of a pass hold the pass's data;  *)
(* a read-back does not change them.                                         *)

Last == Passes[Len(Passes)]

\* The first n cells of the file hold the data.
Filled(n, data) == \A i \in 1..n : content[1][i] = data

Undisturbed(w) ==
  /\ named = 1 /\ fd[w] = 1 /\ Len(content[1]) = FileSize
  /\ pc[w] \in Inside => size[w] = FileSize
  /\ pc[w] = "write" => Filled(offset[w], Passes[passNum[w]])
  /\ pc[w] \in {"verify", "read"} => Filled(FileSize, Passes[passNum[w]])
  /\ verified[w] => pc[w] = "done" /\ Filled(FileSize, Last)

\* Writing inside a file keeps its length and changes only the cells of the chunk.
LEMMA OverwriteInside ==
  ASSUME NEW f \in Seq(Cell), NEW p \in Nat, NEW n \in Nat, NEW data, p + n <= Len(f)
  PROVE  /\ Len(Overwrite(f, p, n, data)) = Len(f)
         /\ \A i \in 1..Len(f) :
              Overwrite(f, p, n, data)[i] = IF i \in p + 1..p + n THEN data ELSE f[i]
<1> DEFINE m == IF Len(f) > p + n THEN Len(f) ELSE p + n
           g == Overwrite(f, p, n, data)
<1>1. m = Len(f) /\ m \in Nat
  OBVIOUS
<1>2. g = [i \in 1..m |-> IF i \in p + 1..p + n THEN data ELSE IF i <= Len(f) THEN f[i] ELSE Zero]
  BY DEF Overwrite
<1> HIDE DEF m, g
<1>3. Len(g) = m
  BY <1>1, <1>2
<1>4. \A i \in 1..m : g[i] = IF i \in p + 1..p + n THEN data ELSE f[i]
  BY <1>1, <1>2
<1> QED
  BY <1>1, <1>3, <1>4 DEF g

\* The end of a pass that has filled the file, or is not verified.
LEMMA PassEndsUndisturbed ==
  ASSUME TypeOK, NEW w \in Wipers, NEW ok \in BOOLEAN, NEW error \in BOOLEAN,
         PassEnds(w, ok, error), UNCHANGED <<named, content, size>>,
         pc[w] \in Inside, Undisturbed(w),
         ok => Filled(FileSize, Passes[passNum[w]])
  PROVE  Undisturbed(w)'
<1> DEFINE old == detail[w]
           new == detail'[w]
           r == [verified |-> ok, error |-> error, touched |-> touched[w]]
<1>1. old \in Seq(PassDetail) /\ r \in PassDetail /\ r.verified = ok
  BY DEF TypeOK, PassDetail
<1>2. new = Append(old, r)
  BY DEF PassEnds, TypeOK
<1>3. fd'[w] = 1 /\ named' = 1 /\ Len(content'[1]) = FileSize /\ size'[w] = FileSize /\ ~verified[w]
  BY DEF PassEnds, CloseFile, TypeOK, Undisturbed, Inside
<1> HIDE DEF old, new, r
<1>4. Len(old) + 1 \in 1..Len(new) /\ new[Len(old) + 1] = r
  BY <1>1, <1>2
<1>5. CASE passNum[w] < Len(Passes)
  <2>1. pc'[w] = "open" /\ ~verified'[w]
    BY <1>3, <1>5 DEF PassEnds, Goto, TypeOK
  <2> QED
    BY <1>3, <2>1 DEF Undisturbed
<1>6. CASE ~(passNum[w] < Len(Passes))
  <2>1. pc'[w] = "done" /\ passNum[w] = Len(Passes)
    BY <1>6, PassAssumption DEF PassEnds, Goto, TypeOK
  <2>2. verified'[w] => \A k \in 1..Len(new) : new[k].verified
    <3> DEFINE all == \A i \in 1..Len(detail'[w]) : detail'[w][i].verified /\ ~detail'[w][i].error
    <3>1. verified' = [verified EXCEPT ![w] = all]
      BY <1>6 DEF PassEnds
    <3>2. verified'[w] = all
      <4> HIDE DEF all
      <4> QED
        BY <3>1 DEF TypeOK
    <3> QED
      BY <3>2 DEF new
  <2>3. verified'[w] => ok
    BY <1>1, <1>4, <2>2
  <2>4. verified'[w] => Filled(FileSize, Last)'
    BY <2>1, <2>3 DEF Filled, Last
  <2> QED
    BY <1>3, <2>1, <2>4 DEF Undisturbed, Inside
<1> QED
  BY <1>5, <1>6

\* A step of the only wiper.
LEMMA WiperUndisturbed ==
  ASSUME TypeOK, ~ShortWrites, NEW w \in Wipers, Covering(w), Undisturbed(w),
         WipeStep(w) \/ ErrorStep(w)
  PROVE  Undisturbed(w)'
<1> USE DEF Inside
<1>0. /\ size[w] \in Nat /\ written[w] \in Nat /\ offset[w] \in Nat /\ FileSize \in Nat
      /\ 1 \in Inodes /\ content[1] \in Seq(Cell)
  BY SizeAssumption, BoundsAssumption DEF TypeOK, Inodes
<1>1. CASE StartWipe(w)
  <2>1. /\ pc[w] = "idle" /\ pc'[w] = "open" /\ UNCHANGED <<named, content, fd, verified>>
        /\ size'[w] = Len(content[named])
    BY <1>1 DEF StartWipe, Goto, TypeOK, fileVars, ioVars, resultVars
  <2> QED
    BY <2>1 DEF Undisturbed
<1>2. CASE RefuseWipe(w)
  <2>1. pc[w] = "idle" /\ pc'[w] = "raised" /\ UNCHANGED <<named, content, fd, verified>>
    BY <1>2 DEF RefuseWipe, Goto, TypeOK, fileVars, ioVars, resultVars
  <2> QED
    BY <2>1 DEF Undisturbed
<1>3. CASE OpenFile(w)
  <2>1. /\ pc[w] = "open" /\ pc'[w] = "write" /\ UNCHANGED <<named, content, size, offset, verified>>
        /\ fd'[w] = named
    BY <1>3 DEF OpenFile, Goto, TypeOK, fileVars, callVars, resultVars
  <2>2. offset'[w] = 0
    BY <2>1 DEF Covering
  <2>3. Filled(offset[w], Passes[passNum[w]])'
    BY <2>2 DEF Filled
  <2> QED
    BY <2>1, <2>3 DEF Undisturbed
<1>4. CASE OpenFails(w) \/ PassRaises(w) \/ VerifyRaises(w)
  <2>1. PassEnds(w, FALSE, TRUE) \/ PassEnds(w, FALSE, FALSE)
    BY <1>4 DEF OpenFails, PassRaises, VerifyRaises
  <2>2. UNCHANGED <<named, content, size>> /\ pc[w] \in Inside
    BY <1>4 DEF OpenFails, PassRaises, VerifyRaises, fileVars, callVars
  <2> QED
    BY <2>1, <2>2, PassEndsUndisturbed
<1>5. ASSUME NEW n \in 1..BufferSize, WriteChunk(w, n) PROVE Undisturbed(w)'
  <2> DEFINE data == Passes[passNum[w]]
             f == content[1]
             g == Overwrite(f, offset[w], n, data)
  <2>1. /\ pc[w] = "write" /\ pc'[w] = "write" /\ n \in Nat \ {0}
        /\ offset[w] = written[w] /\ written[w] + n <= size[w]
        /\ offset'[w] = offset[w] + n /\ size' = size
    BY <1>5, FullWrite
  <2>2. UNCHANGED <<named, fd, passNum, verified>> /\ fd[w] = 1 /\ content' = [content EXCEPT ![1] = g]
    BY <1>5 DEF WriteChunk, resultVars, Undisturbed
  <2>3. size[w] = FileSize /\ Len(f) = FileSize /\ ~verified[w] /\ \A i \in 1..offset[w] : f[i] = data
    BY <2>1 DEF Undisturbed, Filled
  <2>4. content'[1] = g
    BY <1>0, <2>2 DEF TypeOK
  <2>5. f \in Seq(Cell) /\ offset[w] + n <= Len(f)
    BY <1>0, <2>1, <2>3
  <2> HIDE DEF data, f, g
  <2>6. Len(g) = Len(f) /\ \A i \in 1..Len(f) : g[i] = IF i \in offset[w] + 1..offset[w] + n THEN data ELSE f[i]
    BY <1>0, <2>1, <2>5, OverwriteInside DEF g
  <2>7. \A i \in 1..offset'[w] : g[i] = data
    BY <1>0, <2>1, <2>3, <2>5, <2>6
  <2>8. Filled(offset[w], Passes[passNum[w]])'
    BY <2>2, <2>4, <2>7 DEF Filled, data
  <2> QED
    BY <2>1, <2>2, <2>3, <2>4, <2>6, <2>8 DEF Undisturbed
<1>6. CASE SyncFile(w)
  <2>1. pc[w] = "write" /\ written[w] >= size[w] /\ UNCHANGED <<named, content, size>>
    BY <1>6 DEF SyncFile, fileVars, callVars
  <2>2. Filled(FileSize, Passes[passNum[w]])
    <3>1. offset[w] = FileSize
      BY <1>0, <2>1 DEF Covering, Undisturbed
    <3> QED
      BY <2>1, <3>1 DEF Undisturbed
  <2>3. CASE Passes[passNum[w]] \in SingleByte
    <3>1. pc'[w] = "verify" /\ UNCHANGED <<fd, passNum, verified>>
      BY <1>6, <2>3 DEF SyncFile, Goto, TypeOK, ioVars, resultVars
    <3>2. Filled(FileSize, Passes[passNum[w]])'
      BY <2>1, <2>2, <3>1 DEF Filled
    <3> QED
      BY <2>1, <3>1, <3>2 DEF Undisturbed
  <2>4. CASE Passes[passNum[w]] \notin SingleByte
    <3>1. PassEnds(w, TRUE, FALSE)
      BY <1>6, <2>4 DEF SyncFile
    <3> QED
      BY <2>1, <2>2, <3>1, PassEndsUndisturbed
  <2> QED
    BY <2>3, <2>4
<1>7. CASE OpenToVerify(w) \/ ReadChunk(w)
  <2>1. /\ UNCHANGED <<named, content, size, passNum, verified>>
        /\ pc[w] \in {"verify", "read"} /\ pc'[w] = "read" /\ (fd'[w] = fd[w] \/ fd'[w] = named)
    BY <1>7 DEF OpenToVerify, ReadChunk, Goto, TypeOK, fileVars, callVars, resultVars
  <2>2. Filled(FileSize, Passes[passNum[w]])'
    BY <2>1 DEF Undisturbed, Filled
  <2> QED
    BY <2>1, <2>2 DEF Undisturbed
<1>8. CASE ReadEnds(w)
  <2>1. /\ PassEnds(w, Matches(w), FALSE) /\ UNCHANGED <<named, content, size>>
        /\ pc[w] = "read" /\ Matches(w) \in BOOLEAN
    BY <1>8 DEF ReadEnds, fileVars, callVars, Matches
  <2>2. Filled(FileSize, Passes[passNum[w]])
    BY <2>1 DEF Undisturbed
  <2> QED
    BY <2>1, <2>2, PassEndsUndisturbed
<1> QED
  BY <1>1, <1>2, <1>3, <1>4, <1>5, <1>6, <1>7, <1>8 DEF WipeStep, ErrorStep

\* A verified wipe that nobody interferes with leaves the file full of the last
\* pass's data and as long as before, for any pass sequence and any sizes, where
\* writes are not cut short and no second wiper is at work.
THEOREM LastPassStays ==
  ASSUME ~ShortWrites, \A v, w \in Wipers : v = w
  PROVE  Spec => []LastPassRemains
<1> DEFINE Inv == /\ TypeOK /\ \A w \in Wipers : Covering(w)
                  /\ changes = 0 => \A w \in Wipers : Undisturbed(w)
<1>1. Init => Inv
  <2> SUFFICES ASSUME Init, NEW w \in Wipers PROVE Undisturbed(w)
    BY InitTypes, CoveringInit
  <2>1. 1 \in Inodes /\ FileSize \in Nat
    BY SizeAssumption, BoundsAssumption DEF Inodes
  <2>2. content[1] = [i \in 1..FileSize |-> "original"]
    BY <2>1 DEF Init
  <2>3. Len(content[1]) = FileSize
    BY <2>1, <2>2
  <2> QED
    BY <2>3 DEF Init, Undisturbed, Inside
<1>2. Inv /\ TypeOK' /\ [Next]_vars => Inv'
  <2> SUFFICES ASSUME Inv, [Next]_vars, changes' = 0, NEW v \in Wipers PROVE Undisturbed(v)'
    BY CoveringStep
  <2>1. CASE OtherStep
    <3>1. changes' = changes + 1 /\ changes \in Nat
      BY <2>1, BoundsAssumption
         DEF OtherStep, OverwriteCell, Extend, Truncate, Replace, Remove, Change, TypeOK
    <3> QED
      BY <3>1
  <2>2. ASSUME NEW w \in Wipers, WipeStep(w) \/ ErrorStep(w) PROVE Undisturbed(v)'
    <3>1. changes' = changes /\ v = w
      BY <2>2 DEF WipeStep, ErrorStep, StartWipe, RefuseWipe, OpenFile, OpenFails, WriteChunk,
                  SyncFile, OpenToVerify, ReadChunk, ReadEnds, PassRaises, VerifyRaises
    <3> QED
      BY <2>2, <3>1, WiperUndisturbed
  <2>3. CASE UNCHANGED vars
    BY <2>3 DEF vars, fileVars, callVars, ioVars, resultVars, Undisturbed, Filled
  <2> QED
    BY <2>1, <2>2, <2>3 DEF Next
<1>3. Inv => LastPassRemains
  <2> SUFFICES ASSUME Inv, NEW w \in Wipers, verified[w], changes = 0
               PROVE  content[named] = [i \in 1..FileSize |-> Last]
    BY DEF LastPassRemains, Last
  <2>1. named = 1 /\ Len(content[1]) = FileSize /\ \A i \in 1..FileSize : content[1][i] = Last
    BY DEF Undisturbed, Filled
  <2>2. content[1] \in Seq(Cell)
    BY BoundsAssumption DEF TypeOK, Inodes
  <2>3. content[1] = [i \in 1..FileSize |-> content[1][i]]
    BY <2>1, <2>2
  <2> QED
    BY <2>1, <2>3
<1> HIDE DEF Inv
<1> QED
  BY <1>1, <1>2, <1>3, TypeCorrect, PTL DEF Spec
=============================================================================
