--------------------------- MODULE WipeJobProofs ---------------------------
(***************************************************************************)
(* Proofs about WipeJob: for any files, targets, drives, standards, batches *)
(* and changes by other programs.                                           *)
(***************************************************************************)
EXTENDS WipeJob, SequenceTheorems, FiniteSetTheorems, TLAPS

-----------------------------------------------------------------------------
(* The claims of a certificate.                                             *)

\* What map answers, key by key: the keys of the row, then those added.
LEMMA MapKeys ==
  ASSUME NEW standard, NEW media, NEW class
  PROVE  LET row == Table[standard] \cup {"SOC2_CC6_5"}
             m == Map(standard, media, class)
             less == media \in {"SSD", "NVMe"} /\ standard # "NIST_800_88_CLEAR"
         IN /\ DOMAIN m = row \cup DOMAIN Added(standard, class)
            /\ \A k \in row : m[k] = (~less \/ k # "NIST_800_88_CLEAR")
<1> DEFINE row == Table[standard] \cup {"SOC2_CC6_5"}
           m == Map(standard, media, class)
           less == media \in {"SSD", "NVMe"} /\ standard # "NIST_800_88_CLEAR"
           all == [k \in row |-> TRUE]
           down == Downgraded(all, standard, media)
           add == Added(standard, class)
<1>1. DOMAIN down = row /\ \A k \in row : down[k] = (~less \/ k # "NIST_800_88_CLEAR")
  <2>1. CASE less
    <3>1. down = [k \in row |-> all[k] /\ k # "NIST_800_88_CLEAR"]
      BY <2>1 DEF Downgraded
    <3> QED
      BY <2>1, <3>1
  <2>2. CASE ~less
    <3>1. down = all
      BY <2>2 DEF Downgraded
    <3> QED
      BY <2>2, <3>1
  <2> QED
    BY <2>1, <2>2
<1>2. m = [k \in DOMAIN down \cup DOMAIN add |-> IF k \in DOMAIN down THEN down[k] ELSE add[k]]
  BY DEF Map
<1> HIDE DEF m, down, add, row, less
<1>4. DOMAIN m = row \cup DOMAIN add /\ \A k \in row : m[k] = down[k]
  BY <1>1, <1>2
<1> QED
  BY <1>4, <1>1 DEF m, add, row, less

\* The keys a worker's certificate claims.
LEMMA ClaimedKeys ==
  ASSUME NEW standard, NEW media
  PROVE  Satisfied(Map(standard, media, "none"))
           = {k \in Table[standard] \cup {"SOC2_CC6_5"} :
                ~(media \in {"SSD", "NVMe"} /\ standard # "NIST_800_88_CLEAR") \/ k # "NIST_800_88_CLEAR"}
<1>1. DOMAIN Added(standard, "none") = {}
  BY DEF Added
<1> DEFINE row == Table[standard] \cup {"SOC2_CC6_5"}
           m == Map(standard, media, "none")
           less == media \in {"SSD", "NVMe"} /\ standard # "NIST_800_88_CLEAR"
<1>2. DOMAIN m = row /\ \A k \in row : m[k] = (~less \/ k # "NIST_800_88_CLEAR")
  <2>1. DOMAIN m = row \cup DOMAIN Added(standard, "none")
    BY MapKeys
  <2>2. \A k \in row : m[k] = (~less \/ k # "NIST_800_88_CLEAR")
    BY MapKeys, Zenon
  <2> QED
    BY <1>1, <2>1, <2>2
<1>3. Satisfied(m) = {k \in DOMAIN m : m[k]}
  BY DEF Satisfied
<1> HIDE DEF m, less, row
<1>4. \A k \in row : m[k] <=> (~less \/ k # "NIST_800_88_CLEAR")
  BY <1>2
<1>5. Satisfied(m) = {k \in row : ~less \/ k # "NIST_800_88_CLEAR"}
  BY <1>2, <1>3, <1>4
<1> QED
  BY <1>5 DEF m, less, row

\* A claim of a certificate is one of the keys of the table.
LEMMA ClaimsTyped ==
  ASSUME NEW standard \in WipeStandards, NEW media
  PROVE  Satisfied(Map(standard, media, "none")) \in SUBSET UNION {Table[s] \cup {"SOC2_CC6_5"} : s \in WipeStandards}
<1>1. Satisfied(Map(standard, media, "none")) \subseteq Table[standard] \cup {"SOC2_CC6_5"}
  BY ClaimedKeys
<1> HIDE DEF WipeStandards
<1> QED
  BY <1>1

\* Purge is claimed for Purge only.
LEMMA PurgeClaimed ==
  ASSUME NEW standard \in WipeStandards, NEW media,
         "NIST_800_88_PURGE" \in Satisfied(Map(standard, media, "none"))
  PROVE  standard = "NIST_800_88_PURGE"
<1>1. "NIST_800_88_PURGE" \in Table[standard]
  BY ClaimedKeys
<1> QED
  BY <1>1 DEF Table, WipeStandards, Documented, MultiPass, NistClear, NistPurge, DoD3Pass, Gutmann,
              Schneier, Afssi, Ar380, Navso, HmgBaseline, HmgEnhanced, DoD7Pass, ZeroFill

-----------------------------------------------------------------------------
(* Types, and that a worker that is at a target has one.                    *)

Active == {"scan", "hash", "wipe", "rehash", "issue"}

Positioned ==
  \A b \in DOMAIN workers : workers[b].pc \in Active => workers[b].idx <= Len(workers[b].targets)

Shape == TypeOK /\ signals \in Seq(Signals) /\ Positioned

\* What replacing one worker does to the sequence of workers.
LEMMA Updated ==
  ASSUME workers \in Seq(Workers), NEW b \in DOMAIN workers, NEW w, Become(b, w)
  PROVE  /\ Len(workers') = Len(workers) /\ DOMAIN workers' = DOMAIN workers
         /\ workers'[b] = w /\ \A a \in DOMAIN workers : a # b => workers'[a] = workers[a]
         /\ w \in Workers => workers' \in Seq(Workers)
<1>1. workers' = [workers EXCEPT ![b] = w]
  BY DEF Become
<1> QED
  BY <1>1

\* What the end of a cancellation's wait makes of the workers, field by field.
LEMMA CancelReturned ==
  ASSUME workers \in Seq(Workers), CancelReturns
  PROVE  /\ DOMAIN workers' = DOMAIN workers /\ Len(workers') = Len(workers) /\ workers' \in Seq(Workers)
         /\ \A a \in DOMAIN workers :
              /\ workers'[a].pc = workers[a].pc /\ workers'[a].idx = workers[a].idx
              /\ workers'[a].targets = workers[a].targets /\ workers'[a].standard = workers[a].standard
              /\ workers'[a].children = workers[a].children /\ workers'[a].left = workers[a].left
              /\ workers'[a].unseen = workers[a].unseen /\ workers'[a].missed = workers[a].missed
              /\ workers'[a].verified = workers[a].verified
              /\ workers'[a].uncertified = workers[a].uncertified
              /\ workers'[a].terminated = workers[a].terminated
              /\ a # Current => workers'[a].outlived = workers[a].outlived
              /\ a = Current => workers'[a].outlived = (workers[a].outlived \/ Running(a))
<1>1. workers' = [workers EXCEPT ![Current].outlived = @ \/ Running(Current)]
  BY DEF CancelReturns
<1> DEFINE late == workers[Current].outlived \/ Running(Current)
           w == [workers[Current] EXCEPT !.outlived = late]
<1>2. late \in BOOLEAN
  OBVIOUS
<1>3. workers' = [workers EXCEPT ![Current] = w]
  BY <1>1
<1> HIDE DEF late
<1>4. ASSUME Current \in DOMAIN workers
      PROVE  /\ w \in Workers
             /\ w.pc = workers[Current].pc /\ w.idx = workers[Current].idx
             /\ w.targets = workers[Current].targets /\ w.standard = workers[Current].standard
             /\ w.children = workers[Current].children /\ w.left = workers[Current].left
             /\ w.unseen = workers[Current].unseen /\ w.missed = workers[Current].missed
             /\ w.verified = workers[Current].verified
             /\ w.uncertified = workers[Current].uncertified
             /\ w.terminated = workers[Current].terminated /\ w.outlived = late
  <2>1. workers[Current] \in Workers
    BY <1>4
  <2> QED
    BY <1>2, <2>1 DEF Workers
<1> HIDE DEF w
<1>5. DOMAIN workers' = DOMAIN workers /\ Len(workers') = Len(workers)
  BY <1>3
<1>6. ASSUME NEW a \in DOMAIN workers, a # Current PROVE workers'[a] = workers[a]
  BY <1>3, <1>6
<1>7. ASSUME NEW a \in DOMAIN workers, a = Current PROVE workers'[a] = w
  BY <1>3, <1>7
<1>8. workers' \in Seq(Workers)
  <2>1. CASE Current \in DOMAIN workers
    BY <1>3, <1>4, <2>1
  <2>2. CASE Current \notin DOMAIN workers
    <3>1. workers' = workers
      BY <1>3, <2>2
    <3> QED
      BY <3>1
  <2> QED
    BY <2>1, <2>2
<1> QED
  BY <1>4, <1>5, <1>6, <1>7, <1>8 DEF late

\* What emitting does to the sequence of signals.
LEMMA Emitted ==
  ASSUME signals \in Seq(Signals), NEW b, NEW type, NEW cert, Emit(b, type, cert)
  PROVE  LET s == [type |-> type, batch |-> b, cert |-> cert]
         IN /\ Len(signals') = Len(signals) + 1 /\ Len(signals) \in Nat
            /\ DOMAIN signals' = 1..(Len(signals) + 1) /\ DOMAIN signals = 1..Len(signals)
            /\ signals'[Len(signals) + 1] = s
            /\ \A i \in DOMAIN signals : signals'[i] = signals[i]
            /\ s \in Signals => signals' \in Seq(Signals)
<1> DEFINE s == [type |-> type, batch |-> b, cert |-> cert]
<1>1. signals' = Append(signals, s)
  BY DEF Emit
<1> HIDE DEF s
<1>2. /\ Len(signals') = Len(signals) + 1 /\ Len(signals) \in Nat
      /\ DOMAIN signals' = 1..(Len(signals) + 1) /\ DOMAIN signals = 1..Len(signals)
      /\ signals'[Len(signals) + 1] = s
      /\ \A i \in DOMAIN signals : signals'[i] = signals[i]
      /\ s \in Signals => signals' \in Seq(Signals)
  BY <1>1
<1> QED
  BY <1>2 DEF s

\* What delivering does to it.
LEMMA Delivered ==
  ASSUME signals \in Seq(Signals), signals # << >>, signals' = Tail(signals)
  PROVE  /\ signals' \in Seq(Signals) /\ Head(signals) = signals[1] /\ signals[1] \in Signals
         /\ Len(signals) \in Nat \ {0} /\ Len(signals') = Len(signals) - 1
         /\ DOMAIN signals = 1..Len(signals) /\ DOMAIN signals' = 1..(Len(signals) - 1)
         /\ \A i \in DOMAIN signals' : i + 1 \in DOMAIN signals /\ signals'[i] = signals[i + 1]
<1>1. Len(signals) \in Nat \ {0} /\ DOMAIN signals = 1..Len(signals)
  BY EmptySeq
<1> QED
  BY <1>1, HeadTailProperties

\* A worker at a target.
LEMMA TargetTyped ==
  ASSUME Shape, NEW b \in DOMAIN workers
  PROVE  /\ b \in Batches /\ workers[b] \in Workers
         /\ workers[b].pc \in Active => Target(b) \in Targets /\ Under[Target(b)] \subseteq Files
<1>1. workers \in Seq(Workers) /\ Len(workers) <= MaxBatches /\ MaxBatches \in Nat
  BY ChoiceAssumption DEF Shape, TypeOK
<1>2. b \in Batches /\ workers[b] \in Workers
  BY <1>1 DEF Batches
<1>3. ASSUME workers[b].pc \in Active PROVE Target(b) \in Targets
  <2>1. workers[b].idx \in Nat \ {0} /\ workers[b].targets \in Seq(Targets)
    BY <1>2 DEF Workers
  <2>2. workers[b].idx <= Len(workers[b].targets)
    BY <1>3 DEF Shape, Positioned
  <2> QED
    BY <2>1, <2>2 DEF Target
<1> QED
  BY <1>2, <1>3, TargetAssumption

\* Going on to the next target.
LEMMA NextTyped ==
  ASSUME NEW w \in Workers
  PROVE  /\ NextTarget(w) \in Workers
         /\ NextTarget(w).pc \in Active => NextTarget(w).idx <= Len(NextTarget(w).targets)
         /\ NextTarget(w).pc = IF w.idx < Len(w.targets) THEN "scan" ELSE "end"
         /\ NextTarget(w).idx = w.idx + 1 /\ NextTarget(w).targets = w.targets
         /\ NextTarget(w).standard = w.standard /\ NextTarget(w).uncertified = w.uncertified
         /\ NextTarget(w).children = {} /\ NextTarget(w).left = {} /\ NextTarget(w).unseen = {}
         /\ NextTarget(w).missed = {} /\ NextTarget(w).terminated = w.terminated
         /\ NextTarget(w).outlived = w.outlived
<1>1. w.idx \in Nat \ {0} /\ w.targets \in Seq(Targets) /\ Len(w.targets) \in Nat
  BY DEF Workers
<1>2. NextTarget(w) \in Workers
  <2> DEFINE step == IF w.idx < Len(w.targets) THEN "scan" ELSE "end"
           w1 == [w EXCEPT !.idx = w.idx + 1]
           w2 == [w1 EXCEPT !.pc = step]
           w3 == [w2 EXCEPT !.verified = TRUE]
           w4 == [w3 EXCEPT !.children = {}]
           w5 == [w4 EXCEPT !.left = {}]
           w6 == [w5 EXCEPT !.unseen = {}]
           w7 == [w6 EXCEPT !.missed = {}]
  <2>1. NextTarget(w) = w7
    BY DEF NextTarget
  <2>2. step \in Steps /\ w.idx + 1 \in Nat \ {0}
    BY <1>1 DEF Steps
  <2> HIDE DEF step
  <2>3. w1 \in Workers
    BY <2>2 DEF Workers
  <2> HIDE DEF w1
  <2>4. w2 \in Workers
    BY <2>2, <2>3 DEF Workers
  <2> HIDE DEF w2
  <2>5. w3 \in Workers
    BY <2>4 DEF Workers
  <2> HIDE DEF w3
  <2>6. w4 \in Workers
    BY <2>5 DEF Workers
  <2> HIDE DEF w4
  <2>7. w5 \in Workers
    BY <2>6 DEF Workers
  <2> HIDE DEF w5
  <2>8. w6 \in Workers
    BY <2>7 DEF Workers
  <2> HIDE DEF w6
  <2>9. w7 \in Workers
    BY <2>8 DEF Workers
  <2> QED
    BY <2>1, <2>9 DEF w1, w2, w3, w4, w5, w6
<1>3. /\ NextTarget(w).pc = IF w.idx < Len(w.targets) THEN "scan" ELSE "end"
      /\ NextTarget(w).idx = w.idx + 1 /\ NextTarget(w).targets = w.targets
      /\ NextTarget(w).standard = w.standard /\ NextTarget(w).uncertified = w.uncertified
      /\ NextTarget(w).children = {} /\ NextTarget(w).left = {} /\ NextTarget(w).unseen = {}
      /\ NextTarget(w).missed = {} /\ NextTarget(w).terminated = w.terminated
      /\ NextTarget(w).outlived = w.outlived
  BY DEF NextTarget, Workers
<1>4. NextTarget(w).pc \in Active => w.idx < Len(w.targets)
  BY <1>3 DEF Active
<1> QED
  BY <1>1, <1>2, <1>3, <1>4

\* The certificate of a worker at a target, and what it says.
LEMMA BuildTyped ==
  ASSUME Shape, NEW b \in DOMAIN workers, workers[b].pc \in Active
  PROVE  LET c == Build(b, workers[b])
         IN /\ c \in Certificates /\ c.batch = b /\ c.position = workers[b].idx /\ c.target = Target(b)
            /\ c.verified = workers[b].verified /\ c.missed = workers[b].missed
            /\ c.standard = workers[b].standard /\ c.wiped = workers[b].children
            /\ c.claims = Satisfied(Map(c.standard, Media(c.target), "none"))
<1> DEFINE w == workers[b]
           claims == Satisfied(Map(w.standard, Media(Target(b)), "none"))
           all == SUBSET UNION {Table[s] \cup {"SOC2_CC6_5"} : s \in WipeStandards}
<1>1. b \in Batches /\ w \in Workers /\ Target(b) \in Targets
  BY TargetTyped
<1>2. /\ w.idx \in Nat \ {0} /\ w.standard \in Standards /\ w.verified \in BOOLEAN
      /\ w.missed \in SUBSET Files /\ w.children \in SUBSET Files
  BY <1>1 DEF Workers
<1>3. claims \in all
  BY <1>2, ClaimsTyped, ChoiceAssumption
<1>4. Build(b, w) = [batch |-> b, position |-> w.idx, target |-> Target(b), standard |-> w.standard,
                     verified |-> w.verified, missed |-> w.missed, wiped |-> w.children,
                     claims |-> claims]
  BY DEF Build
<1> HIDE DEF w, claims, all
<1>5. Build(b, w) \in Certificates
  BY <1>1, <1>2, <1>3, <1>4 DEF Certificates, all
<1>6. /\ Build(b, w).batch = b /\ Build(b, w).position = w.idx /\ Build(b, w).target = Target(b)
      /\ Build(b, w).verified = w.verified /\ Build(b, w).missed = w.missed
      /\ Build(b, w).standard = w.standard /\ Build(b, w).wiped = w.children
      /\ Build(b, w).claims = claims
  BY <1>4
<1> QED
  BY <1>5, <1>6 DEF w, claims

-----------------------------------------------------------------------------
(* What each step of a thread makes of its worker, field by field.          *)

Same(b, w) ==
  /\ w \in Workers /\ Become(b, w)
  /\ w.targets = workers[b].targets /\ w.standard = workers[b].standard
  /\ w.terminated = workers[b].terminated /\ w.outlived = workers[b].outlived

\* The thread is at the next target, or at its end.
Onward(b, w) ==
  /\ Same(b, w)
  /\ w.pc = IF workers[b].idx < Len(workers[b].targets) THEN "scan" ELSE "end"
  /\ w.idx = workers[b].idx + 1
  /\ w.children = {} /\ w.left = {} /\ w.unseen = {} /\ w.missed = {}

Skipped(b, w) ==
  /\ At(b, "scan") /\ Onward(b, w) /\ Kind[Target(b)] = "other"
  /\ w.uncertified = workers[b].uncertified
  /\ UNCHANGED <<content, signals>>

Scanned(b, w) ==
  /\ At(b, "scan") /\ Same(b, w) /\ w.pc = "hash" /\ w.idx = workers[b].idx
  /\ w.left = w.children /\ w.unseen = Under[Target(b)] \ w.children
  /\ w.uncertified = workers[b].uncertified
  /\ UNCHANGED <<content, signals>>

Hashed(b, w) ==
  /\ At(b, "hash") /\ Same(b, w) /\ w.idx = workers[b].idx
  /\ w.pc = IF workers[b].left = {} THEN "rehash" ELSE "wipe"
  /\ w.children = workers[b].children /\ w.left = workers[b].left
  /\ w.unseen = workers[b].unseen /\ w.verified = workers[b].verified
  /\ w.uncertified = workers[b].uncertified
  /\ UNCHANGED <<content, signals>>

Overwritten(b, w) ==
  /\ At(b, "wipe") /\ workers[b].standard \in Overwrites /\ Same(b, w) /\ w.idx = workers[b].idx
  /\ w.children = workers[b].children /\ w.unseen = workers[b].unseen
  /\ \E f \in workers[b].left :
       /\ w.left = workers[b].left \ {f}
       /\ w.pc = IF workers[b].left = {f} THEN "rehash" ELSE "wipe"
       /\ w.uncertified \subseteq workers[b].uncertified \cup {f}
       /\ w.verified => workers[b].verified /\ content'[f] = "erased"
       /\ \A g \in Files : content'[g] = "data" => content[g] = "data"
  /\ UNCHANGED signals

Rehashed(b, w) ==
  /\ At(b, "rehash") /\ Same(b, w) /\ w.pc = "issue" /\ w.idx = workers[b].idx
  /\ w.children = workers[b].children /\ w.left = {} /\ w.verified = workers[b].verified
  /\ w.missed = Holding(Target(b)) \ workers[b].unseen
  /\ w.uncertified = workers[b].uncertified
  /\ UNCHANGED <<content, signals>>

Issued(b, w) ==
  /\ At(b, "issue") /\ Onward(b, w)
  /\ w.uncertified = workers[b].uncertified \ workers[b].children
  /\ Emit(b, "completed", {Build(b, workers[b])})
  /\ UNCHANGED content

Raised(b, w) ==
  /\ workers[b].pc \in Active /\ Same(b, w) /\ w.pc = "end" /\ w.idx = workers[b].idx
  /\ w.children = workers[b].children /\ w.left = workers[b].left
  /\ w.uncertified = workers[b].uncertified
  /\ Emit(b, "failed", {})
  /\ UNCHANGED content

Ended(b, w) ==
  /\ At(b, "end") \/ (workers[b].terminated /\ Running(b))
  /\ Same(b, w) /\ w.pc = "gone" /\ w.idx = workers[b].idx
  /\ w.children = workers[b].children /\ w.left = {}
  /\ w.uncertified = workers[b].uncertified
  /\ Emit(b, "finished", {})
  /\ UNCHANGED content

Moved(b, w) ==
  \/ Skipped(b, w) \/ Scanned(b, w) \/ Hashed(b, w) \/ Overwritten(b, w)
  \/ Rehashed(b, w) \/ Issued(b, w) \/ Raised(b, w) \/ Ended(b, w)

\* A step of a thread is one of these, and keeps to its own worker.
LEMMA StepMoves ==
  ASSUME Shape, NEW b \in DOMAIN workers, WorkerStep(b)
  PROVE  /\ \E w \in Workers : Moved(b, w)
         /\ UNCHANGED <<changes, ui, certs, ended>>
         /\ content' \in [Files -> {"absent", "data", "erased"}]
<1> DEFINE v == workers[b]
<1>1. /\ b \in Batches /\ v \in Workers /\ content \in [Files -> {"absent", "data", "erased"}]
      /\ v.pc \in Active => Target(b) \in Targets /\ Under[Target(b)] \subseteq Files
  BY TargetTyped DEF Shape, TypeOK
<1>2. ASSUME v.pc \in Active, UNCHANGED content
      PROVE  content' \in [Files -> {"absent", "data", "erased"}]
  BY <1>1, <1>2
<1>3. CASE Scan(b)
  <2>1. v.pc = "scan" /\ At(b, "scan") /\ UNCHANGED <<content, changes, ui, signals, certs, ended>>
    BY <1>3 DEF Scan, At
  <2>2. CASE Kind[Target(b)] = "other"
    <3>1. Become(b, NextTarget(v))
      BY <1>3, <2>2 DEF Scan
    <3>2. Skipped(b, NextTarget(v)) /\ NextTarget(v) \in Workers
      BY <1>1, <2>1, <2>2, <3>1, NextTyped DEF Skipped, Onward, Same
    <3> QED
      BY <1>1, <2>1, <3>2 DEF Moved
  <2>3. CASE Kind[Target(b)] # "other"
    <3>1. PICK seen \in ScanFound(Target(b)) :
            Become(b, [v EXCEPT !.pc = "hash", !.children = seen, !.left = seen, !.unseen = Under[Target(b)] \ seen])
      BY <1>3, <2>3 DEF Scan
    <3>2. seen \subseteq Files /\ Under[Target(b)] \ seen \subseteq Files
      BY <1>1, <2>1 DEF ScanFound, Active
    <3> DEFINE w == [v EXCEPT !.pc = "hash", !.children = seen, !.left = seen, !.unseen = Under[Target(b)] \ seen]
    <3>3. w \in Workers
      BY <1>1, <3>2 DEF Workers, Steps
    <3>4. /\ w.targets = v.targets /\ w.terminated = v.terminated /\ w.outlived = v.outlived /\ w.idx = v.idx /\ w.standard = v.standard
          /\ w.pc = "hash" /\ w.children = seen /\ w.left = seen /\ w.unseen = Under[Target(b)] \ seen
          /\ w.uncertified = v.uncertified
      BY <1>1 DEF Workers
    <3>5. Become(b, w)
      BY <3>1
    <3> HIDE DEF w
    <3>6. Scanned(b, w)
      BY <2>1, <3>3, <3>4, <3>5 DEF Scanned, Same
    <3> QED
      BY <1>1, <2>1, <3>3, <3>6 DEF Moved
  <2> QED
    BY <2>2, <2>3
<1>4. CASE HashBefore(b)
  <2> DEFINE w == [v EXCEPT !.pc = IF v.left = {} THEN "rehash" ELSE "wipe"]
  <2>1. v.pc = "hash" /\ At(b, "hash") /\ UNCHANGED <<content, changes, ui, signals, certs, ended>> /\ Become(b, w)
    BY <1>4 DEF HashBefore, At
  <2>2. w \in Workers
    BY <1>1 DEF Workers, Steps
  <2>3. /\ w.targets = v.targets /\ w.terminated = v.terminated /\ w.outlived = v.outlived /\ w.idx = v.idx /\ w.standard = v.standard
        /\ w.pc = IF v.left = {} THEN "rehash" ELSE "wipe"
        /\ w.children = v.children /\ w.left = v.left /\ w.unseen = v.unseen
        /\ w.verified = v.verified /\ w.uncertified = v.uncertified
    BY <1>1 DEF Workers
  <2> HIDE DEF w
  <2>4. Hashed(b, w)
    BY <2>1, <2>2, <2>3 DEF Hashed, Same
  <2> QED
    BY <1>1, <2>1, <2>2, <2>4 DEF Moved
<1>5. CASE WipeFile(b)
  <2>1. PICK f \in v.left, verified \in BOOLEAN, erased \in BOOLEAN :
          /\ verified => erased
          /\ content' = IF erased THEN [content EXCEPT ![f] = "erased"] ELSE content
          /\ LET w == Wiped(v, f, verified) IN
             Become(b, [w EXCEPT !.uncertified = IF erased THEN @ \cup {f} ELSE @])
    BY <1>5 DEF WipeFile
  <2>2. v.pc = "wipe" /\ At(b, "wipe") /\ v.standard \in Overwrites /\ UNCHANGED <<changes, ui, signals, certs, ended>>
    BY <1>5 DEF WipeFile, At
  <2>3. f \in Files /\ v.verified \in BOOLEAN
    BY <1>1 DEF Workers
  <2>4. content' \in [Files -> {"absent", "data", "erased"}]
    BY <1>1, <2>1
  <2> DEFINE x == Wiped(v, f, verified)
             w == [x EXCEPT !.uncertified = IF erased THEN @ \cup {f} ELSE @]
  <2>5. /\ x \in Workers /\ x.targets = v.targets /\ x.terminated = v.terminated /\ x.outlived = v.outlived /\ x.idx = v.idx
        /\ x.standard = v.standard /\ x.children = v.children /\ x.unseen = v.unseen
        /\ x.left = v.left \ {f} /\ x.pc = IF v.left = {f} THEN "rehash" ELSE "wipe"
        /\ x.verified = (v.verified /\ verified) /\ x.uncertified = v.uncertified
    BY <1>1, <2>3 DEF Wiped, Workers, Steps
  <2>6. Become(b, w)
    BY <2>1
  <2> HIDE DEF x
  <2>7. /\ w \in Workers /\ w.targets = v.targets /\ w.terminated = v.terminated /\ w.outlived = v.outlived /\ w.idx = v.idx
        /\ w.standard = v.standard /\ w.children = v.children /\ w.unseen = v.unseen
        /\ w.left = v.left \ {f} /\ w.pc = IF v.left = {f} THEN "rehash" ELSE "wipe"
        /\ w.verified = (v.verified /\ verified) /\ w.uncertified \subseteq v.uncertified \cup {f}
    BY <2>3, <2>5 DEF Workers
  <2>8. (w.verified => v.verified /\ verified) /\ (verified => content'[f] = "erased")
    BY <1>1, <2>1, <2>3, <2>7
  <2>9. \A g \in Files : content'[g] = "data" => content[g] = "data"
    BY <1>1, <2>1
  <2> HIDE DEF w
  <2>10. Overwritten(b, w)
    BY <2>1, <2>2, <2>6, <2>7, <2>8, <2>9 DEF Overwritten, Same
  <2> QED
    BY <2>2, <2>4, <2>7, <2>10 DEF Moved
<1>6. CASE HashAfter(b)
  <2> DEFINE m == Holding(Target(b)) \ v.unseen
             w == [v EXCEPT !.pc = "issue", !.left = {}, !.unseen = {}, !.missed = m]
  <2>1. v.pc = "rehash" /\ At(b, "rehash") /\ UNCHANGED <<content, changes, ui, signals, certs, ended>> /\ Become(b, w)
    BY <1>6 DEF HashAfter, At
  <2>2. m \subseteq Files
    BY <1>1, <2>1 DEF Holding, Active
  <2> HIDE DEF m
  <2>3. w \in Workers
    BY <1>1, <2>2 DEF Workers, Steps
  <2>4. /\ w.targets = v.targets /\ w.terminated = v.terminated /\ w.outlived = v.outlived /\ w.idx = v.idx /\ w.standard = v.standard
        /\ w.pc = "issue" /\ w.children = v.children /\ w.left = {} /\ w.missed = m
        /\ w.verified = v.verified /\ w.uncertified = v.uncertified
    BY <1>1 DEF Workers
  <2> HIDE DEF w
  <2>5. Rehashed(b, w)
    BY <2>1, <2>3, <2>4 DEF Rehashed, Same, m
  <2> QED
    BY <1>1, <2>1, <2>3, <2>5 DEF Moved
<1>7. CASE Issue(b)
  <2> DEFINE u == [v EXCEPT !.uncertified = @ \ v.children]
             w == NextTarget(u)
  <2>1. /\ v.pc = "issue" /\ At(b, "issue") /\ UNCHANGED <<content, changes, ui, certs, ended>>
        /\ Become(b, w) /\ Emit(b, "completed", {Build(b, v)})
    BY <1>7 DEF Issue, At
  <2>2. /\ u \in Workers /\ u.targets = v.targets /\ u.terminated = v.terminated /\ u.outlived = v.outlived /\ u.idx = v.idx
        /\ u.standard = v.standard /\ u.uncertified = v.uncertified \ v.children
    BY <1>1 DEF Workers
  <2> HIDE DEF u
  <2>3. /\ w \in Workers /\ w.targets = u.targets /\ w.terminated = u.terminated /\ w.outlived = u.outlived /\ w.idx = u.idx + 1
        /\ w.standard = u.standard /\ w.uncertified = u.uncertified
        /\ w.pc = IF u.idx < Len(u.targets) THEN "scan" ELSE "end"
        /\ w.children = {} /\ w.left = {} /\ w.unseen = {} /\ w.missed = {}
    BY <2>2, NextTyped
  <2> HIDE DEF w
  <2>4. Issued(b, w)
    BY <2>1, <2>2, <2>3 DEF Issued, Onward, Same
  <2> QED
    BY <1>1, <2>1, <2>3, <2>4 DEF Moved
<1>8. CASE Raise(b)
  <2> DEFINE w == [v EXCEPT !.pc = "end"]
  <2>1. /\ v.pc \in Active /\ UNCHANGED <<content, changes, ui, certs, ended>>
        /\ Become(b, w) /\ Emit(b, "failed", {})
    BY <1>8 DEF Raise, Active
  <2>2. w \in Workers
    BY <1>1 DEF Workers, Steps
  <2>3. /\ w.targets = v.targets /\ w.terminated = v.terminated /\ w.outlived = v.outlived /\ w.idx = v.idx /\ w.standard = v.standard
        /\ w.pc = "end" /\ w.children = v.children /\ w.left = v.left /\ w.uncertified = v.uncertified
    BY <1>1 DEF Workers
  <2> HIDE DEF w
  <2>4. Raised(b, w)
    BY <2>1, <2>2, <2>3 DEF Raised, Same
  <2> QED
    BY <1>1, <2>1, <2>2, <2>4 DEF Moved
<1>9. CASE End(b)
  <2> DEFINE w == [v EXCEPT !.pc = "gone", !.left = {}, !.unseen = {}, !.missed = {}]
  <2>1. /\ At(b, "end") \/ (v.terminated /\ Running(b))
        /\ UNCHANGED <<content, changes, ui, certs, ended>>
        /\ Become(b, w) /\ Emit(b, "finished", {})
    BY <1>9 DEF End
  <2>2. w \in Workers
    BY <1>1 DEF Workers, Steps
  <2>3. /\ w.targets = v.targets /\ w.terminated = v.terminated /\ w.outlived = v.outlived /\ w.idx = v.idx /\ w.standard = v.standard
        /\ w.pc = "gone" /\ w.children = v.children /\ w.left = {} /\ w.uncertified = v.uncertified
    BY <1>1 DEF Workers
  <2> HIDE DEF w
  <2>4. Ended(b, w)
    BY <2>1, <2>2, <2>3 DEF Ended, Same
  <2> QED
    BY <1>1, <2>1, <2>2, <2>4 DEF Moved
<1> QED
  BY <1>3, <1>4, <1>5, <1>6, <1>7, <1>8, <1>9 DEF WorkerStep

\* What each step emits, if anything, is a signal of its batch.
LEMMA Emits ==
  ASSUME Shape, NEW b \in DOMAIN workers, NEW w, Moved(b, w)
  PROVE  \/ UNCHANGED signals
         \/ \E type \in {"completed", "failed", "finished"}, cert \in SUBSET Certificates :
              Emit(b, type, cert)
<1>1. CASE Issued(b, w)
  <2>1. Build(b, workers[b]) \in Certificates
    BY <1>1, BuildTyped DEF Issued, At, Active
  <2> QED
    BY <1>1, <2>1 DEF Issued
<1>2. CASE Raised(b, w)
  BY <1>2 DEF Raised
<1>3. CASE Ended(b, w)
  BY <1>3 DEF Ended
<1> QED
  BY <1>1, <1>2, <1>3 DEF Moved, Skipped, Scanned, Hashed, Overwritten, Rehashed

\* A step leaves a worker with a target if it leaves it at one.
LEMMA MovedPositioned ==
  ASSUME Shape, NEW b \in DOMAIN workers, NEW w \in Workers, Moved(b, w)
  PROVE  w.pc \in Active => w.idx <= Len(w.targets)
<1>1. /\ workers[b] \in Workers
      /\ workers[b].pc \in Active => workers[b].idx <= Len(workers[b].targets)
  BY TargetTyped DEF Shape, Positioned
<1>2. workers[b].idx \in Nat /\ Len(workers[b].targets) \in Nat
  BY <1>1 DEF Workers
<1>3. CASE Onward(b, w)
  BY <1>2, <1>3 DEF Onward, Same, Active
<1>4. CASE w.targets = workers[b].targets /\ w.idx = workers[b].idx /\ workers[b].pc \in Active
  BY <1>1, <1>4
<1>5. CASE w.pc \in {"end", "gone"}
  BY <1>5 DEF Active
<1> QED
  BY <1>3, <1>4, <1>5 DEF Moved, Skipped, Scanned, Hashed, Overwritten, Rehashed, Issued, Raised, Ended, Same, At, Active

\* Shape is inductive.
LEMMA ShapeKept ==
  ASSUME Shape, [Next]_vars
  PROVE  Shape'
<1>1. /\ content \in [Files -> {"absent", "data", "erased"}] /\ changes \in 0..MaxChanges
      /\ ui \in [targets : Seq(Targets), start : BOOLEAN, cancel : BOOLEAN,
                 loop : {"idle", "wait", "dialog"}]
      /\ workers \in Seq(Workers) /\ Len(workers) <= MaxBatches
      /\ \A i \in DOMAIN signals : signals[i] \in Signals
      /\ signals \in Seq(Signals) /\ certs \subseteq Certificates
      /\ ended \in [Batches -> SUBSET {"failed", "completed"}]
      /\ MaxBatches \in Nat /\ MaxChanges \in Nat /\ Len(workers) \in Nat
  BY ChoiceAssumption DEF Shape, TypeOK
<1>2. Positioned
  BY DEF Shape
<1> DEFINE Settled == UNCHANGED <<workers, signals, certs>>
<1>3. ASSUME Settled, ui' \in [targets : Seq(Targets), start : BOOLEAN, cancel : BOOLEAN,
                               loop : {"idle", "wait", "dialog"}],
             ended' \in [Batches -> SUBSET {"failed", "completed"}],
             UNCHANGED <<content, changes>>
      PROVE  Shape'
  BY <1>1, <1>2, <1>3 DEF Shape, TypeOK, Positioned
<1>4. [ended EXCEPT ![Current] = @ \cup {"failed"}] \in [Batches -> SUBSET {"failed", "completed"}]
  BY <1>1
<1>5. CASE UNCHANGED vars
  BY <1>1, <1>3, <1>5 DEF vars
<1>6. ASSUME NEW t \in Targets, AddTarget(t) PROVE Shape'
  <2>1. ui' = [ui EXCEPT !.targets = Append(@, t)] /\ UNCHANGED <<content, changes, workers, signals, certs, ended>>
    BY <1>6 DEF AddTarget
  <2>2. Append(ui.targets, t) \in Seq(Targets)
    BY <1>1, AppendProperties
  <2> QED
    BY <1>1, <1>3, <2>1, <2>2
<1>7. ASSUME NEW t \in Targets, RemoveTarget(t) PROVE Shape'
  <2>1. PICK i \in DOMAIN ui.targets :
          ui' = [ui EXCEPT !.targets = SubSeq(@, 1, i - 1) \o SubSeq(@, i + 1, Len(@))]
    BY <1>7 DEF RemoveTarget
  <2>2. /\ i \in 1..Len(ui.targets) /\ Len(ui.targets) \in Nat /\ ui.targets \in Seq(Targets)
    BY <1>1
  <2>3. SubSeq(ui.targets, 1, i - 1) \in Seq(Targets) /\ SubSeq(ui.targets, i + 1, Len(ui.targets)) \in Seq(Targets)
    <3>1. \A k \in 1..(i - 1) : ui.targets[k] \in Targets
      BY <2>2
    <3>2. \A k \in (i + 1)..Len(ui.targets) : ui.targets[k] \in Targets
      BY <2>2
    <3> QED
      BY <2>2, <3>1, <3>2, SubSeqProperties
  <2>4. SubSeq(ui.targets, 1, i - 1) \o SubSeq(ui.targets, i + 1, Len(ui.targets)) \in Seq(Targets)
    BY <2>3, ConcatProperties
  <2> QED
    BY <1>1, <1>3, <1>7, <2>1, <2>4 DEF RemoveTarget
<1>8. ASSUME NEW s \in Standards, StartWipe(s) PROVE Shape'
  <2> DEFINE w == NewWorker(s, ui.targets)
  <2>1. /\ w \in Workers /\ w.pc = "scan" /\ w.idx = 1 /\ w.targets = ui.targets
    BY <1>1, <1>8 DEF NewWorker, Workers, Steps
  <2>2. ui.targets # << >> /\ ui.targets \in Seq(Targets) /\ 1 <= Len(ui.targets)
    BY <1>1, <1>8, EmptySeq DEF StartWipe
  <2>3. workers' = Append(workers, w) /\ Len(workers) < MaxBatches
    BY <1>8 DEF StartWipe
  <2> HIDE DEF w
  <2>4. workers' \in Seq(Workers) /\ Len(workers') <= MaxBatches
    BY <1>1, <2>1, <2>3
  <2>5. \A a \in DOMAIN workers' : (a \in DOMAIN workers /\ workers'[a] = workers[a]) \/ workers'[a] = w
    BY <1>1, <2>1, <2>3
  <2>6. Positioned'
    BY <1>2, <2>1, <2>2, <2>5 DEF Positioned
  <2>7. ui' \in [targets : Seq(Targets), start : BOOLEAN, cancel : BOOLEAN, loop : {"idle", "wait", "dialog"}]
    BY <1>1, <1>8 DEF StartWipe
  <2>8. UNCHANGED <<content, changes, signals, certs, ended>>
    BY <1>8 DEF StartWipe
  <2> QED
    BY <1>1, <2>4, <2>6, <2>7, <2>8 DEF Shape, TypeOK
<1>9. CASE CancelWipe
  <2>1. CASE Running(Current)
    <3> DEFINE w == [workers[Current] EXCEPT !.terminated = TRUE]
    <3>1. workers' = [workers EXCEPT ![Current].terminated = TRUE] /\ ui' = [ui EXCEPT !.loop = "wait"]
          /\ UNCHANGED <<content, changes, signals, certs, ended>>
      BY <1>9, <2>1 DEF CancelWipe
    <3>2. workers' \in Seq(Workers) /\ Len(workers') = Len(workers) /\ DOMAIN workers' = DOMAIN workers
      <4>1. CASE Current \in DOMAIN workers
        <5>1. w \in Workers
          <6>1. workers[Current] \in Workers
            BY <1>1, <4>1
          <6> QED
            BY <6>1 DEF Workers
        <5> QED
          BY <1>1, <3>1, <4>1, <5>1
      <4>2. CASE Current \notin DOMAIN workers
        <5>1. workers' = workers
          BY <1>1, <3>1, <4>2
        <5> QED
          BY <1>1, <5>1
      <4> QED
        BY <4>1, <4>2
    <3>3. \A a \in DOMAIN workers : /\ workers'[a].pc = workers[a].pc /\ workers'[a].idx = workers[a].idx
                                    /\ workers'[a].targets = workers[a].targets
      BY <1>1, <3>1 DEF Workers
    <3>4. Positioned'
      BY <1>2, <3>2, <3>3 DEF Positioned
    <3> QED
      BY <1>1, <3>1, <3>2, <3>4 DEF Shape, TypeOK
  <2>2. CASE ~Running(Current)
    BY <1>1, <1>3, <1>9, <2>2 DEF CancelWipe
  <2> QED
    BY <2>1, <2>2
<1>10. CASE CancelReturns
  <2>1. /\ ui' = [ui EXCEPT !.loop = "idle", !.start = TRUE, !.cancel = FALSE]
        /\ ended' = [ended EXCEPT ![Current] = @ \cup {"failed"}]
        /\ UNCHANGED <<content, changes, signals, certs>>
    BY <1>10 DEF CancelReturns
  <2>2. workers' \in Seq(Workers) /\ Len(workers') = Len(workers) /\ DOMAIN workers' = DOMAIN workers
    BY <1>1, <1>10, CancelReturned
  <2>3. Positioned'
    BY <1>1, <1>2, <1>10, CancelReturned DEF Positioned
  <2> QED
    BY <1>1, <1>4, <2>1, <2>2, <2>3 DEF Shape, TypeOK
<1>11. CASE Acknowledge
  BY <1>1, <1>3, <1>4, <1>11 DEF Acknowledge
<1>12. CASE Deliver
  <2>1. /\ signals' \in Seq(Signals) /\ Head(signals) \in Signals
    BY <1>1, <1>12, Delivered DEF Deliver
  <2> DEFINE s == Head(signals)
  <2>2. /\ certs' = certs \cup s.cert
        /\ ended' = IF s.type = "finished" THEN [ended EXCEPT ![s.batch] = @ \cup {"completed"}] ELSE ended
        /\ ui' = CASE s.type = "failed" -> [ui EXCEPT !.loop = "dialog"]
                   [] s.type = "finished" -> [ui EXCEPT !.start = TRUE, !.cancel = FALSE]
                   [] OTHER -> ui
        /\ UNCHANGED <<content, changes, workers>>
    BY <1>12 DEF Deliver
  <2> HIDE DEF s
  <2>3. s \in Signals
    BY <2>1 DEF s
  <2>4. certs' \subseteq Certificates /\ ended' \in [Batches -> SUBSET {"failed", "completed"}]
    BY <1>1, <2>2, <2>3 DEF Signals
  <2>5. ui' \in [targets : Seq(Targets), start : BOOLEAN, cancel : BOOLEAN, loop : {"idle", "wait", "dialog"}]
    BY <1>1, <2>2, <2>3 DEF Signals
  <2>6. Positioned'
    BY <1>2, <2>2 DEF Positioned
  <2> QED
    BY <1>1, <2>1, <2>2, <2>4, <2>5, <2>6 DEF Shape, TypeOK
<1>13. ASSUME NEW b \in DOMAIN workers, WorkerStep(b) PROVE Shape'
  <2>1. PICK w \in Workers : Moved(b, w)
    BY <1>13, StepMoves
  <2>2. UNCHANGED <<changes, ui, certs, ended>> /\ content' \in [Files -> {"absent", "data", "erased"}]
    BY <1>13, StepMoves
  <2>3. Become(b, w)
    BY <2>1 DEF Moved, Skipped, Scanned, Hashed, Overwritten, Rehashed, Issued, Raised, Ended, Onward, Same
  <2>4. /\ Len(workers') = Len(workers) /\ DOMAIN workers' = DOMAIN workers /\ workers' \in Seq(Workers)
        /\ workers'[b] = w /\ \A a \in DOMAIN workers : a # b => workers'[a] = workers[a]
    BY <1>1, <2>3, Updated
  <2>5. w.pc \in Active => w.idx <= Len(w.targets)
    BY <2>1, MovedPositioned
  <2>6. Positioned'
    BY <1>2, <2>4, <2>5 DEF Positioned
  <2>7. signals' \in Seq(Signals)
    <3>1. CASE UNCHANGED signals
      BY <1>1, <3>1
    <3>2. ASSUME NEW type \in {"completed", "failed", "finished"}, NEW cert \in SUBSET Certificates,
                 Emit(b, type, cert)
          PROVE  signals' \in Seq(Signals)
      <4>1. [type |-> type, batch |-> b, cert |-> cert] \in Signals
        BY TargetTyped DEF Signals
      <4> QED
        BY <1>1, <3>2, <4>1, Emitted
    <3> QED
      BY <2>1, <3>1, <3>2, Emits
  <2>8. \A i \in DOMAIN signals' : signals'[i] \in Signals
    BY <2>7
  <2> QED
    BY <1>1, <2>2, <2>4, <2>6, <2>7, <2>8 DEF Shape, TypeOK
<1>14. ASSUME NEW f \in Files, OtherWrites(f) PROVE Shape'
  <2> DEFINE v(b) == workers[b]
             In(b) == v(b).pc \in {"hash", "wipe", "rehash"} /\ f \in Under[Target(b)]
             w(b) == [v(b) EXCEPT !.unseen = IF In(b) THEN @ \cup {f} ELSE @]
  <2>1. workers' = [b \in DOMAIN workers |-> w(b)] /\ changes' = changes + 1 /\ changes < MaxChanges
        /\ content' = [content EXCEPT ![f] = "data"] /\ UNCHANGED <<ui, signals, certs, ended>>
    BY <1>14 DEF OtherWrites
  <2>2. ASSUME NEW b \in DOMAIN workers
        PROVE  w(b) \in Workers /\ w(b).pc = v(b).pc /\ w(b).idx = v(b).idx /\ w(b).targets = v(b).targets
    <3>1. v(b) \in Workers
      BY <1>1, <2>2
    <3> DEFINE more == IF In(b) THEN v(b).unseen \cup {f} ELSE v(b).unseen
    <3>2. more \in SUBSET Files
      BY <3>1 DEF Workers
    <3> HIDE DEF v, In
    <3>3. w(b) = [v(b) EXCEPT !.unseen = more]
      OBVIOUS
    <3> HIDE DEF more, w
    <3> QED
      BY <3>1, <3>2, <3>3 DEF Workers
  <2> HIDE DEF w
  <2>3. workers' \in Seq(Workers) /\ Len(workers') = Len(workers) /\ DOMAIN workers' = DOMAIN workers
        /\ \A b \in DOMAIN workers : workers'[b] = w(b)
    BY <1>1, <2>1, <2>2
  <2>4. Positioned'
    BY <1>2, <2>2, <2>3 DEF Positioned
  <2>5. content' \in [Files -> {"absent", "data", "erased"}] /\ changes' \in 0..MaxChanges
    BY <1>1, <2>1
  <2> QED
    BY <1>1, <2>1, <2>3, <2>4, <2>5 DEF Shape, TypeOK
<1>15. ASSUME NEW f \in Files, OtherRemoves(f) PROVE Shape'
  <2>1. content' \in [Files -> {"absent", "data", "erased"}] /\ changes' \in 0..MaxChanges
        /\ UNCHANGED <<ui, workers, signals, certs, ended>>
    BY <1>1, <1>15 DEF OtherRemoves
  <2>2. Positioned'
    BY <1>2, <2>1 DEF Positioned
  <2> QED
    BY <1>1, <2>1, <2>2 DEF Shape, TypeOK
<1> QED
  BY <1>5, <1>6, <1>7, <1>8, <1>9, <1>10, <1>11, <1>12, <1>13, <1>14, <1>15 DEF Next

\* The initial states have the shape.
LEMMA ShapeInit == Init => Shape
BY ChoiceAssumption DEF Init, Shape, TypeOK, Positioned

\* Whatever clicks, failures, ends and other programs, every variable keeps its
\* type (UIController, WipeWorker).
THEOREM TypeCorrect == Spec => []TypeOK
<1>1. Shape => TypeOK
  BY DEF Shape
<1> QED
  BY <1>1, ShapeInit, ShapeKept, PTL DEF Spec

-----------------------------------------------------------------------------
(* What a worker has done to its target, and what its certificates say.     *)

\* The files still to be wiped and those without a certificate are children of
\* the target; until the hash after the wipe, a verified target has data only
\* in what is left to be wiped and what the scan has not seen.  For a standard
\* without passes only an empty target gets beyond the wipe.
Accounted(b) ==
  LET v == workers[b] IN
  /\ v.left \subseteq v.children /\ v.uncertified \subseteq v.children
  /\ v.pc = "scan" => v.uncertified = {}
  /\ v.pc \in {"hash", "wipe", "rehash"} /\ v.verified =>
       Holding(Target(b)) \subseteq v.left \cup v.unseen
  /\ v.pc = "rehash" => v.left = {}
  /\ v.pc = "issue" /\ v.verified => v.missed = {}
  /\ v.pc = "hash" => v.left = v.children
  /\ v.pc \in {"rehash", "issue"} /\ v.standard \notin Overwrites => v.children = {}

Truthful(c) ==
  /\ c.verified => c.missed = {}
  /\ "NIST_800_88_PURGE" \in c.claims => c.wiped = {}

Honest ==
  /\ Shape
  /\ \A b \in DOMAIN workers : Accounted(b)
  /\ \A c \in certs : Truthful(c)
  /\ \A i \in DOMAIN signals : \A c \in signals[i].cert : Truthful(c)

\* A thread turns nothing into data.
LEMMA MovedData ==
  ASSUME NEW b, NEW w, Moved(b, w)
  PROVE  \A g \in Files : content'[g] = "data" => content[g] = "data"
BY DEF Moved, Skipped, Scanned, Hashed, Overwritten, Rehashed, Issued, Raised, Ended

\* A worker that is left alone stays accounted for while nothing becomes data.
LEMMA LeftAlone ==
  ASSUME Shape, NEW a \in DOMAIN workers, Accounted(a), workers'[a] = workers[a],
         \A g \in Files : content'[g] = "data" => content[g] = "data"
  PROVE  Accounted(a)'
<1>1. Target(a)' = Target(a)
  BY DEF Target
<1>2. workers[a].pc \in {"hash", "wipe", "rehash"} => Holding(Target(a))' \subseteq Holding(Target(a))
  BY <1>1, TargetTyped DEF Active, Holding
<1>3. workers[a].pc \in {"hash", "wipe", "rehash"} /\ workers[a].verified =>
        Holding(Target(a))' \subseteq workers[a].left \cup workers[a].unseen
  BY <1>2 DEF Accounted
<1> QED
  BY <1>3 DEF Accounted

\* A worker that takes a step stays accounted for.
LEMMA MovedAccounted ==
  ASSUME Shape, NEW b \in DOMAIN workers, Accounted(b), NEW w \in Workers, Moved(b, w)
  PROVE  Accounted(b)'
<1>1. workers \in Seq(Workers) /\ Become(b, w) /\ workers[b] \in Workers
  BY TargetTyped DEF Shape, TypeOK, Moved, Skipped, Scanned, Hashed, Overwritten, Rehashed, Issued, Raised, Ended, Onward, Same
<1>2. workers'[b] = w
  BY <1>1, Updated
<1>3. /\ workers[b].left \subseteq workers[b].children /\ workers[b].uncertified \subseteq workers[b].children
      /\ workers[b].left \subseteq Files
  BY <1>1 DEF Accounted, Workers
<1>4. CASE Onward(b, w) /\ w.uncertified \subseteq workers[b].uncertified \ workers[b].children
  BY <1>2, <1>3, <1>4 DEF Accounted, Onward
<1>5. CASE Skipped(b, w)
  <2>1. w.uncertified = {}
    BY <1>5 DEF Skipped, Accounted, At
  <2> QED
    BY <1>2, <1>5, <2>1 DEF Accounted, Skipped, Onward
<1>6. CASE Issued(b, w)
  BY <1>3, <1>4, <1>6 DEF Issued
<1> DEFINE Still == w.targets = workers[b].targets /\ w.idx = workers[b].idx
<1>7. Still => Target(b)' = Target(b)
  BY <1>2 DEF Target
<1>8. Still /\ workers[b].pc \in Active => Holding(Target(b))' \subseteq Holding(Target(b))
  BY <1>7, TargetTyped, MovedData DEF Holding
<1>9. CASE Scanned(b, w)
  <2>1. Still /\ workers[b].pc \in Active
    BY <1>9 DEF Scanned, Same, At, Active
  <2>2. Holding(Target(b))' \subseteq Under[Target(b)]
    BY <2>1, <1>7 DEF Holding
  <2>3. w.uncertified = {}
    BY <1>9 DEF Scanned, Accounted, At
  <2> QED
    BY <1>2, <1>9, <2>2, <2>3 DEF Accounted, Scanned
<1>10. CASE Hashed(b, w)
  <2>1. Still /\ workers[b].pc \in Active
    BY <1>10 DEF Hashed, Same, At, Active
  <2>2. w.verified => Holding(Target(b))' \subseteq w.left \cup w.unseen
    BY <1>8, <1>10, <2>1 DEF Accounted, Hashed, At
  <2>3. workers[b].left = workers[b].children
    BY <1>10 DEF Accounted, Hashed, At
  <2>4. /\ w.pc = IF w.left = {} THEN "rehash" ELSE "wipe"
        /\ w.left = w.children /\ w.uncertified \subseteq w.children
    BY <1>3, <1>10, <2>3 DEF Hashed
  <2> QED
    BY <1>2, <2>2, <2>4 DEF Accounted
<1>11. CASE Overwritten(b, w)
  <2>1. Still /\ workers[b].pc \in Active
    BY <1>11 DEF Overwritten, Same, At, Active
  <2>2. PICK f \in workers[b].left :
          /\ w.left = workers[b].left \ {f}
          /\ w.pc = IF workers[b].left = {f} THEN "rehash" ELSE "wipe"
          /\ w.uncertified \subseteq workers[b].uncertified \cup {f}
          /\ w.verified => workers[b].verified /\ content'[f] = "erased"
    BY <1>11 DEF Overwritten
  <2>3. w.verified => f \notin Holding(Target(b))'
    BY <2>2 DEF Holding
  <2>4. w.verified => Holding(Target(b))' \subseteq workers[b].left \cup workers[b].unseen
    BY <1>8, <1>11, <2>1, <2>2 DEF Accounted, Overwritten, At
  <2>5. w.verified => Holding(Target(b))' \subseteq w.left \cup w.unseen
    BY <1>11, <2>2, <2>3, <2>4 DEF Overwritten
  <2>6. w.standard \in Overwrites
    BY <1>11 DEF Overwritten, Same
  <2>7. /\ w.pc = IF w.left = {} THEN "rehash" ELSE "wipe"
        /\ w.left \subseteq w.children /\ w.uncertified \subseteq w.children
    BY <1>3, <1>11, <2>2 DEF Overwritten
  <2> QED
    BY <1>2, <2>5, <2>6, <2>7 DEF Accounted
<1>12. CASE Rehashed(b, w)
  <2>1. w.verified => w.missed = {}
    BY <1>12 DEF Accounted, Rehashed, At
  <2>2. w.standard \notin Overwrites => w.children = {}
    BY <1>12 DEF Accounted, Rehashed, Same, At
  <2>3. w.pc = "issue" /\ w.left \subseteq w.children /\ w.uncertified \subseteq w.children
    BY <1>3, <1>12 DEF Rehashed
  <2> QED
    BY <1>2, <2>1, <2>2, <2>3 DEF Accounted
<1>13. CASE Raised(b, w)
  BY <1>2, <1>3, <1>13 DEF Accounted, Raised
<1>14. CASE Ended(b, w)
  BY <1>2, <1>3, <1>14 DEF Accounted, Ended
<1> QED
  BY <1>5, <1>6, <1>9, <1>10, <1>11, <1>12, <1>13, <1>14 DEF Moved

\* The certificate of a worker that is accounted for is truthful.
LEMMA BuildTruthful ==
  ASSUME Shape, NEW b \in DOMAIN workers, Accounted(b), At(b, "issue")
  PROVE  Truthful(Build(b, workers[b]))
<1>1. workers[b].pc \in Active /\ workers[b].pc = "issue"
  BY DEF At, Active
<1>2. /\ workers[b].verified => workers[b].missed = {}
      /\ workers[b].standard \notin Overwrites => workers[b].children = {}
  BY <1>1 DEF Accounted
<1>3. /\ Build(b, workers[b]).verified = workers[b].verified /\ Build(b, workers[b]).missed = workers[b].missed
      /\ Build(b, workers[b]).standard = workers[b].standard
      /\ Build(b, workers[b]).wiped = workers[b].children
      /\ Build(b, workers[b]).claims =
           Satisfied(Map(Build(b, workers[b]).standard, Media(Build(b, workers[b]).target), "none"))
  BY <1>1, BuildTyped
<1>4. "NIST_800_88_PURGE" \in Build(b, workers[b]).claims => workers[b].standard \notin Overwrites
  <2>1. workers[b].standard \in WipeStandards
    BY TargetTyped, ChoiceAssumption DEF Workers
  <2> QED
    BY <1>3, <2>1, PurgeClaimed DEF Overwrites
<1> QED
  BY <1>2, <1>3, <1>4 DEF Truthful

\* Honest is inductive.
LEMMA HonestKept ==
  ASSUME Honest, [Next]_vars
  PROVE  Honest'
<1>1. Shape /\ Shape'
  BY ShapeKept DEF Honest
<1>2. /\ workers \in Seq(Workers) /\ Len(workers) \in Nat /\ signals \in Seq(Signals)
      /\ content \in [Files -> {"absent", "data", "erased"}]
  BY <1>1 DEF Shape, TypeOK
<1>3. /\ \A b \in DOMAIN workers : Accounted(b)
      /\ \A c \in certs : Truthful(c)
      /\ \A i \in DOMAIN signals : \A c \in signals[i].cert : Truthful(c)
  BY DEF Honest
<1>4. ASSUME UNCHANGED <<certs, signals>>, \A b \in DOMAIN workers' : Accounted(b)'
      PROVE  Honest'
  BY <1>1, <1>3, <1>4 DEF Honest, Truthful
<1>5. ASSUME UNCHANGED <<content, workers, certs, signals>> PROVE Honest'
  BY <1>3, <1>4, <1>5 DEF Accounted, Holding, Target
<1>6. CASE UNCHANGED vars
  BY <1>5, <1>6 DEF vars
<1>7. ASSUME NEW t \in Targets, AddTarget(t) \/ RemoveTarget(t) PROVE Honest'
  BY <1>5, <1>7 DEF AddTarget, RemoveTarget
<1>8. CASE Acknowledge
  BY <1>5, <1>8 DEF Acknowledge
<1>9. ASSUME NEW s \in Standards, StartWipe(s) PROVE Honest'
  <2> DEFINE w == NewWorker(s, ui.targets)
  <2>1. workers' = Append(workers, w) /\ UNCHANGED <<content, signals, certs>>
    BY <1>9 DEF StartWipe
  <2>2. w.pc = "scan" /\ w.left = {} /\ w.children = {} /\ w.uncertified = {}
    BY DEF NewWorker
  <2> HIDE DEF w
  <2>3. PICK n \in Nat : n = Len(workers) + 1
    BY <1>2
  <2>4. /\ DOMAIN workers' = 1..n /\ workers'[n] = w
        /\ \A a \in DOMAIN workers : workers'[a] = workers[a]
    BY <1>2, <2>3, <2>1
  <2>5. Accounted(n)'
    BY <2>2, <2>4 DEF Accounted
  <2>6. ASSUME NEW a \in DOMAIN workers PROVE Accounted(a)'
    BY <1>1, <1>3, <2>1, <2>4, <2>6, LeftAlone
  <2>7. \A a \in DOMAIN workers' : a \in DOMAIN workers \/ a = n
    BY <1>2, <2>3, <2>4
  <2>8. ASSUME NEW a \in DOMAIN workers' PROVE Accounted(a)'
    <3>1. CASE a \in DOMAIN workers
      BY <2>6, <3>1
    <3>2. CASE a = n
      BY <2>5, <3>2
    <3> QED
      BY <2>7, <3>1, <3>2
  <2> QED
    BY <1>4, <2>1, <2>8
<1>10. CASE CancelReturns
  <2>1. UNCHANGED <<content, signals, certs>>
    BY <1>10 DEF CancelReturns
  <2>2. ASSUME NEW a \in DOMAIN workers PROVE Accounted(a)'
    <3>1. /\ workers'[a].pc = workers[a].pc /\ workers'[a].idx = workers[a].idx
          /\ workers'[a].targets = workers[a].targets /\ workers'[a].standard = workers[a].standard
          /\ workers'[a].children = workers[a].children /\ workers'[a].left = workers[a].left
          /\ workers'[a].unseen = workers[a].unseen /\ workers'[a].missed = workers[a].missed
          /\ workers'[a].verified = workers[a].verified
          /\ workers'[a].uncertified = workers[a].uncertified
      BY <1>2, <1>10, CancelReturned
    <3> QED
      BY <1>3, <2>1, <3>1 DEF Accounted, Holding, Target
  <2>3. DOMAIN workers' = DOMAIN workers
    BY <1>2, <1>10, CancelReturned
  <2> QED
    BY <1>4, <2>1, <2>2, <2>3
<1>15. CASE CancelWipe
  <2>1. CASE Running(Current)
    <3>1. workers' = [workers EXCEPT ![Current].terminated = TRUE] /\ UNCHANGED <<content, signals, certs>>
      BY <1>15, <2>1 DEF CancelWipe
    <3>2. /\ DOMAIN workers' = DOMAIN workers
          /\ \A a \in DOMAIN workers :
               /\ workers'[a].pc = workers[a].pc /\ workers'[a].idx = workers[a].idx
               /\ workers'[a].targets = workers[a].targets /\ workers'[a].children = workers[a].children
               /\ workers'[a].left = workers[a].left /\ workers'[a].unseen = workers[a].unseen
               /\ workers'[a].missed = workers[a].missed /\ workers'[a].verified = workers[a].verified
               /\ workers'[a].uncertified = workers[a].uncertified
               /\ workers'[a].standard = workers[a].standard
      BY <1>2, <3>1 DEF Workers
    <3>3. ASSUME NEW a \in DOMAIN workers PROVE Accounted(a)'
      BY <1>3, <3>1, <3>2 DEF Accounted, Holding, Target
    <3> QED
      BY <1>4, <3>1, <3>2, <3>3
  <2>2. CASE ~Running(Current)
    BY <1>5, <1>15, <2>2 DEF CancelWipe
  <2> QED
    BY <2>1, <2>2
<1>11. CASE Deliver
  <2>1. /\ certs' = certs \cup Head(signals).cert /\ signals' = Tail(signals) /\ signals # << >>
        /\ UNCHANGED <<content, workers>>
    BY <1>11 DEF Deliver
  <2>2. /\ Head(signals) = signals[1] /\ 1 \in DOMAIN signals
        /\ \A i \in DOMAIN signals' : i + 1 \in DOMAIN signals /\ signals'[i] = signals[i + 1]
    BY <1>2, <2>1, Delivered
  <2>3. \A c \in certs' : Truthful(c)
    BY <1>3, <2>1, <2>2
  <2>4. \A i \in DOMAIN signals' : \A c \in signals'[i].cert : Truthful(c)
    BY <1>3, <2>2
  <2>5. \A b \in DOMAIN workers : Accounted(b)'
    BY <1>3, <2>1 DEF Accounted, Holding, Target
  <2> QED
    BY <1>1, <2>1, <2>3, <2>4, <2>5 DEF Honest, Truthful
<1>12. ASSUME NEW b \in DOMAIN workers, WorkerStep(b) PROVE Honest'
  <2>1. PICK w \in Workers : Moved(b, w)
    BY <1>1, <1>12, StepMoves
  <2>2. UNCHANGED certs
    BY <1>1, <1>12, StepMoves
  <2>3. Become(b, w)
    BY <2>1 DEF Moved, Skipped, Scanned, Hashed, Overwritten, Rehashed, Issued, Raised, Ended, Onward, Same
  <2>4. DOMAIN workers' = DOMAIN workers /\ \A a \in DOMAIN workers : a # b => workers'[a] = workers[a]
    BY <1>2, <2>3, Updated
  <2>5. Accounted(b)'
    BY <1>1, <1>3, <2>1, MovedAccounted
  <2>6. ASSUME NEW a \in DOMAIN workers, a # b PROVE Accounted(a)'
    BY <1>1, <1>3, <2>1, <2>4, <2>6, MovedData, LeftAlone
  <2>7. \A i \in DOMAIN signals' : \A c \in signals'[i].cert : Truthful(c)
    <3>1. CASE UNCHANGED signals
      BY <1>3, <3>1
    <3>2. ASSUME NEW type, NEW cert, Emit(b, type, cert), \A c \in cert : Truthful(c)
          PROVE  \A i \in DOMAIN signals' : \A c \in signals'[i].cert : Truthful(c)
      <4>1. /\ DOMAIN signals' = 1..(Len(signals) + 1) /\ DOMAIN signals = 1..Len(signals) /\ Len(signals) \in Nat
            /\ signals'[Len(signals) + 1] = [type |-> type, batch |-> b, cert |-> cert]
            /\ \A i \in DOMAIN signals : signals'[i] = signals[i]
        BY <1>2, <3>2, Emitted
      <4>2. \A i \in DOMAIN signals' : i \in DOMAIN signals \/ i = Len(signals) + 1
        BY <4>1
      <4> QED
        BY <1>3, <3>2, <4>1, <4>2
    <3>3. CASE Issued(b, w)
      <4>1. Truthful(Build(b, workers[b]))
        BY <1>1, <1>3, <3>3, BuildTruthful DEF Issued
      <4> QED
        BY <3>2, <3>3, <4>1 DEF Issued
    <3>4. CASE Raised(b, w)
      BY <3>2, <3>4 DEF Raised
    <3>5. CASE Ended(b, w)
      BY <3>2, <3>5 DEF Ended
    <3> QED
      BY <2>1, <3>1, <3>3, <3>4, <3>5 DEF Moved, Skipped, Scanned, Hashed, Overwritten, Rehashed
  <2>8. \A c \in certs' : Truthful(c)
    BY <1>3, <2>2
  <2>9. \A a \in DOMAIN workers' : Accounted(a)'
    BY <2>4, <2>5, <2>6
  <2> QED
    BY <1>1, <2>7, <2>8, <2>9 DEF Honest, Truthful
<1>13. ASSUME NEW f \in Files, OtherWrites(f) PROVE Honest'
  <2> DEFINE In(b) == workers[b].pc \in {"hash", "wipe", "rehash"} /\ f \in Under[Target(b)]
             w(b) == [workers[b] EXCEPT !.unseen = IF In(b) THEN @ \cup {f} ELSE @]
  <2>1. workers' = [b \in DOMAIN workers |-> w(b)]
        /\ content' = [content EXCEPT ![f] = "data"] /\ UNCHANGED <<signals, certs>>
    BY <1>13 DEF OtherWrites
  <2>2. ASSUME NEW b \in DOMAIN workers PROVE Accounted(b)'
    <3>1. workers[b] \in Workers
      BY <1>2, <2>2
    <3>2. workers'[b] = w(b)
      BY <2>1, <2>2
    <3>3. /\ w(b).pc = workers[b].pc /\ w(b).idx = workers[b].idx /\ w(b).targets = workers[b].targets
          /\ w(b).children = workers[b].children /\ w(b).left = workers[b].left
          /\ w(b).unseen = (IF In(b) THEN workers[b].unseen \cup {f} ELSE workers[b].unseen)
          /\ w(b).missed = workers[b].missed /\ w(b).verified = workers[b].verified
          /\ w(b).uncertified = workers[b].uncertified /\ w(b).standard = workers[b].standard
      BY <3>1 DEF Workers
    <3> HIDE DEF w
    <3>4. Target(b)' = Target(b)
      BY <3>2, <3>3 DEF Target
    <3>5. Holding(Target(b))' \subseteq Holding(Target(b)) \cup ({f} \cap Under[Target(b)])
      <4>1. \A g : g # f /\ content'[g] = "data" => content[g] = "data"
        BY <1>2, <2>1
      <4> QED
        BY <3>4, <4>1 DEF Holding
    <3>6. w(b).pc \in {"hash", "wipe", "rehash"} /\ w(b).verified =>
            Holding(Target(b))' \subseteq w(b).left \cup w(b).unseen
      <4>1. w(b).pc \in {"hash", "wipe", "rehash"} /\ w(b).verified =>
              Holding(Target(b)) \subseteq w(b).left \cup workers[b].unseen
        BY <1>3, <3>3 DEF Accounted
      <4> QED
        BY <3>3, <3>5, <4>1
    <3> HIDE DEF In
    <3>7. Accounted(b)
      BY <1>3
    <3> QED
      BY <3>2, <3>3, <3>6, <3>7 DEF Accounted
  <2>3. DOMAIN workers' = DOMAIN workers
    BY <2>1
  <2> QED
    BY <1>4, <2>1, <2>2, <2>3
<1>14. ASSUME NEW f \in Files, OtherRemoves(f) PROVE Honest'
  <2>1. /\ UNCHANGED <<workers, signals, certs>>
        /\ \A g \in Files : content'[g] = "data" => content[g] = "data"
    BY <1>2, <1>14 DEF OtherRemoves
  <2>2. ASSUME NEW a \in DOMAIN workers PROVE Accounted(a)'
    BY <1>1, <1>3, <2>1, <2>2, LeftAlone
  <2> QED
    BY <1>4, <2>1, <2>2
<1> QED
  BY <1>6, <1>7, <1>8, <1>9, <1>10, <1>11, <1>12, <1>13, <1>14, <1>15 DEF Next

\* It holds at the start.
LEMMA HonestInit == Init => Honest
BY ShapeInit DEF Init, Honest

\* However a batch ends, what it has overwritten without a certificate belongs
\* to the one target it was at (WipeWorker.run).
THEOREM OneTargetUncertified == Spec => []UncertifiedIsCurrent
<1>1. Honest => UncertifiedIsCurrent
  BY DEF Honest, Accounted, UncertifiedIsCurrent
<1> QED
  BY <1>1, HonestInit, HonestKept, PTL DEF Spec

\* A verified certificate leaves out only what the scan had not seen.
THEOREM OnlyUnseenSurvives == Spec => []UnwipedIsUnseen
<1>1. Honest => UnwipedIsUnseen
  BY DEF Honest, Truthful, UnwipedIsUnseen
<1> QED
  BY <1>1, HonestInit, HonestKept, PTL DEF Spec

\* What the program has overwritten is never certified as purged, whatever the
\* media and the folders (WipeWorker.run, WipeEngine.wipe, ComplianceMapper.map).
THEOREM NoPurgeClaimed == Spec => []OverwritingIsNoPurge
<1>1. Honest => OverwritingIsNoPurge
  BY DEF Honest, Truthful, OverwritingIsNoPurge
<1> QED
  BY <1>1, HonestInit, HonestKept, PTL DEF Spec

-----------------------------------------------------------------------------
(* The order of the batches while no thread has outlived its cancellation.  *)

NoneOutlived == \A b \in DOMAIN workers : ~workers[b].outlived

\* What another program's writing makes of the workers.
LEMMA OtherWritten ==
  ASSUME Shape, NEW f \in Files, OtherWrites(f)
  PROVE  /\ DOMAIN workers' = DOMAIN workers /\ Len(workers') = Len(workers)
         /\ \A a \in DOMAIN workers :
              /\ workers'[a].pc = workers[a].pc /\ workers'[a].idx = workers[a].idx
              /\ workers'[a].targets = workers[a].targets
              /\ workers'[a].terminated = workers[a].terminated
              /\ workers'[a].outlived = workers[a].outlived
<1> DEFINE In(b) == workers[b].pc \in {"hash", "wipe", "rehash"} /\ f \in Under[Target(b)]
           w(b) == [workers[b] EXCEPT !.unseen = IF In(b) THEN @ \cup {f} ELSE @]
<1>1. workers \in Seq(Workers) /\ workers' = [b \in DOMAIN workers |-> w(b)]
  BY DEF Shape, TypeOK, OtherWrites
<1>2. ASSUME NEW b \in DOMAIN workers
      PROVE  /\ w(b).pc = workers[b].pc /\ w(b).idx = workers[b].idx /\ w(b).targets = workers[b].targets
             /\ w(b).terminated = workers[b].terminated /\ w(b).outlived = workers[b].outlived
  BY <1>1, <1>2 DEF Workers
<1> HIDE DEF w
<1> QED
  BY <1>1, <1>2

\* A thread that has outlived its cancellation remains one that has.
LEMMA OutlivedStays ==
  ASSUME Shape, [Next]_vars
  PROVE  /\ DOMAIN workers \subseteq DOMAIN workers'
         /\ \A a \in DOMAIN workers : workers[a].outlived => workers'[a].outlived
<1>1. workers \in Seq(Workers) /\ Len(workers) \in Nat
  BY DEF Shape, TypeOK
<1>2. ASSUME UNCHANGED workers
      PROVE  /\ DOMAIN workers \subseteq DOMAIN workers'
             /\ \A a \in DOMAIN workers : workers[a].outlived => workers'[a].outlived
  BY <1>2
<1>3. ASSUME NEW s \in Standards, StartWipe(s)
      PROVE  /\ DOMAIN workers \subseteq DOMAIN workers'
             /\ \A a \in DOMAIN workers : workers'[a] = workers[a]
  <2> DEFINE w == NewWorker(s, ui.targets)
  <2>1. workers' = Append(workers, w)
    BY <1>3 DEF StartWipe
  <2> HIDE DEF w
  <2> QED
    BY <1>1, <2>1
<1>4. ASSUME workers' = [workers EXCEPT ![Current].terminated = TRUE]
      PROVE  /\ DOMAIN workers' = DOMAIN workers
             /\ \A a \in DOMAIN workers : workers'[a].outlived = workers[a].outlived
  BY <1>1, <1>4 DEF Workers
<1>5. ASSUME NEW b \in DOMAIN workers, WorkerStep(b)
      PROVE  /\ DOMAIN workers' = DOMAIN workers
             /\ \A a \in DOMAIN workers : workers'[a].outlived = workers[a].outlived
  <2>1. PICK w \in Workers : Moved(b, w)
    BY <1>5, StepMoves
  <2>2. Become(b, w) /\ w.outlived = workers[b].outlived
    BY <2>1 DEF Moved, Skipped, Scanned, Hashed, Overwritten, Rehashed, Issued, Raised, Ended, Onward, Same
  <2> QED
    BY <1>1, <2>2, Updated
<1>6. CASE CancelWipe
  BY <1>2, <1>4, <1>6 DEF CancelWipe
<1>7. CASE CancelReturns
  BY <1>1, <1>7, CancelReturned
<1>8. ASSUME NEW f \in Files, OtherWrites(f)
      PROVE  /\ DOMAIN workers \subseteq DOMAIN workers'
             /\ \A a \in DOMAIN workers : workers[a].outlived => workers'[a].outlived
  BY <1>8, OtherWritten
<1>9. CASE Deliver \/ Acknowledge \/ UNCHANGED vars
  BY <1>2, <1>9 DEF Deliver, Acknowledge, vars
<1>10. ASSUME NEW t \in Targets, AddTarget(t) \/ RemoveTarget(t)
       PROVE  UNCHANGED workers
  BY <1>10 DEF AddTarget, RemoveTarget
<1>11. ASSUME NEW f \in Files, OtherRemoves(f)
       PROVE  UNCHANGED workers
  BY <1>11 DEF OtherRemoves
<1> QED
  BY <1>2, <1>3, <1>5, <1>6, <1>7, <1>8, <1>9, <1>10, <1>11 DEF Next

\* None has outlived its cancellation if none has after a step.
LEMMA NoneBefore ==
  ASSUME Shape, [Next]_vars, NoneOutlived'
  PROVE  NoneOutlived
BY OutlivedStays DEF NoneOutlived

\* Only the last worker may run, the start button is there only when it does
\* not, and what is undelivered comes from it, its end only once it is gone.
Ordered ==
  /\ Shape
  /\ \A b \in DOMAIN workers : b # Current \/ ui.start => workers[b].pc = "gone"
  /\ \A i \in DOMAIN signals :
       /\ signals[i].batch = Current /\ Current \in DOMAIN workers
       /\ signals[i].type = "finished" => workers[Current].pc = "gone"

\* What a step emits is the end only of a worker that is gone.
LEMMA EndsGone ==
  ASSUME NEW b, NEW w, Moved(b, w)
  PROVE  \/ UNCHANGED signals
         \/ \E type, cert : Emit(b, type, cert) /\ (type = "finished" => w.pc = "gone")
BY DEF Moved, Skipped, Scanned, Hashed, Overwritten, Rehashed, Issued, Raised, Ended

\* Only a worker that runs takes a step.
LEMMA MovedRunning ==
  ASSUME NEW b, NEW w, Moved(b, w)
  PROVE  workers[b].pc # "gone"
BY DEF Moved, Skipped, Scanned, Hashed, Overwritten, Rehashed, Issued, Raised, Ended, At, Active, Running

\* Ordered is inductive while none has outlived its cancellation.
LEMMA OrderedKept ==
  ASSUME Ordered, NoneOutlived', [Next]_vars
  PROVE  Ordered'
<1>1. Shape /\ Shape'
  BY ShapeKept DEF Ordered
<1>2. /\ workers \in Seq(Workers) /\ Len(workers) \in Nat /\ signals \in Seq(Signals)
      /\ ui \in [targets : Seq(Targets), start : BOOLEAN, cancel : BOOLEAN,
                 loop : {"idle", "wait", "dialog"}]
      /\ DOMAIN workers = 1..Len(workers)
  BY <1>1 DEF Shape, TypeOK
<1>3. /\ \A b \in DOMAIN workers : b # Current \/ ui.start => workers[b].pc = "gone"
      /\ \A i \in DOMAIN signals :
           /\ signals[i].batch = Current /\ Current \in DOMAIN workers
           /\ signals[i].type = "finished" => workers[Current].pc = "gone"
  BY DEF Ordered
<1>4. ASSUME UNCHANGED <<workers, signals>>,
             ui'.start => ui.start \/ (Current \in DOMAIN workers => ~Running(Current))
      PROVE  Ordered'
  BY <1>1, <1>3, <1>4 DEF Ordered, Current, Running
<1>5. CASE UNCHANGED vars
  BY <1>4, <1>5 DEF vars
<1>6. ASSUME NEW t \in Targets, AddTarget(t) \/ RemoveTarget(t) PROVE Ordered'
  BY <1>2, <1>4, <1>6 DEF AddTarget, RemoveTarget
<1>7. CASE CancelReturns
  <2>1. UNCHANGED signals
    BY <1>7 DEF CancelReturns
  <2>2. /\ DOMAIN workers' = DOMAIN workers /\ Len(workers') = Len(workers)
        /\ \A a \in DOMAIN workers : workers'[a].pc = workers[a].pc
        /\ Current \in DOMAIN workers => ~Running(Current)
    BY <1>2, <1>7, CancelReturned DEF NoneOutlived
  <2> QED
    BY <1>1, <1>3, <2>1, <2>2 DEF Ordered, Current, Running
<1>8. CASE Acknowledge
  BY <1>2, <1>4, <1>8 DEF Acknowledge
<1>9. ASSUME NEW s \in Standards, StartWipe(s) PROVE Ordered'
  <2> DEFINE w == NewWorker(s, ui.targets)
  <2>1. workers' = Append(workers, w) /\ signals = << >> /\ UNCHANGED signals /\ ui.start
        /\ ui' = [ui EXCEPT !.start = FALSE, !.cancel = TRUE]
    BY <1>9 DEF StartWipe
  <2> HIDE DEF w
  <2>2. /\ DOMAIN workers' = 1..(Len(workers) + 1) /\ Len(workers') = Len(workers) + 1
        /\ \A a \in DOMAIN workers : workers'[a] = workers[a]
    BY <1>2, <2>1
  <2>3. ~ui'.start /\ DOMAIN signals' = {}
    BY <1>2, <2>1
  <2> QED
    BY <1>1, <1>2, <1>3, <2>1, <2>2, <2>3 DEF Ordered, Current
<1>10. CASE CancelWipe
  <2>1. CASE Running(Current)
    <3>1. workers' = [workers EXCEPT ![Current].terminated = TRUE] /\ UNCHANGED signals
          /\ ui' = [ui EXCEPT !.loop = "wait"]
      BY <1>10, <2>1 DEF CancelWipe
    <3>2. /\ DOMAIN workers' = DOMAIN workers /\ Len(workers') = Len(workers)
          /\ \A a \in DOMAIN workers : workers'[a].pc = workers[a].pc
          /\ ui'.start = ui.start
      BY <1>2, <3>1 DEF Workers
    <3> QED
      BY <1>1, <1>3, <3>1, <3>2 DEF Ordered, Current
  <2>2. CASE ~Running(Current)
    BY <1>2, <1>4, <1>10, <2>2 DEF CancelWipe
  <2> QED
    BY <2>1, <2>2
<1>11. CASE Deliver
  <2>1. /\ signals' = Tail(signals) /\ signals # << >> /\ UNCHANGED workers
        /\ ui' = CASE Head(signals).type = "failed" -> [ui EXCEPT !.loop = "dialog"]
                   [] Head(signals).type = "finished" -> [ui EXCEPT !.start = TRUE, !.cancel = FALSE]
                   [] OTHER -> ui
    BY <1>11 DEF Deliver
  <2>2. /\ Head(signals) = signals[1] /\ 1 \in DOMAIN signals
        /\ \A i \in DOMAIN signals' : i + 1 \in DOMAIN signals /\ signals'[i] = signals[i + 1]
    BY <1>2, <2>1, Delivered
  <2>3. ui'.start => ui.start \/ Head(signals).type = "finished"
    BY <1>2, <2>1
  <2>4. ui'.start => ui.start \/ workers[Current].pc = "gone"
    BY <1>3, <2>2, <2>3
  <2> QED
    BY <1>1, <1>3, <2>1, <2>2, <2>4 DEF Ordered, Current
<1>12. ASSUME NEW b \in DOMAIN workers, WorkerStep(b) PROVE Ordered'
  <2>1. PICK w \in Workers : Moved(b, w)
    BY <1>1, <1>12, StepMoves
  <2>2. UNCHANGED ui
    BY <1>1, <1>12, StepMoves
  <2>3. Become(b, w) /\ workers[b].pc # "gone"
    BY <2>1, MovedRunning DEF Moved, Skipped, Scanned, Hashed, Overwritten, Rehashed, Issued, Raised, Ended, Onward, Same
  <2>4. /\ Len(workers') = Len(workers) /\ DOMAIN workers' = DOMAIN workers /\ workers'[b] = w
        /\ \A a \in DOMAIN workers : a # b => workers'[a] = workers[a]
    BY <1>2, <2>3, Updated
  <2>5. b = Current /\ ~ui.start /\ Current' = Current
    BY <1>3, <2>3, <2>4 DEF Current
  <2>6. \A a \in DOMAIN workers' : a # Current' \/ ui'.start => workers'[a].pc = "gone"
    BY <1>3, <2>2, <2>4, <2>5
  <2>7. \A i \in DOMAIN signals : signals[i].type # "finished"
    BY <1>3, <2>3, <2>5
  <2>8. \A i \in DOMAIN signals' :
          /\ signals'[i].batch = Current' /\ Current' \in DOMAIN workers'
          /\ signals'[i].type = "finished" => workers'[Current'].pc = "gone"
    <3>1. CASE UNCHANGED signals
      BY <1>3, <2>4, <2>5, <2>7, <3>1
    <3>2. ASSUME NEW type, NEW cert, Emit(b, type, cert), type = "finished" => w.pc = "gone"
          PROVE  \A i \in DOMAIN signals' :
                   /\ signals'[i].batch = Current' /\ Current' \in DOMAIN workers'
                   /\ signals'[i].type = "finished" => workers'[Current'].pc = "gone"
      <4>1. /\ DOMAIN signals' = 1..(Len(signals) + 1) /\ DOMAIN signals = 1..Len(signals) /\ Len(signals) \in Nat
            /\ signals'[Len(signals) + 1] = [type |-> type, batch |-> b, cert |-> cert]
            /\ \A i \in DOMAIN signals : signals'[i] = signals[i]
        BY <1>2, <3>2, Emitted
      <4>2. \A i \in DOMAIN signals' : i \in DOMAIN signals \/ i = Len(signals) + 1
        BY <4>1
      <4> QED
        BY <1>3, <2>4, <2>5, <2>7, <3>2, <4>1, <4>2
    <3> QED
      BY <2>1, <3>1, <3>2, EndsGone
  <2> QED
    BY <1>1, <2>6, <2>8 DEF Ordered
<1>13. ASSUME NEW f \in Files, OtherWrites(f) PROVE Ordered'
  <2>1. UNCHANGED <<signals, ui>>
    BY <1>13 DEF OtherWrites
  <2>2. /\ DOMAIN workers' = DOMAIN workers /\ Len(workers') = Len(workers)
        /\ \A b \in DOMAIN workers : workers'[b].pc = workers[b].pc
    BY <1>1, <1>13, OtherWritten
  <2> QED
    BY <1>1, <1>3, <2>1, <2>2 DEF Ordered, Current
<1>14. ASSUME NEW f \in Files, OtherRemoves(f) PROVE Ordered'
  BY <1>4, <1>14 DEF OtherRemoves
<1> QED
  BY <1>5, <1>6, <1>7, <1>8, <1>9, <1>10, <1>11, <1>12, <1>13, <1>14 DEF Next

\* It holds at the start.
LEMMA OrderedInit == Init => Ordered
BY ShapeInit DEF Init, Ordered

-----------------------------------------------------------------------------
(* What a batch is reported to have done.                                   *)

\* Target i of batch b needs no certificate, has one, or has one on its way.
Logged(b, i) ==
  \/ Kind[workers[b].targets[i]] = "other"
  \/ \E c \in certs : c.batch = b /\ c.position = i /\ c.target = workers[b].targets[i]
  \/ \E j \in DOMAIN signals : signals[j].batch = b /\
       \E c \in signals[j].cert : c.batch = b /\ c.position = i /\ c.target = workers[b].targets[i]

\* The failure of b is logged, or bound to be.
Failing(b) ==
  \/ "failed" \in ended[b]
  \/ b = Current /\ ui.loop \in {"wait", "dialog"}
  \/ \E i \in DOMAIN signals : signals[i].batch = b /\ signals[i].type = "failed"

\* The targets that b has passed are logged, all of them at its end, unless it
\* fails; its completion is logged after everything it has emitted.
Covered(b) ==
  LET v == workers[b] IN
  /\ v.pc \in Active => \A i \in DOMAIN v.targets : i < v.idx => Logged(b, i)
  /\ v.pc \notin Active => Failing(b) \/ \A i \in DOMAIN v.targets : Logged(b, i)
  /\ v.terminated => Failing(b)
  /\ "completed" \in ended[b] => v.pc = "gone" /\ \A i \in DOMAIN signals : signals[i].batch # b

Reported ==
  /\ Ordered
  /\ \A b \in DOMAIN workers : Covered(b)
  /\ \A i \in DOMAIN signals : signals[i].type = "finished" => i = Len(signals)
  /\ ui.loop = "wait" => \A b \in DOMAIN workers : b = Current => "completed" \notin ended[b]
  /\ \A b \in Batches : b \notin DOMAIN workers => ended[b] = {}

\* A target stays logged while certificates stay, or arrive, or are on their way.
LEMMA LoggedKept ==
  ASSUME NEW b, NEW i, Logged(b, i), workers'[b].targets = workers[b].targets,
         certs \subseteq certs',
         \A j \in DOMAIN signals :
           signals[j].cert \subseteq certs' \/ \E k \in DOMAIN signals' : signals'[k] = signals[j]
  PROVE  Logged(b, i)'
BY DEF Logged

\* Steps that leave the progress of the workers, their signals and certificates
\* alone keep it, if they forget no failure and log no completion.
LEMMA ReportedAlone ==
  ASSUME Reported, Ordered', UNCHANGED <<signals, certs>>,
         DOMAIN workers' = DOMAIN workers, Len(workers') = Len(workers),
         \A b \in DOMAIN workers :
           /\ workers'[b].pc = workers[b].pc /\ workers'[b].idx = workers[b].idx
           /\ workers'[b].targets = workers[b].targets
           /\ workers'[b].terminated => workers[b].terminated \/ Failing(b)'
           /\ Failing(b) => Failing(b)'
           /\ "completed" \in ended'[b] => "completed" \in ended[b],
         \A b \in Batches : b \notin DOMAIN workers => ended'[b] = {},
         ui'.loop = "wait" => \A b \in DOMAIN workers : b = Current => "completed" \notin ended'[b]
  PROVE  Reported'
<1>1. ASSUME NEW b \in DOMAIN workers PROVE Covered(b)'
  <2>1. Covered(b)
    BY DEF Reported
  <2>2. ASSUME NEW i, Logged(b, i) PROVE Logged(b, i)'
    BY <2>2, LoggedKept
  <2> QED
    BY <2>1, <2>2 DEF Covered
<1> QED
  BY <1>1 DEF Reported, Current

\* Reported is inductive while none has outlived its cancellation.
LEMMA ReportedKept ==
  ASSUME Reported, NoneOutlived', [Next]_vars
  PROVE  Reported'
<1>1. Ordered /\ Ordered' /\ Shape
  BY OrderedKept DEF Reported, Ordered
<1>2. /\ workers \in Seq(Workers) /\ Len(workers) \in Nat /\ signals \in Seq(Signals)
      /\ Len(workers) <= MaxBatches /\ MaxBatches \in Nat
      /\ ui \in [targets : Seq(Targets), start : BOOLEAN, cancel : BOOLEAN,
                 loop : {"idle", "wait", "dialog"}]
      /\ ended \in [Batches -> SUBSET {"failed", "completed"}]
      /\ DOMAIN workers = 1..Len(workers) /\ DOMAIN workers \subseteq Batches
  BY <1>1, ChoiceAssumption DEF Shape, TypeOK, Batches
<1>3. /\ \A b \in DOMAIN workers : Covered(b)
      /\ \A i \in DOMAIN signals : signals[i].type = "finished" => i = Len(signals)
      /\ ui.loop = "wait" => \A b \in DOMAIN workers : b = Current => "completed" \notin ended[b]
      /\ \A b \in Batches : b \notin DOMAIN workers => ended[b] = {}
  BY DEF Reported
<1>4. /\ \A b \in DOMAIN workers : b # Current \/ ui.start => workers[b].pc = "gone"
      /\ \A i \in DOMAIN signals :
           /\ signals[i].batch = Current /\ Current \in DOMAIN workers
           /\ signals[i].type = "finished" => workers[Current].pc = "gone"
  BY <1>1 DEF Ordered
<1>5. ASSUME UNCHANGED <<workers, signals, certs, ended>>, ui'.loop = ui.loop PROVE Reported'
  <2>1. \A b \in DOMAIN workers : Failing(b) => Failing(b)'
    BY <1>5 DEF Failing, Current
  <2> QED
    BY <1>1, <1>3, <1>5, <2>1, ReportedAlone
<1>6. CASE UNCHANGED vars
  BY <1>5, <1>6 DEF vars
<1>7. ASSUME NEW t \in Targets, AddTarget(t) \/ RemoveTarget(t) PROVE Reported'
  BY <1>2, <1>5, <1>7 DEF AddTarget, RemoveTarget
<1>8. CASE CancelReturns \/ Acknowledge
  <2>1. /\ UNCHANGED <<signals, certs>> /\ ui'.loop = "idle"
        /\ ended' = [ended EXCEPT ![Current] = @ \cup {"failed"}]
    BY <1>2, <1>8 DEF CancelReturns, Acknowledge
  <2>4. /\ DOMAIN workers' = DOMAIN workers /\ Len(workers') = Len(workers)
        /\ \A a \in DOMAIN workers :
             /\ workers'[a].pc = workers[a].pc /\ workers'[a].idx = workers[a].idx
             /\ workers'[a].targets = workers[a].targets
             /\ workers'[a].terminated = workers[a].terminated
    <3>1. CASE CancelReturns
      BY <1>2, <3>1, CancelReturned
    <3>2. CASE Acknowledge
      BY <3>2 DEF Acknowledge
    <3> QED
      BY <1>8, <3>1, <3>2
  <2>2. \A b \in DOMAIN workers : Failing(b) => Failing(b)'
    BY <1>2, <2>1, <2>4 DEF Failing, Current
  <2>3. /\ \A b \in DOMAIN workers : "completed" \in ended'[b] => "completed" \in ended[b]
        /\ \A b \in Batches : b \notin DOMAIN workers => ended'[b] = {}
    <3>1. ASSUME NEW b \in Batches, b = Current PROVE b \in DOMAIN workers
      <4>1. b \in Nat /\ 1 <= b /\ b <= Len(workers)
        BY <1>2, <3>1 DEF Current, Batches
      <4> QED
        BY <1>2, <4>1
    <3>2. \A b \in Batches : b # Current => ended'[b] = ended[b]
      BY <1>2, <2>1
    <3>3. \A b \in Batches : "completed" \in ended'[b] => "completed" \in ended[b]
      BY <1>2, <2>1
    <3> QED
      BY <1>2, <1>3, <3>1, <3>2, <3>3
  <2> QED
    BY <1>1, <2>1, <2>2, <2>3, <2>4, ReportedAlone
<1>9. ASSUME NEW s \in Standards, StartWipe(s) PROVE Reported'
  <2> DEFINE w == NewWorker(s, ui.targets)
  <2>1. /\ workers' = Append(workers, w) /\ signals = << >> /\ UNCHANGED <<signals, certs, ended>>
        /\ ui.start /\ ui.loop = "idle" /\ ui' = [ui EXCEPT !.start = FALSE, !.cancel = TRUE]
        /\ Len(workers) < MaxBatches
    BY <1>9 DEF StartWipe
  <2>2. w.pc = "scan" /\ w.idx = 1 /\ w.targets = ui.targets /\ ~w.terminated
    BY DEF NewWorker
  <2> HIDE DEF w
  <2>3. PICK n \in Nat : n = Len(workers) + 1
    BY <1>2
  <2>4. /\ DOMAIN workers' = 1..n /\ workers'[n] = w /\ n \in Batches /\ n \notin DOMAIN workers
        /\ \A a \in DOMAIN workers : workers'[a] = workers[a]
    BY <1>2, <2>1, <2>3 DEF Batches
  <2>5. Covered(n)'
    <3>1. \A i \in DOMAIN w.targets : ~(i < 1)
      BY <1>2, <2>2
    <3>2. ended'[n] = {}
      BY <1>3, <2>1, <2>4
    <3> QED
      BY <2>2, <2>4, <3>1, <3>2 DEF Covered, Active
  <2>6. ASSUME NEW a \in DOMAIN workers PROVE Covered(a)'
    <3>1. Covered(a) /\ workers'[a] = workers[a]
      BY <1>3, <2>4
    <3>2. Failing(a) => Failing(a)'
      BY <2>1 DEF Failing
    <3>3. ASSUME NEW i, Logged(a, i) PROVE Logged(a, i)'
      BY <2>1, <3>1, <3>3, LoggedKept
    <3> QED
      BY <2>1, <3>1, <3>2, <3>3 DEF Covered
  <2>7. ASSUME NEW a \in DOMAIN workers' PROVE Covered(a)'
    <3>1. a \in DOMAIN workers \/ a = n
      BY <1>2, <2>3, <2>4, <2>7
    <3>2. CASE a = n
      BY <2>5, <3>2
    <3> QED
      BY <2>6, <3>1, <3>2
  <2>8. /\ ui'.loop = "idle" /\ \A i \in DOMAIN signals' : signals'[i].type = "finished" => i = Len(signals')
        /\ \A b \in Batches : b \notin DOMAIN workers' => ended'[b] = {}
    BY <1>2, <1>3, <2>1, <2>3, <2>4
  <2> QED
    BY <1>1, <2>7, <2>8 DEF Reported
<1>10. CASE CancelWipe
  <2>1. CASE Running(Current)
    <3>1. workers' = [workers EXCEPT ![Current].terminated = TRUE] /\ UNCHANGED <<signals, certs, ended>>
          /\ ui' = [ui EXCEPT !.loop = "wait"]
      BY <1>10, <2>1 DEF CancelWipe
    <3>2. /\ DOMAIN workers' = DOMAIN workers /\ Len(workers') = Len(workers) /\ ui'.loop = "wait"
          /\ \A a \in DOMAIN workers :
               /\ workers'[a].pc = workers[a].pc /\ workers'[a].idx = workers[a].idx
               /\ workers'[a].targets = workers[a].targets
               /\ a # Current => workers'[a] = workers[a]
      BY <1>2, <3>1 DEF Workers
    <3>3. \A b \in DOMAIN workers : Failing(b) => Failing(b)'
      BY <3>1, <3>2 DEF Failing, Current
    <3>4. \A b \in DOMAIN workers : b = Current => Failing(b)'
      BY <3>2 DEF Failing, Current
    <3>5. \A b \in DOMAIN workers : b = Current => "completed" \notin ended'[b]
      BY <1>3, <2>1, <3>1 DEF Covered, Running
    <3> QED
      BY <1>1, <1>3, <3>1, <3>2, <3>3, <3>4, <3>5, ReportedAlone
  <2>2. CASE ~Running(Current)
    BY <1>2, <1>5, <1>10, <2>2 DEF CancelWipe
  <2> QED
    BY <2>1, <2>2
<1>11. CASE Deliver
  <2> DEFINE s == Head(signals)
  <2>1. /\ signals' = Tail(signals) /\ signals # << >> /\ UNCHANGED workers /\ ui.loop # "wait"
        /\ certs' = certs \cup s.cert
        /\ ended' = IF s.type = "finished" THEN [ended EXCEPT ![s.batch] = @ \cup {"completed"}] ELSE ended
        /\ ui' = CASE s.type = "failed" -> [ui EXCEPT !.loop = "dialog"]
                   [] s.type = "finished" -> [ui EXCEPT !.start = TRUE, !.cancel = FALSE]
                   [] OTHER -> ui
    BY <1>11 DEF Deliver
  <2>2. /\ s = signals[1] /\ 1 \in DOMAIN signals /\ Len(signals) \in Nat \ {0} /\ Len(signals') = Len(signals) - 1
        /\ DOMAIN signals = 1..Len(signals) /\ DOMAIN signals' = 1..(Len(signals) - 1)
        /\ \A i \in DOMAIN signals' : i + 1 \in DOMAIN signals /\ signals'[i] = signals[i + 1]
    BY <1>2, <2>1, Delivered
  <2> HIDE DEF s
  <2>3. /\ s.batch = Current /\ Current \in DOMAIN workers
        /\ s.type = "finished" => workers[Current].pc = "gone" /\ DOMAIN signals' = {}
    BY <1>3, <1>4, <2>2
  <2>4. ui'.loop = IF s.type = "failed" THEN "dialog" ELSE ui.loop
    BY <1>2, <2>1
  <2>5. \A j \in DOMAIN signals : j = 1 \/ \E k \in DOMAIN signals' : signals'[k] = signals[j]
    <3>1. ASSUME NEW j \in DOMAIN signals, j # 1 PROVE j - 1 \in DOMAIN signals' /\ signals'[j - 1] = signals[j]
      BY <2>2, <3>1
    <3> QED
      BY <3>1
  <2>6. ASSUME NEW b \in DOMAIN workers PROVE Covered(b)'
    <3>1. Covered(b)
      BY <1>3
    <3>2. ASSUME NEW i, Logged(b, i) PROVE Logged(b, i)'
      BY <2>1, <2>2, <2>5, <3>2, LoggedKept
    <3>3. Failing(b) => Failing(b)'
      <4>1. CASE "failed" \in ended[b]
        <5>1. "failed" \in ended'[b]
          BY <1>2, <2>1, <4>1
        <5> QED
          BY <5>1 DEF Failing
      <4>2. CASE b = Current /\ ui.loop \in {"wait", "dialog"}
        BY <2>1, <2>4, <4>2 DEF Failing, Current
      <4>3. CASE \E i \in DOMAIN signals : signals[i].batch = b /\ signals[i].type = "failed"
        <5>1. CASE s.type = "failed"
          <6>1. b = Current
            BY <1>4, <4>3
          <6> QED
            BY <2>1, <2>4, <5>1, <6>1 DEF Failing, Current
        <5>2. CASE s.type # "failed"
          BY <2>2, <2>5, <4>3, <5>2 DEF Failing
        <5> QED
          BY <5>1, <5>2
      <4> QED
        BY <4>1, <4>2, <4>3 DEF Failing
    <3>4. "completed" \in ended'[b] => workers[b].pc = "gone" /\ \A i \in DOMAIN signals' : signals'[i].batch # b
      <4>1. CASE "completed" \in ended[b]
        BY <2>2, <3>1, <4>1 DEF Covered
      <4>2. CASE "completed" \notin ended[b] /\ "completed" \in ended'[b]
        <5>1. s.type = "finished" /\ b = s.batch
          BY <1>2, <2>1, <4>2
        <5> QED
          BY <2>3, <5>1
      <4> QED
        BY <4>1, <4>2
    <3> QED
      BY <2>1, <3>1, <3>2, <3>3, <3>4 DEF Covered
  <2>7. \A i \in DOMAIN signals' : signals'[i].type = "finished" => i = Len(signals')
    BY <1>3, <2>2
  <2>8. \A b \in Batches : b \notin DOMAIN workers => ended'[b] = {}
    BY <1>2, <1>3, <2>1, <2>3
  <2>9. ui'.loop # "wait"
    BY <2>1, <2>4
  <2> QED
    BY <1>1, <2>1, <2>6, <2>7, <2>8, <2>9 DEF Reported
<1>12. ASSUME NEW b \in DOMAIN workers, WorkerStep(b) PROVE Reported'
  <2>1. PICK w \in Workers : Moved(b, w)
    BY <1>1, <1>12, StepMoves
  <2>2. UNCHANGED <<ui, certs, ended>>
    BY <1>1, <1>12, StepMoves
  <2>3. Become(b, w) /\ workers[b].pc # "gone" /\ w.targets = workers[b].targets /\ w.terminated = workers[b].terminated
    BY <2>1, MovedRunning DEF Moved, Skipped, Scanned, Hashed, Overwritten, Rehashed, Issued, Raised, Ended, Onward, Same
  <2>4. /\ Len(workers') = Len(workers) /\ DOMAIN workers' = DOMAIN workers /\ workers'[b] = w
        /\ \A a \in DOMAIN workers : a # b => workers'[a] = workers[a]
    BY <1>2, <2>3, Updated
  <2>5. b = Current /\ Current' = Current
    BY <1>4, <2>3, <2>4 DEF Current
  <2>6. \A i \in DOMAIN signals : signals[i].type # "finished"
    BY <1>4, <2>3, <2>5
  <2>7. /\ \A j \in DOMAIN signals : j \in DOMAIN signals' /\ signals'[j] = signals[j]
        /\ \A j \in DOMAIN signals' : j \in DOMAIN signals \/ (j = Len(signals') /\ signals'[j].batch = b)
    <3>1. CASE UNCHANGED signals
      BY <3>1
    <3>2. ASSUME NEW type, NEW cert, Emit(b, type, cert)
          PROVE  /\ \A j \in DOMAIN signals : j \in DOMAIN signals' /\ signals'[j] = signals[j]
                 /\ \A j \in DOMAIN signals' : j \in DOMAIN signals \/ (j = Len(signals') /\ signals'[j].batch = b)
      <4>1. /\ DOMAIN signals' = 1..(Len(signals) + 1) /\ DOMAIN signals = 1..Len(signals) /\ Len(signals) \in Nat
            /\ Len(signals') = Len(signals) + 1
            /\ signals'[Len(signals) + 1] = [type |-> type, batch |-> b, cert |-> cert]
            /\ \A i \in DOMAIN signals : signals'[i] = signals[i]
        BY <1>2, <3>2, Emitted
      <4> QED
        BY <4>1
    <3> QED
      BY <2>1, <3>1, <3>2, EndsGone
  <2>8. \A i \in DOMAIN signals' : signals'[i].type = "finished" => i = Len(signals')
    BY <2>6, <2>7
  <2>9. ASSUME NEW a \in DOMAIN workers
        PROVE  /\ Failing(a) => Failing(a)'
               /\ \A i : Logged(a, i) => Logged(a, i)'
    <3>1. workers'[a].targets = workers[a].targets
      BY <2>3, <2>4
    <3>2. ASSUME NEW i, Logged(a, i) PROVE Logged(a, i)'
      BY <2>2, <2>7, <3>1, <3>2, LoggedKept
    <3>3. Failing(a) => Failing(a)'
      BY <2>2, <2>5, <2>7 DEF Failing
    <3> QED
      BY <3>2, <3>3
  <2>10. ASSUME NEW a \in DOMAIN workers, a # b PROVE Covered(a)'
    <3>1. Covered(a) /\ workers'[a] = workers[a]
      BY <1>3, <2>4, <2>10
    <3>2. "completed" \in ended'[a] => \A i \in DOMAIN signals' : signals'[i].batch # a
      BY <2>2, <2>7, <2>10, <3>1 DEF Covered
    <3> QED
      BY <2>2, <2>9, <3>1, <3>2 DEF Covered
  <2>11. \A type, cert : Emit(b, type, cert) =>
           \E j \in DOMAIN signals' : signals'[j] = [type |-> type, batch |-> b, cert |-> cert]
    <3>1. ASSUME NEW type, NEW cert, Emit(b, type, cert)
          PROVE  \E j \in DOMAIN signals' : signals'[j] = [type |-> type, batch |-> b, cert |-> cert]
      <4>1. /\ DOMAIN signals' = 1..(Len(signals) + 1) /\ Len(signals) \in Nat
            /\ signals'[Len(signals) + 1] = [type |-> type, batch |-> b, cert |-> cert]
        BY <1>2, <3>1, Emitted
      <4> QED
        BY <4>1
    <3> QED
      BY <3>1
  <2>12. Covered(b)'
    <3> DEFINE v == workers[b]
    <3>1. /\ v \in Workers /\ v.idx \in Nat \ {0} /\ v.targets \in Seq(Targets)
          /\ v.pc \in Active => v.idx <= Len(v.targets)
      <4>1. v \in Workers
        BY <1>2
      <4>2. v.idx \in Nat \ {0} /\ v.targets \in Seq(Targets)
        BY <4>1 DEF Workers
      <4> QED
        BY <1>1, <4>1, <4>2 DEF Shape, Positioned
    <3>2. Covered(b) /\ "completed" \notin ended'[b]
      BY <1>3, <2>2, <2>3 DEF Covered
    <3>3. w.terminated => Failing(b)'
      BY <2>3, <2>9, <3>2 DEF Covered
    <3>4. ASSUME v.pc \in Active, w.pc \in Active, w.idx = v.idx PROVE Covered(b)'
      BY <2>3, <2>4, <2>9, <3>2, <3>3, <3>4 DEF Covered
    <3>5. ASSUME v.pc \in Active, Onward(b, w), NEW k \in Nat, k = v.idx, Logged(b, k)'
          PROVE  Covered(b)'
      <4>1. \A i \in DOMAIN v.targets : i < v.idx => Logged(b, i)'
        BY <2>9, <3>2, <3>5 DEF Covered
      <4>4. \A i \in DOMAIN v.targets : i < v.idx + 1 => Logged(b, i)'
        <5>1. \A i \in DOMAIN v.targets : i < v.idx + 1 => i < v.idx \/ i = k
          BY <3>1, <3>5
        <5> QED
          BY <3>5, <4>1, <5>1
      <4>5. CASE v.idx < Len(v.targets)
        BY <2>3, <2>4, <3>2, <3>3, <3>5, <4>4, <4>5 DEF Covered, Onward, Active
      <4>6. CASE ~(v.idx < Len(v.targets))
        <5>1. \A i \in DOMAIN v.targets : i < v.idx + 1
          BY <3>1, <3>5, <4>6
        <5> QED
          BY <2>3, <2>4, <3>2, <3>3, <3>5, <4>4, <4>6, <5>1 DEF Covered, Onward, Active
      <4> QED
        BY <4>5, <4>6
    <3>6. ASSUME w.pc \notin Active, Failing(b)' PROVE Covered(b)'
      BY <2>4, <3>2, <3>6 DEF Covered
    <3>7. CASE Skipped(b, w)
      <4>1. PICK k \in Nat : k = v.idx
        BY <3>1
      <4>2. Logged(b, k)'
        BY <2>3, <2>4, <3>7, <4>1 DEF Logged, Skipped, Target
      <4> QED
        BY <3>5, <3>7, <4>1, <4>2 DEF Skipped, At, Active
    <3>8. CASE Issued(b, w)
      <4>1. PICK k \in Nat : k = v.idx
        BY <3>1
      <4>2. v.pc \in Active
        BY <3>8 DEF Issued, At, Active
      <4>3. Build(b, v).batch = b /\ Build(b, v).position = k /\ Build(b, v).target = v.targets[k]
        BY <1>1, <4>1, <4>2, BuildTyped DEF Target
      <4>4. \E j \in DOMAIN signals' : signals'[j].batch = b /\ Build(b, v) \in signals'[j].cert
        <5>1. Emit(b, "completed", {Build(b, v)})
          BY <3>8 DEF Issued
        <5>2. \E j \in DOMAIN signals' : signals'[j] = [type |-> "completed", batch |-> b, cert |-> {Build(b, v)}]
          BY <2>11, <5>1, Zenon
        <5> QED
          BY <5>2
      <4>5. Logged(b, k)'
        BY <2>3, <2>4, <4>3, <4>4 DEF Logged
      <4> QED
        BY <3>5, <3>8, <4>1, <4>2, <4>5 DEF Issued
    <3>9. CASE Raised(b, w)
      <4>1. \E j \in DOMAIN signals' : signals'[j].batch = b /\ signals'[j].type = "failed"
        <5>1. Emit(b, "failed", {})
          BY <3>9 DEF Raised
        <5>2. \E j \in DOMAIN signals' : signals'[j] = [type |-> "failed", batch |-> b, cert |-> {}]
          BY <2>11, <5>1, Zenon
        <5> QED
          BY <5>2
      <4>2. w.pc \notin Active
        BY <3>9 DEF Raised, Active
      <4> QED
        BY <3>6, <4>1, <4>2 DEF Failing
    <3>10. CASE Ended(b, w)
      <4>1. w.pc \notin Active
        BY <3>10 DEF Ended, Active
      <4>2. CASE v.terminated
        BY <2>3, <3>3, <3>6, <4>1, <4>2
      <4>3. CASE ~v.terminated
        <5>1. v.pc \notin Active
          BY <3>10, <4>3 DEF Ended, At, Active
        <5> QED
          BY <2>3, <2>4, <2>9, <3>2, <3>3, <4>1, <5>1 DEF Covered
      <4> QED
        BY <4>2, <4>3
    <3>11. CASE Scanned(b, w) \/ Hashed(b, w) \/ Overwritten(b, w) \/ Rehashed(b, w)
      BY <3>4, <3>11 DEF Scanned, Hashed, Overwritten, Rehashed, At, Active
    <3> QED
      BY <2>1, <3>7, <3>8, <3>9, <3>10, <3>11 DEF Moved
  <2>13. ui'.loop = "wait" => \A a \in DOMAIN workers' : a = Current' => "completed" \notin ended'[a]
    BY <1>3, <2>2, <2>4, <2>5
  <2> QED
    BY <1>1, <1>3, <2>2, <2>4, <2>8, <2>10, <2>12, <2>13 DEF Reported
<1>13. ASSUME NEW f \in Files, OtherWrites(f) PROVE Reported'
  <2>1. UNCHANGED <<signals, ui, certs, ended>>
    BY <1>13 DEF OtherWrites
  <2>2. /\ DOMAIN workers' = DOMAIN workers /\ Len(workers') = Len(workers)
        /\ \A b \in DOMAIN workers :
             /\ workers'[b].pc = workers[b].pc /\ workers'[b].idx = workers[b].idx
             /\ workers'[b].targets = workers[b].targets /\ workers'[b].terminated = workers[b].terminated
    BY <1>1, <1>13, OtherWritten
  <2>3. \A b \in DOMAIN workers : Failing(b) => Failing(b)'
    BY <2>1, <2>2 DEF Failing, Current
  <2> QED
    BY <1>1, <1>3, <2>1, <2>2, <2>3, ReportedAlone
<1>14. ASSUME NEW f \in Files, OtherRemoves(f) PROVE Reported'
  BY <1>5, <1>14 DEF OtherRemoves
<1> QED
  BY <1>6, <1>7, <1>8, <1>9, <1>10, <1>11, <1>12, <1>13, <1>14 DEF Next

\* It holds at the start.
LEMMA ReportedInit == Init => Reported
BY OrderedInit DEF Init, Reported

\* Reported while none has outlived its cancellation, inductive without more.
ReportedAlways == Shape /\ (NoneOutlived => Reported)

\* It holds at the start.
LEMMA ReportedAlwaysInit == Init => ReportedAlways
BY ShapeInit, ReportedInit DEF ReportedAlways

\* And every step keeps it.
LEMMA ReportedAlwaysKept ==
  ASSUME ReportedAlways, [Next]_vars
  PROVE  ReportedAlways'
<1>1. Shape /\ Shape'
  BY ShapeKept DEF ReportedAlways
<1>2. ASSUME NoneOutlived' PROVE Reported'
  BY <1>1, <1>2, NoneBefore, ReportedKept DEF ReportedAlways
<1> QED
  BY <1>1, <1>2 DEF ReportedAlways

\* Until a wait for a cancelled thread has timed out, a batch that is logged as
\* completed and not as failed has a certificate for each target but those
\* without entries (_on_wipe_finished, _on_wipe_failed, WipeWorker.run).
THEOREM EndAccounted == Spec => []EndIsAccounted
<1>1. ASSUME Reported
      PROVE  \A b \in DOMAIN workers : ended[b] = {"completed"} /\ ui.loop # "dialog" =>
               \A i \in DOMAIN workers[b].targets :
                 \/ Kind[workers[b].targets[i]] = "other"
                 \/ \E c \in certs : c.batch = b /\ c.position = i /\ c.target = workers[b].targets[i]
  <2>1. ASSUME NEW b \in DOMAIN workers, ended[b] = {"completed"}, ui.loop # "dialog",
               NEW i \in DOMAIN workers[b].targets
        PROVE  \/ Kind[workers[b].targets[i]] = "other"
               \/ \E c \in certs : c.batch = b /\ c.position = i /\ c.target = workers[b].targets[i]
    <3>1. /\ Covered(b) /\ workers[b].pc = "gone"
          /\ \A j \in DOMAIN signals : signals[j].batch # b
      BY <1>1, <2>1 DEF Reported, Covered
    <3>2. ui.loop \notin {"wait", "dialog"} \/ b # Current
      BY <1>1, <2>1 DEF Reported, Ordered, Shape, TypeOK
    <3>3. ~Failing(b)
      BY <2>1, <3>1, <3>2 DEF Failing
    <3>4. Logged(b, i)
      BY <2>1, <3>1, <3>3 DEF Covered, Active
    <3> QED
      BY <3>1, <3>4 DEF Logged
  <2> QED
    BY <2>1
<1>2. ReportedAlways => EndIsAccounted
  BY <1>1 DEF ReportedAlways, EndIsAccounted, NoneOutlived
<1> QED
  BY <1>2, ReportedAlwaysInit, ReportedAlwaysKept, PTL DEF Spec

-----------------------------------------------------------------------------
(* How many batches run at once.                                            *)

Runs == {b \in DOMAIN workers : Running(b)}
Late == {b \in DOMAIN workers : workers[b].outlived}

\* The end of some thread has not been delivered.
Pending == \E i \in DOMAIN signals : signals[i].type = "finished"

\* The start button, there or on its way, stands for one more batch.
Ready == ui.start \/ Pending
Bounded == Cardinality(Runs) + (IF Ready THEN 1 ELSE 0) <= 1 + Cardinality(Late)

\* It can be had when the last batch does not run, and the cancel button is
\* there only for a batch that has not been cancelled yet.
Counted ==
  /\ Shape
  /\ Ready \/ (Current \in DOMAIN workers /\ Running(Current))
  /\ ui.cancel => Current \in DOMAIN workers /\ ~workers[Current].outlived
  /\ ui.loop = "wait" => ui.cancel
  /\ Bounded

\* Both sets are finite.
LEMMA CountsFinite ==
  ASSUME Shape
  PROVE  /\ IsFiniteSet(Runs) /\ Cardinality(Runs) \in Nat
         /\ IsFiniteSet(Late) /\ Cardinality(Late) \in Nat
<1>1. workers \in Seq(Workers) /\ Len(workers) \in Nat
  BY DEF Shape, TypeOK
<1>2. DOMAIN workers = 1..Len(workers) /\ IsFiniteSet(1..Len(workers))
  BY <1>1, FS_Interval
<1>3. Runs \subseteq 1..Len(workers) /\ Late \subseteq 1..Len(workers)
  BY <1>2 DEF Runs, Late
<1> QED
  BY <1>2, <1>3, FS_Subset, FS_CardinalityType

\* The same threads run and have outlived, and no button comes from nowhere.
LEMMA BoundedAlone ==
  ASSUME Bounded, Runs' = Runs, Late' = Late, Ready' => Ready,
         Cardinality(Runs) \in Nat, Cardinality(Late) \in Nat
  PROVE  Bounded'
BY DEF Bounded

\* Workers whose run and whose cancellation stay what they are.
LEMMA CountedAlone ==
  ASSUME Counted, Shape', DOMAIN workers' = DOMAIN workers, Len(workers') = Len(workers),
         \A a \in DOMAIN workers : workers'[a].pc = workers[a].pc /\ workers'[a].outlived = workers[a].outlived,
         Ready <=> Ready', ui'.cancel => ui.cancel, ui'.loop = "wait" => ui'.cancel
  PROVE  Counted'
<1>1. Cardinality(Runs) \in Nat /\ Cardinality(Late) \in Nat
  BY CountsFinite DEF Counted
<1>2. Runs' = Runs /\ Late' = Late
  BY DEF Runs, Late, Running
<1>3. Bounded'
  BY <1>1, <1>2, BoundedAlone DEF Counted
<1>4. Current' = Current
  BY DEF Current
<1> QED
  BY <1>3, <1>4 DEF Counted, Running

\* Counted is inductive.
LEMMA CountedKept ==
  ASSUME Counted, [Next]_vars
  PROVE  Counted'
<1>1. Shape /\ Shape'
  BY ShapeKept DEF Counted
<1>2. /\ workers \in Seq(Workers) /\ Len(workers) \in Nat /\ signals \in Seq(Signals)
      /\ ui \in [targets : Seq(Targets), start : BOOLEAN, cancel : BOOLEAN,
                 loop : {"idle", "wait", "dialog"}]
      /\ DOMAIN workers = 1..Len(workers)
  BY <1>1 DEF Shape, TypeOK
<1>3. /\ Ready \/ (Current \in DOMAIN workers /\ Running(Current))
      /\ ui.cancel => Current \in DOMAIN workers /\ ~workers[Current].outlived
      /\ ui.loop = "wait" => ui.cancel
      /\ Bounded
      /\ IsFiniteSet(Runs) /\ Cardinality(Runs) \in Nat
      /\ IsFiniteSet(Late) /\ Cardinality(Late) \in Nat
  BY <1>1, CountsFinite DEF Counted
<1>4. ASSUME UNCHANGED <<workers, signals>>, UNCHANGED ui.start, UNCHANGED ui.cancel,
             ui'.loop = "wait" => ui.loop = "wait"
      PROVE  Counted'
  <2>1. Ready <=> Ready'
    BY <1>4 DEF Ready, Pending
  <2> QED
    BY <1>1, <1>3, <1>4, <2>1, CountedAlone
<1>5. CASE UNCHANGED vars
  BY <1>4, <1>5 DEF vars
<1>6. ASSUME NEW t \in Targets, AddTarget(t) \/ RemoveTarget(t) PROVE Counted'
  BY <1>2, <1>4, <1>6 DEF AddTarget, RemoveTarget
<1>7. CASE CancelReturns
  <2>1. /\ UNCHANGED signals /\ ui.loop = "wait"
        /\ ui' = [ui EXCEPT !.loop = "idle", !.start = TRUE, !.cancel = FALSE]
    BY <1>7 DEF CancelReturns
  <2>2. /\ DOMAIN workers' = DOMAIN workers /\ Len(workers') = Len(workers)
        /\ \A a \in DOMAIN workers :
             /\ workers'[a].pc = workers[a].pc
             /\ a # Current => workers'[a].outlived = workers[a].outlived
             /\ a = Current => workers'[a].outlived = (workers[a].outlived \/ Running(a))
    BY <1>2, <1>7, CancelReturned
  <2>3. ui'.start /\ ~ui'.cancel /\ ui'.loop = "idle"
    BY <1>2, <2>1
  <2>4. Current \in DOMAIN workers /\ ~workers[Current].outlived
    BY <1>3, <2>1
  <2>5. Runs' = Runs
    BY <2>2 DEF Runs, Running
  <2>6. Bounded'
    <3>1. CASE Running(Current)
      <4>1. Late' = Late \cup {Current} /\ Current \notin Late
        BY <2>2, <2>4, <3>1 DEF Late
      <4>2. Cardinality(Late') = Cardinality(Late) + 1
        BY <1>3, <4>1, FS_AddElement
      <4>3. Cardinality(Runs) <= 1 + Cardinality(Late)
        BY <1>3 DEF Bounded
      <4> QED
        BY <1>3, <2>5, <4>2, <4>3 DEF Bounded
    <3>2. CASE ~Running(Current)
      <4>1. Late' = Late
        BY <2>2, <2>4, <3>2 DEF Late
      <4> QED
        BY <1>3, <2>5, <3>2, <4>1, BoundedAlone
    <3> QED
      BY <3>1, <3>2
  <2> QED
    BY <1>1, <2>3, <2>6 DEF Counted, Ready
<1>8. CASE Acknowledge
  BY <1>2, <1>4, <1>8 DEF Acknowledge
<1>9. ASSUME NEW s \in Standards, StartWipe(s) PROVE Counted'
  <2> DEFINE w == NewWorker(s, ui.targets)
  <2>1. workers' = Append(workers, w) /\ signals = << >> /\ UNCHANGED signals /\ ui.start /\ ui.loop = "idle"
        /\ ui' = [ui EXCEPT !.start = FALSE, !.cancel = TRUE]
    BY <1>9 DEF StartWipe
  <2>2. w.pc = "scan" /\ w.outlived = FALSE
    BY DEF NewWorker
  <2> HIDE DEF w
  <2>3. PICK n \in Nat : n = Len(workers) + 1
    BY <1>2
  <2>4. /\ DOMAIN workers' = 1..n /\ Len(workers') = n /\ workers'[n] = w /\ n \notin DOMAIN workers
        /\ \A a \in DOMAIN workers : workers'[a] = workers[a]
    BY <1>2, <2>1, <2>3
  <2>5. \A a : a \in DOMAIN workers' <=> a \in DOMAIN workers \/ a = n
    BY <1>2, <2>3, <2>4
  <2>6. Runs' = Runs \cup {n} /\ n \notin Runs
    BY <2>2, <2>4, <2>5 DEF Runs, Running
  <2>7. Late' = Late
    BY <2>2, <2>4, <2>5 DEF Late
  <2>8. Current' = n /\ n \in DOMAIN workers' /\ Running(n)' /\ ~workers'[n].outlived
    BY <2>2, <2>4, <2>5 DEF Current, Running
  <2>9. ~ui'.start /\ ui'.cancel /\ ui'.loop = "idle" /\ DOMAIN signals' = {}
    BY <1>2, <2>1
  <2>10. ~Ready' /\ Ready
    BY <2>1, <2>9 DEF Ready, Pending
  <2>11. Bounded'
    <3>1. Cardinality(Runs') = Cardinality(Runs) + 1
      BY <1>3, <2>6, FS_AddElement
    <3>2. Cardinality(Runs) + 1 <= 1 + Cardinality(Late)
      BY <1>3, <2>10 DEF Bounded
    <3> QED
      BY <1>3, <2>7, <2>10, <3>1, <3>2 DEF Bounded
  <2>12. /\ Current' \in DOMAIN workers' /\ Running(Current)' /\ ~workers'[Current'].outlived
    BY <2>8 DEF Running
  <2> QED
    BY <1>1, <2>9, <2>11, <2>12 DEF Counted
<1>10. CASE CancelWipe
  <2>1. CASE Running(Current)
    <3>1. workers' = [workers EXCEPT ![Current].terminated = TRUE] /\ UNCHANGED signals
          /\ ui.cancel /\ ui' = [ui EXCEPT !.loop = "wait"]
      BY <1>10, <2>1 DEF CancelWipe
    <3>2. /\ DOMAIN workers' = DOMAIN workers /\ Len(workers') = Len(workers)
          /\ \A a \in DOMAIN workers : workers'[a].pc = workers[a].pc /\ workers'[a].outlived = workers[a].outlived
      BY <1>2, <3>1 DEF Workers
    <3>3. ui'.start = ui.start /\ ui'.cancel = ui.cancel
      BY <1>2, <3>1
    <3>4. Ready <=> Ready'
      BY <3>1, <3>3 DEF Ready, Pending
    <3> QED
      BY <1>1, <3>1, <3>2, <3>3, <3>4, CountedAlone
  <2>2. CASE ~Running(Current)
    <3>1. UNCHANGED <<workers, signals>> /\ ui' = [ui EXCEPT !.start = TRUE, !.cancel = FALSE] /\ ui.loop = "idle"
      BY <1>10, <2>2 DEF CancelWipe
    <3>2. ui'.start /\ ~ui'.cancel /\ ui'.loop = "idle"
      BY <1>2, <3>1
    <3>3. Ready <=> Ready'
      BY <1>3, <2>2, <3>2 DEF Ready
    <3> QED
      BY <1>1, <3>1, <3>2, <3>3, CountedAlone
  <2> QED
    BY <2>1, <2>2
<1>11. CASE Deliver
  <2>1. /\ signals' = Tail(signals) /\ signals # << >> /\ UNCHANGED workers /\ ui.loop # "wait"
        /\ ui' = CASE Head(signals).type = "failed" -> [ui EXCEPT !.loop = "dialog"]
                   [] Head(signals).type = "finished" -> [ui EXCEPT !.start = TRUE, !.cancel = FALSE]
                   [] OTHER -> ui
    BY <1>11 DEF Deliver
  <2>2. /\ Head(signals) = signals[1] /\ 1 \in DOMAIN signals /\ Len(signals) \in Nat \ {0}
        /\ DOMAIN signals = 1..Len(signals) /\ DOMAIN signals' = 1..(Len(signals) - 1)
        /\ \A i \in DOMAIN signals' : i + 1 \in DOMAIN signals /\ signals'[i] = signals[i + 1]
    BY <1>2, <2>1, Delivered
  <2>3. /\ ui'.loop # "wait" /\ ui'.cancel => ui.cancel
        /\ ui'.start <=> ui.start \/ Head(signals).type = "finished"
    BY <1>2, <2>1
  <2>4. Pending' => Pending
    BY <2>2 DEF Pending
  <2>5. Pending => Pending' \/ Head(signals).type = "finished"
    <3>1. ASSUME NEW j \in DOMAIN signals, j # 1 PROVE j - 1 \in DOMAIN signals' /\ signals'[j - 1] = signals[j]
      BY <2>2, <3>1
    <3> QED
      BY <2>2, <3>1 DEF Pending
  <2>6. Head(signals).type = "finished" => Pending
    BY <2>2 DEF Pending
  <2>7. Ready <=> Ready'
    BY <2>3, <2>4, <2>5, <2>6 DEF Ready
  <2> QED
    BY <1>1, <2>1, <2>3, <2>7, CountedAlone
<1>12. ASSUME NEW b \in DOMAIN workers, WorkerStep(b) PROVE Counted'
  <2>1. PICK w \in Workers : Moved(b, w)
    BY <1>1, <1>12, StepMoves
  <2>2. UNCHANGED ui
    BY <1>1, <1>12, StepMoves
  <2>3. Become(b, w) /\ w.outlived = workers[b].outlived /\ workers[b].pc # "gone"
    BY <2>1, MovedRunning DEF Moved, Skipped, Scanned, Hashed, Overwritten, Rehashed, Issued, Raised, Ended, Onward, Same
  <2>4. /\ Len(workers') = Len(workers) /\ DOMAIN workers' = DOMAIN workers /\ workers'[b] = w
        /\ \A a \in DOMAIN workers : a # b => workers'[a] = workers[a]
    BY <1>2, <2>3, Updated
  <2>5. Late' = Late /\ Current' = Current
    BY <2>3, <2>4 DEF Late, Current
  <2>6. ui.cancel => Current' \in DOMAIN workers' /\ ~workers'[Current'].outlived
    BY <1>3, <2>3, <2>4, <2>5
  <2>7. CASE w.pc = "gone"
    <3>1. Ended(b, w)
      BY <2>1, <2>7 DEF Moved, Skipped, Scanned, Hashed, Overwritten, Rehashed, Issued, Raised, Onward
    <3>2. Pending'
      <4>1. PICK type, cert : Emit(b, type, cert) /\ type = "finished"
        BY <3>1 DEF Ended
      <4>2. /\ DOMAIN signals' = 1..(Len(signals) + 1) /\ Len(signals) \in Nat
            /\ signals'[Len(signals) + 1] = [type |-> type, batch |-> b, cert |-> cert]
        BY <1>2, <4>1, Emitted
      <4> QED
        BY <4>1, <4>2 DEF Pending
    <3>3. Runs' = Runs \ {b} /\ b \in Runs
      BY <2>3, <2>4, <2>7 DEF Runs, Running
    <3>4. Cardinality(Runs') = Cardinality(Runs) - 1
      BY <1>3, <3>3, FS_RemoveElement
    <3>5. Cardinality(Runs) <= 1 + Cardinality(Late)
      BY <1>3 DEF Bounded
    <3>6. Bounded'
      BY <1>3, <2>5, <3>4, <3>5 DEF Bounded
    <3> QED
      BY <1>1, <1>3, <2>2, <2>6, <3>2, <3>6 DEF Counted, Ready
  <2>8. CASE w.pc # "gone"
    <3>1. \A a \in DOMAIN workers : workers'[a].outlived = workers[a].outlived /\ (Running(a) <=> Running(a)')
      BY <2>3, <2>4, <2>8 DEF Running
    <3>2. Runs' = Runs
      BY <2>4, <3>1 DEF Runs
    <3>3. Pending <=> Pending'
      <4>1. CASE UNCHANGED signals
        BY <4>1 DEF Pending
      <4>2. ASSUME NEW type, NEW cert, Emit(b, type, cert), type # "finished"
            PROVE  Pending <=> Pending'
        <5>1. /\ DOMAIN signals' = 1..(Len(signals) + 1) /\ DOMAIN signals = 1..Len(signals) /\ Len(signals) \in Nat
              /\ signals'[Len(signals) + 1] = [type |-> type, batch |-> b, cert |-> cert]
              /\ \A i \in DOMAIN signals : signals'[i] = signals[i]
          BY <1>2, <4>2, Emitted
        <5>2. signals'[Len(signals) + 1].type # "finished"
          BY <4>2, <5>1
        <5>3. \A i \in DOMAIN signals' : i \in DOMAIN signals \/ i = Len(signals) + 1
          BY <5>1
        <5>4. \A i \in DOMAIN signals : i \in DOMAIN signals'
          BY <5>1
        <5> QED
          BY <5>1, <5>2, <5>3, <5>4 DEF Pending
      <4> QED
        BY <2>1, <2>8, <4>1, <4>2, EndsGone
    <3>4. Ready <=> Ready'
      BY <2>2, <3>3 DEF Ready
    <3>5. Bounded'
      BY <1>3, <2>5, <3>2, <3>4, BoundedAlone
    <3> QED
      BY <1>1, <1>3, <2>2, <2>4, <2>5, <2>6, <3>1, <3>4, <3>5 DEF Counted, Running
  <2> QED
    BY <2>7, <2>8
<1>13. ASSUME NEW f \in Files, OtherWrites(f) PROVE Counted'
  <2>1. UNCHANGED <<signals, ui>>
    BY <1>13 DEF OtherWrites
  <2>2. Ready <=> Ready'
    BY <2>1 DEF Ready, Pending
  <2> QED
    BY <1>1, <1>3, <1>13, <2>1, <2>2, OtherWritten, CountedAlone
<1>14. ASSUME NEW f \in Files, OtherRemoves(f) PROVE Counted'
  BY <1>4, <1>14 DEF OtherRemoves
<1> QED
  BY <1>5, <1>6, <1>7, <1>8, <1>9, <1>10, <1>11, <1>12, <1>13, <1>14 DEF Next

\* It holds at the start.
LEMMA CountedInit == Init => Counted
<1>1. ASSUME Init PROVE Runs = {} /\ Late = {} /\ ui.start /\ ~ui.cancel /\ ui.loop = "idle"
  BY <1>1 DEF Init, Runs, Late
<1>2. Cardinality({}) = 0
  BY FS_EmptySet
<1> QED
  BY <1>1, <1>2, ShapeInit DEF Counted, Bounded, Ready

\* However many threads have outlived their cancellation, no more batches run at
\* once than one beside each of them (_on_start_wipe, _on_cancel_wipe,
\* _on_wipe_finished, _on_wipe_failed).
THEOREM OneAtATime == Spec => []OneWorker
<1>1. ASSUME Counted PROVE OneWorker
  <2>1. Cardinality(Runs) \in Nat /\ Cardinality(Late) \in Nat /\ Bounded
    BY <1>1, CountsFinite DEF Counted
  <2>2. Cardinality(Runs) <= 1 + Cardinality(Late)
    BY <2>1 DEF Bounded
  <2> QED
    BY <2>2 DEF OneWorker, Runs, Late
<1> QED
  BY <1>1, CountedInit, CountedKept, PTL DEF Spec
=============================================================================
