------------------------ MODULE DatasetVersionsProofs ------------------------
(***************************************************************************)
(* Proofs about DatasetVersions, for any samples, contents, ratios and     *)
(* number of calls: whatever calls are made and wherever they break off,   *)
(* a version is backed by its files, never changes, and its validation set *)
(* is apart from what it trains on; and a frozen dataset is what its       *)
(* newest version says.                                                    *)
(*                                                                         *)
(* The argument: a freeze writes into the directory one beyond the last    *)
(* version, and the row is inserted only when everything it names has been *)
(* written there, over whatever a broken freeze left behind.               *)
(***************************************************************************)
EXTENDS DatasetVersions, FiniteSetTheorems, FunctionTheorems, TLAPS

Writing == {"train", "val", "manifest", "row"}

\* A freeze works on the number after the last version's.
FreshInv == call.step \in Writing => call.number = Len(versions) + 1 /\ Len(versions) < calls

\* What a freeze has written is what it will put into the row.
WrittenInv ==
    /\ call.step \in {"val", "manifest", "row"} => files[call.number].train = call.row.train
    /\ call.step \in {"manifest", "row"} /\ call.row.val # {} => files[call.number].val = call.row.val
    /\ call.step = "row" => files[call.number].manifest =
         [id |-> call.row.id, train |-> call.row.train, val |-> call.row.val, final |-> TRUE]

IInv == TypeOK /\ FreshInv /\ WrittenInv /\ VersionIsBacked

-----------------------------------------------------------------------------
LEMMA EntryType == ASSUME TypeOK, NEW s \in Present PROVE Entry(s) \in Entries
BY DEF TypeOK, Entry, Entries, Present

\* No validation set reaches beyond the samples it is taken from.
LEMMA ValSetsInside ==
    ASSUME NEW by, NEW S \in SUBSET Samples, NEW p, NEW val \in ValSets(by, S, p)
    PROVE  val \in SUBSET S
BY DEF ValSets, Members

LEMMA FreezeType ==
    ASSUME TypeOK, NEW by \in Strategies, NEW p \in Percents, Freeze(by, p)
    PROVE  TypeOK' /\ FreshInv'
<1>1. calls \in Nat /\ calls < MaxCalls /\ calls' = calls + 1 /\ MaxCalls \in Nat
  BY DatasetAssumption DEF Freeze, Begin, TypeOK
<1>2. Len(versions) \in Nat /\ Len(versions) <= calls
  BY DEF TypeOK
<1>3. /\ calls' \in 0..MaxCalls /\ calls + 1 \in Numbers /\ NextNumber \in Numbers
      /\ NextNumber = Len(versions) + 1 /\ Len(versions) < calls' /\ Len(versions) <= calls'
  BY <1>1, <1>2 DEF Numbers, NextNumber
<1>4. Cardinality(Approved) \in Nat
  <2>1. Approved \in SUBSET Samples
    BY DEF Approved
  <2> QED
    BY <2>1, FS_Subset, FS_CardinalityType, DatasetAssumption
<1>5. PICK val \in ValSets(by, Kept(Approved), p) :
         call' = [step |-> "train", number |-> NextNumber, final |-> FALSE,
                  row |-> [id |-> calls + 1, count |-> Cardinality(Approved), by |-> by,
                           train |-> {Entry(s) : s \in Kept(Approved) \ val},
                           val |-> {Entry(s) : s \in val}]]
  BY DEF Freeze
<1>6. Kept(Approved) \in SUBSET Samples /\ Kept(Approved) \subseteq Present
  BY DEF Kept, Approved, Present
<1>7. val \in SUBSET Kept(Approved)
  BY <1>6, ValSetsInside
<1>8. {Entry(s) : s \in Kept(Approved) \ val} \in SUBSET Entries /\ {Entry(s) : s \in val} \in SUBSET Entries
  BY <1>6, <1>7, EntryType
<1>9. call'.row \in Rows
  BY <1>3, <1>4, <1>5, <1>8 DEF Rows
<1>10. call' \in [step : {"idle", "refresh", "mark", "train", "val", "manifest", "row", "samples", "seal"},
                  number : Numbers, final : BOOLEAN, row : Rows]
  BY <1>3, <1>5, <1>9
<1>11. UNCHANGED <<status, review, content, counts, versions, listed, files, torn, byHand>>
  BY DEF Freeze, sampleVars
<1>12. TypeOK'
  BY <1>3, <1>10, <1>11 DEF TypeOK
<1>13. call'.number = Len(versions') + 1 /\ Len(versions') < calls'
  BY <1>3, <1>5, <1>11
<1> QED
  BY <1>12, <1>13 DEF FreshInv

\* The calls that neither read nor write a version ...
Reviewing ==
    \/ \E s \in Samples, c \in Contents : Add(s, c) \/ \E r \in SampleStatus : Update(s, r, c)
    \/ \E s \in DatasetStatus : SetStatus(s)
    \/ Refresh \/ Mark \/ Break

\* ... and the steps of a freeze.
Freezing == WriteTrain \/ WriteVal \/ WriteManifest \/ InsertVersion \/ InsertSamples \/ Seal

Steps == {"idle", "refresh", "mark", "train", "val", "manifest", "row", "samples", "seal"}

LEMMA IdleType == Idle \in [step : Steps, number : Numbers, final : BOOLEAN, row : Rows]
<1>1. 1 \in Numbers /\ 0 \in Nat
  BY DatasetAssumption DEF Numbers
<1>2. NoRow \in Rows
  BY <1>1 DEF NoRow, Rows, Strategies
<1> QED
  BY <1>1, <1>2 DEF Idle, Steps

LEMMA ReviewingType == TypeOK /\ Reviewing => TypeOK' /\ UNCHANGED <<versions, files>> /\ call'.step \notin Writing
<1> SUFFICES ASSUME TypeOK, Reviewing PROVE TypeOK' /\ UNCHANGED <<versions, files>> /\ call'.step \notin Writing
  OBVIOUS
<1>c. call \in [step : Steps, number : Numbers, final : BOOLEAN, row : Rows]
  BY DEF TypeOK, Steps
<1>n. calls < MaxCalls => calls + 1 \in 0..MaxCalls
  BY DatasetAssumption DEF TypeOK
<1>v. Len(versions) \in Nat /\ calls \in Nat /\ Len(versions) <= calls
  BY DEF TypeOK
<1>1. ASSUME NEW s \in Samples, NEW c \in Contents, NEW r \in SampleStatus,
             Begin, Write(s, r, c)
      PROVE  TypeOK' /\ UNCHANGED <<versions, files>> /\ call'.step \notin Writing
  <2>1. call' \in [step : Steps, number : Numbers, final : BOOLEAN, row : Rows] /\ call'.step = "refresh"
    BY <1>1, <1>c DEF Write, Step, Steps
  <2>2. calls' \in 0..MaxCalls /\ Len(versions) <= calls'
    BY <1>1, <1>n, <1>v DEF Begin
  <2> QED
    BY <1>1, <2>1, <2>2 DEF Write, TypeOK, Steps, Writing
<1>2. ASSUME NEW s \in Samples, NEW c \in Contents, Add(s, c)
      PROVE  TypeOK' /\ UNCHANGED <<versions, files>> /\ call'.step \notin Writing
  <2>1. "pending" \in SampleStatus
    BY DEF SampleStatus
  <2> QED
    BY <1>1, <1>2, <2>1 DEF Add
<1>3. ASSUME NEW s \in Samples, NEW c \in Contents, NEW r \in SampleStatus, Update(s, r, c)
      PROVE  TypeOK' /\ UNCHANGED <<versions, files>> /\ call'.step \notin Writing
  BY <1>1, <1>3 DEF Update
<1>4. ASSUME NEW s \in DatasetStatus, SetStatus(s)
      PROVE  TypeOK' /\ UNCHANGED <<versions, files>> /\ call'.step \notin Writing
  <2>1. calls' \in 0..MaxCalls /\ Len(versions) <= calls' /\ call.step = "idle"
    BY <1>4, <1>n, <1>v DEF SetStatus, Begin
  <2> QED
    BY <1>4, <2>1 DEF SetStatus, TypeOK, sampleVars, Writing
<1>5. CASE Refresh
  <2>1. call' \in [step : Steps, number : Numbers, final : BOOLEAN, row : Rows] /\ call'.step = "mark"
    BY <1>5, <1>c DEF Refresh, Step, Steps
  <2>2. \A S \in SUBSET Samples : Cardinality(S) \in Nat
    BY FS_Subset, FS_CardinalityType, DatasetAssumption
  <2>3. /\ {s \in Present : review[s] # "archived"} \in SUBSET Samples
        /\ Approved \in SUBSET Samples /\ Rejected \in SUBSET Samples
    BY DEF Present, Approved, Rejected
  <2>4. counts' \in Nat \X Nat \X Nat
    BY <1>5, <2>2, <2>3 DEF Refresh
  <2> QED
    BY <1>5, <2>1, <2>4 DEF Refresh, TypeOK, sampleVars, Steps, Writing
<1>6. CASE Mark
  BY <1>6, IdleType DEF Mark, TypeOK, sampleVars, Steps, Writing, Idle, DatasetStatus
<1>7. CASE Break
  BY <1>7, IdleType DEF Break, TypeOK, sampleVars, Steps, Writing, Idle
<1> QED
  BY <1>2, <1>3, <1>4, <1>5, <1>6, <1>7 DEF Reviewing

LEMMA FreezingInv == TypeOK /\ FreshInv /\ Freezing => TypeOK' /\ FreshInv'
<1> SUFFICES ASSUME TypeOK, FreshInv, Freezing PROVE TypeOK' /\ FreshInv'
  OBVIOUS
<1>c. call \in [step : Steps, number : Numbers, final : BOOLEAN, row : Rows]
  BY DEF TypeOK, Steps
<1>v. Len(versions) \in Nat /\ calls \in Nat /\ Len(versions) <= calls
  BY DEF TypeOK
<1>1. CASE WriteTrain \/ WriteVal
  <2>1. call' \in [step : Steps, number : Numbers, final : BOOLEAN, row : Rows]
        /\ call'.number = call.number /\ call.step \in Writing
    BY <1>1, <1>c DEF WriteTrain, WriteVal, Step, Steps, Writing
  <2>2. files' \in [Numbers -> [train : SUBSET Entries, val : SUBSET Entries, manifest : Manifests]]
    <3>1. call.number \in Numbers /\ call.row.train \in SUBSET Entries /\ call.row.val \in SUBSET Entries
      BY <1>c DEF Rows
    <3>2. files \in [Numbers -> [train : SUBSET Entries, val : SUBSET Entries, manifest : Manifests]]
      BY DEF TypeOK
    <3>3. CASE files' = [files EXCEPT ![call.number].train = call.row.train]
      BY <3>1, <3>2, <3>3
    <3>4. CASE files' = [files EXCEPT ![call.number].val = call.row.val]
      BY <3>1, <3>2, <3>4
    <3> QED
      BY <1>1, <3>3, <3>4 DEF WriteTrain, WriteVal
  <2> QED
    BY <1>1, <2>1, <2>2 DEF WriteTrain, WriteVal, TypeOK, FreshInv, sampleVars, Steps
<1>2. CASE WriteManifest
  <2>1. call' \in [step : Steps, number : Numbers, final : BOOLEAN, row : Rows]
        /\ call'.number = call.number /\ call.step \in Writing
    BY <1>2, <1>c DEF WriteManifest, Steps, Writing
  <2>2. [id |-> call.row.id, train |-> call.row.train, val |-> call.row.val, final |-> call.final] \in Manifests
    BY <1>c DEF Rows, Manifests, Numbers
  <2>3. files' \in [Numbers -> [train : SUBSET Entries, val : SUBSET Entries, manifest : Manifests]]
    BY <1>2, <1>c, <2>2 DEF WriteManifest, TypeOK
  <2> QED
    BY <1>2, <2>1, <2>3 DEF WriteManifest, TypeOK, FreshInv, sampleVars, Steps
<1>3. CASE InsertVersion
  <2>1. call.number = Len(versions) + 1 /\ Len(versions) < calls
    BY <1>3 DEF InsertVersion, FreshInv, Writing
  <2>2. call.number \notin DOMAIN versions
    BY <1>v, <2>1 DEF TypeOK
  <2>3. versions' = Append(versions, call.row) /\ call' = [call EXCEPT !.step = "samples"]
    BY <1>3, <2>2 DEF InsertVersion, Step
  <2>4. versions' \in Seq(Rows) /\ Len(versions') = Len(versions) + 1
    BY <1>c, <2>3 DEF TypeOK
  <2>5. call' \in [step : Steps, number : Numbers, final : BOOLEAN, row : Rows] /\ call'.step = "samples"
    BY <1>c, <2>3 DEF Steps
  <2> QED
    BY <1>3, <1>v, <2>1, <2>4, <2>5 DEF InsertVersion, TypeOK, FreshInv, sampleVars, Steps, Writing
<1>4. CASE InsertSamples
  <2>1. call' \in [step : Steps, number : Numbers, final : BOOLEAN, row : Rows] /\ call'.step = "seal"
    BY <1>4, <1>c DEF InsertSamples, Step, Steps
  <2> QED
    BY <1>4, <1>c, <2>1 DEF InsertSamples, TypeOK, FreshInv, sampleVars, Steps, Writing
<1>5. CASE Seal
  BY <1>5, IdleType DEF Seal, TypeOK, FreshInv, sampleVars, Steps, Writing, Idle, DatasetStatus
<1> QED
  BY <1>1, <1>2, <1>3, <1>4, <1>5 DEF Freezing

LEMMA NextSplit == Next <=> Reviewing \/ Freezing \/ \E by \in Strategies, p \in Percents : Freeze(by, p)
BY DEF Next, SampleCalls, DatasetCalls, Reviewing, Freezing

LEMMA TypeNext == TypeOK /\ FreshInv /\ [Next]_vars => TypeOK' /\ FreshInv'
<1> SUFFICES ASSUME TypeOK, FreshInv, [Next]_vars PROVE TypeOK' /\ FreshInv'
  OBVIOUS
<1>1. CASE UNCHANGED vars
  BY <1>1 DEF vars, sampleVars, TypeOK, FreshInv
<1>2. CASE Reviewing
  BY <1>2, ReviewingType DEF FreshInv
<1>3. CASE Freezing
  BY <1>3, FreezingInv
<1>4. ASSUME NEW by \in Strategies, NEW p \in Percents, Freeze(by, p) PROVE TypeOK' /\ FreshInv'
  BY <1>4, FreezeType
<1> QED
  BY <1>1, <1>2, <1>3, <1>4, NextSplit
-----------------------------------------------------------------------------
LEMMA InitInv == Init => IInv
<1> SUFFICES ASSUME Init PROVE IInv
  OBVIOUS
<1>1. counts \in Nat \X Nat \X Nat
  <2>1. \A S \in SUBSET Samples : Cardinality(S) \in Nat
    BY FS_Subset, FS_CardinalityType, DatasetAssumption
  <2>2. Present \in SUBSET Samples /\ Approved \in SUBSET Samples
    BY DEF Present, Approved
  <2> QED
    BY <2>1, <2>2 DEF Init
<1>2. files \in [Numbers -> [train : SUBSET Entries, val : SUBSET Entries, manifest : Manifests]]
  BY DatasetAssumption DEF Init, EmptyDir, Manifests
<1>3. versions = <<>> /\ Len(versions) = 0 /\ versions \in Seq(Rows) /\ calls = 0 /\ call = Idle
  BY DEF Init
<1>7. review \in [Samples -> SampleStatus \cup {"none"}] /\ content \in [Samples -> Contents]
  BY DEF Init, SampleStatus
<1>8. status \in DatasetStatus /\ listed \subseteq Numbers /\ torn \in BOOLEAN /\ byHand \in BOOLEAN
  BY DEF Init, DatasetStatus
<1>9. calls \in 0..MaxCalls /\ Len(versions) <= calls
  BY <1>3, DatasetAssumption
<1>4. TypeOK
  BY <1>1, <1>2, <1>3, <1>7, <1>8, <1>9, IdleType DEF TypeOK, Steps
<1>5. FreshInv /\ WrittenInv
  BY <1>3 DEF FreshInv, WrittenInv, Writing, Idle
<1>6. VersionIsBacked
  BY <1>3 DEF VersionIsBacked
<1> QED
  BY <1>4, <1>5, <1>6 DEF IInv

\* What a freeze writes is not part of a version yet.
LEMMA WritesBeyond ==
    ASSUME TypeOK, FreshInv, call.step \in Writing
    PROVE  call.number \in Numbers /\ call.number \notin DOMAIN versions
<1>1. Len(versions) \in Nat /\ DOMAIN versions = 1..Len(versions)
  BY DEF TypeOK
<1>2. call.number = Len(versions) + 1 /\ call.number \in Numbers
  BY DEF FreshInv, TypeOK
<1> QED
  BY <1>1, <1>2

\* The directories of versions are left alone, and rows are only appended.
LEMMA KeptStep ==
    ASSUME TypeOK, FreshInv, [Next]_vars, NEW n \in DOMAIN versions
    PROVE  n \in DOMAIN versions' /\ versions'[n] = versions[n] /\ files'[n] = files[n]
<1>1. CASE UNCHANGED vars
  BY <1>1 DEF vars
<1>2. CASE Reviewing
  BY <1>2, ReviewingType
<1>3. ASSUME NEW by \in Strategies, NEW p \in Percents, Freeze(by, p)
      PROVE  UNCHANGED <<versions, files>>
  BY <1>3 DEF Freeze
<1>4. CASE WriteTrain \/ WriteVal \/ WriteManifest
  <2>1. call.number # n
    BY <1>4, WritesBeyond DEF WriteTrain, WriteVal, WriteManifest, Writing
  <2>2. files \in [Numbers -> [train : SUBSET Entries, val : SUBSET Entries, manifest : Manifests]]
    BY DEF TypeOK
  <2>3. UNCHANGED versions
    BY <1>4 DEF WriteTrain, WriteVal, WriteManifest
  <2>4. n \in Numbers
    BY DatasetAssumption DEF TypeOK, Numbers
  <2>5. CASE WriteTrain
    BY <2>1, <2>2, <2>3, <2>4, <2>5 DEF WriteTrain
  <2>6. CASE WriteVal
    BY <2>1, <2>2, <2>3, <2>4, <2>6 DEF WriteVal
  <2>7. CASE WriteManifest
    BY <2>1, <2>2, <2>3, <2>4, <2>7 DEF WriteManifest
  <2> QED
    BY <1>4, <2>5, <2>6, <2>7
<1>5. CASE InsertVersion
  <2>1. call.number \notin DOMAIN versions
    BY <1>5, WritesBeyond DEF InsertVersion, Writing
  <2>2. versions' = Append(versions, call.row) /\ files' = files
    BY <1>5, <2>1 DEF InsertVersion
  <2>3. n \in 1..Len(versions) /\ Len(versions) \in Nat /\ versions \in Seq(Rows) /\ call.row \in Rows
    BY DEF TypeOK
  <2>4. DOMAIN versions' = 1..(Len(versions) + 1) /\ versions'[n] = versions[n]
    BY <2>2, <2>3
  <2> QED
    BY <2>2, <2>3, <2>4
<1>6. CASE InsertSamples \/ Seal
  BY <1>6 DEF InsertSamples, Seal
<1> QED
  BY <1>1, <1>2, <1>3, <1>4, <1>5, <1>6, NextSplit DEF Freezing

LEMMA WrittenStep == TypeOK /\ FreshInv /\ WrittenInv /\ [Next]_vars => WrittenInv'
<1> SUFFICES ASSUME TypeOK, FreshInv, WrittenInv, [Next]_vars PROVE WrittenInv'
  OBVIOUS
<1>t. /\ files \in [Numbers -> [train : SUBSET Entries, val : SUBSET Entries, manifest : Manifests]]
      /\ call \in [step : Steps, number : Numbers, final : BOOLEAN, row : Rows]
  BY DEF TypeOK, Steps
<1>1. CASE UNCHANGED vars
  BY <1>1 DEF vars, WrittenInv
<1>2. CASE Reviewing
  BY <1>2, ReviewingType DEF WrittenInv, Writing
<1>3. ASSUME NEW by \in Strategies, NEW p \in Percents, Freeze(by, p) PROVE WrittenInv'
  BY <1>3 DEF Freeze, WrittenInv
<1>4. CASE WriteTrain
  <2>1. files'[call.number].train = call.row.train /\ files'[call.number].val = files[call.number].val
    BY <1>4, <1>t DEF WriteTrain
  <2>2. /\ call'.number = call.number /\ call'.row = call.row
        /\ call'.step = IF call.row.val = {} THEN "manifest" ELSE "val"
    BY <1>4, <1>t DEF WriteTrain, Step
  <2> QED
    BY <2>1, <2>2 DEF WrittenInv
<1>5. CASE WriteVal
  <2>1. /\ files'[call.number].val = call.row.val
        /\ files'[call.number].train = files[call.number].train
    BY <1>5, <1>t DEF WriteVal
  <2>2. call'.number = call.number /\ call'.row = call.row /\ call'.step = "manifest" /\ call.step = "val"
    BY <1>5, <1>t DEF WriteVal, Step
  <2> QED
    BY <2>1, <2>2 DEF WrittenInv
<1>6. CASE WriteManifest
  <2>1. /\ files'[call.number].manifest =
             [id |-> call.row.id, train |-> call.row.train, val |-> call.row.val, final |-> call.final]
        /\ files'[call.number].train = files[call.number].train
        /\ files'[call.number].val = files[call.number].val
    BY <1>6, <1>t DEF WriteManifest
  <2>2. /\ call'.number = call.number /\ call'.row = call.row /\ call.step = "manifest"
        /\ call'.step = IF call.final THEN "row" ELSE "train"
    BY <1>6, <1>t DEF WriteManifest
  <2>3. call.final \in BOOLEAN
    BY <1>t
  <2>4. CASE call.final = TRUE
    BY <2>1, <2>2, <2>4 DEF WrittenInv
  <2>5. CASE call.final = FALSE
    BY <2>2, <2>5 DEF WrittenInv
  <2> QED
    BY <2>3, <2>4, <2>5
<1>7. CASE InsertVersion
  BY <1>7, <1>t, WritesBeyond DEF InsertVersion, Writing, Step, WrittenInv
<1>8. CASE InsertSamples \/ Seal
  BY <1>8, <1>t DEF InsertSamples, Seal, Step, Idle, WrittenInv
<1> QED
  BY <1>1, <1>2, <1>3, <1>4, <1>5, <1>6, <1>7, <1>8, NextSplit DEF Freezing

\* Only the insertion of a finished freeze adds a version.
LEMMA AddedVersion ==
    ASSUME TypeOK, FreshInv, [Next]_vars, NEW n \in DOMAIN versions', n \notin DOMAIN versions
    PROVE  /\ call.step = "row" /\ call.step \in Writing
           /\ n = call.number /\ versions'[n] = call.row /\ files' = files
<1>1. InsertVersion
  <2>1. ~(UNCHANGED versions)
    OBVIOUS
  <2>2. ~Reviewing /\ ~(UNCHANGED vars)
    BY <2>1, ReviewingType DEF vars
  <2>3. \A by \in Strategies, p \in Percents : ~Freeze(by, p)
    BY <2>1 DEF Freeze
  <2> QED
    BY <2>1, <2>2, <2>3, NextSplit DEF Freezing, WriteTrain, WriteVal, WriteManifest, InsertSamples, Seal
<1>2. /\ call.step = "row" /\ call.step \in Writing
      /\ call.number \notin DOMAIN versions /\ call.number = Len(versions) + 1
  BY <1>1, WritesBeyond DEF InsertVersion, Writing, FreshInv
<1>3. versions' = Append(versions, call.row) /\ files' = files
  BY <1>1, <1>2 DEF InsertVersion
<1>4. versions \in Seq(Rows) /\ call.row \in Rows /\ Len(versions) \in Nat
  BY DEF TypeOK
<1> QED
  BY <1>2, <1>3, <1>4

LEMMA BackedStep == IInv /\ [Next]_vars => VersionIsBacked'
<1> SUFFICES ASSUME IInv, [Next]_vars, NEW n \in DOMAIN versions' PROVE Backed(n)'
  BY DEF VersionIsBacked
<1>t. TypeOK /\ FreshInv /\ WrittenInv /\ VersionIsBacked
  BY DEF IInv
<1>1. CASE n \in DOMAIN versions
  <2>1. versions'[n] = versions[n] /\ files'[n] = files[n]
    BY <1>1, <1>t, KeptStep
  <2>2. Backed(n)
    BY <1>1, <1>t DEF VersionIsBacked
  <2> QED
    BY <2>1, <2>2 DEF Backed
<1>2. CASE n \notin DOMAIN versions
  BY <1>2, <1>t, AddedVersion DEF WrittenInv, Backed
<1> QED
  BY <1>1, <1>2

LEMMA Inductive == Spec => []IInv
<1>1. IInv /\ [Next]_vars => IInv'
  BY TypeNext, WrittenStep, BackedStep DEF IInv
<1> QED
  BY <1>1, InitInv, PTL DEF Spec

\* Type correctness, the state of a freeze that broke off included.
THEOREM DatasetTypes == Spec => []TypeOK
<1>1. IInv => TypeOK
  BY DEF IInv
<1> QED
  BY <1>1, Inductive, PTL

\* Every version that a training may ask for is backed by the files its row
\* was made of, whatever freezes broke off before and after it.
THEOREM VersionsAreBacked == Spec => []VersionIsBacked
<1>1. IInv => VersionIsBacked
  BY DEF IInv
<1> QED
  BY <1>1, Inductive, PTL

\* A version is immutable: no call changes its row or its files.
THEOREM VersionsAreImmutable == Spec => VersionsKept
<1>1. IInv /\ [Next]_vars =>
        \A n \in DOMAIN versions : n \in DOMAIN versions' /\ versions'[n] = versions[n] /\ files'[n] = files[n]
  BY KeptStep DEF IInv
<1> QED
  BY <1>1, Inductive, PTL DEF Spec, VersionsKept

-----------------------------------------------------------------------------
(* The split of a version.  The unique index keeps the contents of a       *)
(* dataset apart, so the duplicate filter excludes nothing; the last group *)
(* of the shuffled list is never validated, so something is left to train  *)
(* on.                                                                     *)

UniqueInv == \A s, t \in Present : s # t => content[s] # content[t]

SplitOK(v) ==
    /\ v.train # {}
    /\ Cardinality(v.train) + Cardinality(v.val) = v.count
    /\ \A a \in v.train, b \in v.val : KeyOf(v.by, a[1]) # KeyOf(v.by, b[1]) /\ a[2] # b[2]

\* What a freeze is about to insert is split as it should be.
RowSplit == call.step \in Writing => SplitOK(call.row)

\* No validation set holds a part of a group only, or every group.
LEMMA ValSetsSeparate ==
    ASSUME NEW S \in SUBSET Samples, S # {}, NEW by, NEW p, NEW val \in ValSets(by, S, p)
    PROVE  /\ val \in SUBSET S
           /\ S \ val # {}
           /\ \A s \in S \ val, t \in val : KeyOf(by, s) # KeyOf(by, t)
<1>1. val \in SUBSET S
  BY ValSetsInside
<1>2. CASE val = {}
  BY <1>1, <1>2
<1>3. CASE val # {}
  <2> DEFINE K == {KeyOf(by, s) : s \in S}
             q == IF p > 50 THEN 50 ELSE p
             m == Cardinality(K)
  <2>1. PICK o \in Shuffles(K) : val = Members(by, S, ValKeys(by, S, o, q))
    BY <1>3 DEF ValSets
  <2>2. IsFiniteSet(K)
    <3> DEFINE f == [s \in S |-> KeyOf(by, s)]
    <3>1. IsFiniteSet(S)
      BY FS_Subset, DatasetAssumption
    <3>2. f \in [S -> K] /\ \A k \in K : \E s \in S : f[s] = k
      OBVIOUS
    <3>3. f \in Surjection(S, K)
      BY <3>2, Fun_IsSurj
    <3> QED
      BY <3>1, <3>3, FS_Surjection
  <2>3. m \in Nat /\ m # 0
    <3>1. K # {}
      OBVIOUS
    <3> QED
      BY <2>2, <3>1, FS_CardinalityType, FS_EmptySet
  <2> HIDE DEF K, q, m
  <2>4. o \in [1..m -> K] /\ \A i, j \in 1..m : o[i] = o[j] => i = j
    BY DEF Shuffles, m
  <2>5. Len(o) = m
    BY <2>3, <2>4
  <2>6. ValKeys(by, S, o, q) \subseteq {o[j] : j \in 1..(m - 1)}
    BY <2>5 DEF ValKeys
  <2>7. m \in 1..m /\ \A j \in 1..(m - 1) : j \in 1..m /\ j # m
    BY <2>3
  <2>8. o[m] \in K /\ o[m] \notin ValKeys(by, S, o, q)
    BY <2>4, <2>6, <2>7
  <2>9. PICK s \in S : KeyOf(by, s) = o[m]
    BY <2>8 DEF K
  <2>10. s \notin val
    BY <2>1, <2>8, <2>9 DEF Members
  <2>11. \A u \in S \ val, t \in val : KeyOf(by, u) # KeyOf(by, t)
    BY <2>1 DEF Members
  <2> QED
    BY <1>1, <2>10, <2>11
<1> QED
  BY <1>2, <1>3

\* The unique index leaves the duplicate filter nothing to exclude.
LEMMA KeptAll ==
    ASSUME UniqueInv, NEW S \in SUBSET Present
    PROVE  Kept(S) = S
<1>1. S \subseteq Nat
  BY DatasetAssumption DEF Present
<1>2. \A s, t \in S : t < s => content[t] # content[s]
  BY <1>1 DEF UniqueInv
<1> QED
  BY <1>2 DEF Kept

LEMMA EntryCount ==
    ASSUME NEW T \in SUBSET Samples
    PROVE  /\ IsFiniteSet(T)
           /\ Cardinality({Entry(s) : s \in T}) = Cardinality(T)
<1> DEFINE E == {Entry(s) : s \in T}
           f == [s \in T |-> Entry(s)]
<1>1. IsFiniteSet(T)
  BY FS_Subset, DatasetAssumption
<1>2. f \in [T -> E] /\ \A e \in E : \E s \in T : f[s] = e
  OBVIOUS
<1>3. \A s, t \in T : f[s] = f[t] => s = t
  BY DEF Entry
<1>4. f \in Bijection(T, E)
  BY <1>2, <1>3, Fun_IsBij
<1>5. ExistsBijection(T, E)
  BY <1>4 DEF ExistsBijection
<1> QED
  BY <1>1, <1>5, FS_Bijection

LEMMA FreezeSplit ==
    ASSUME TypeOK, UniqueInv, NEW by \in Strategies, NEW p \in Percents, Freeze(by, p)
    PROVE  SplitOK(call'.row)
<1>1. Approved \in SUBSET Present /\ Approved \in SUBSET Samples /\ Approved # {}
  BY DEF Approved, Present, Freeze
<1>2. Kept(Approved) = Approved
  BY <1>1, KeptAll
<1>3. PICK val \in ValSets(by, Approved, p) :
         call' = [step |-> "train", number |-> NextNumber, final |-> FALSE,
                  row |-> [id |-> calls + 1, count |-> Cardinality(Approved), by |-> by,
                           train |-> {Entry(s) : s \in Approved \ val},
                           val |-> {Entry(s) : s \in val}]]
  BY <1>2 DEF Freeze
<1> DEFINE Rest == Approved \ val
<1>4. /\ val \in SUBSET Approved /\ Rest # {}
      /\ \A s \in Rest, t \in val : KeyOf(by, s) # KeyOf(by, t)
  BY <1>1, ValSetsSeparate
<1>5. Cardinality({Entry(s) : s \in Rest}) + Cardinality({Entry(s) : s \in val}) = Cardinality(Approved)
  <2>1. /\ Cardinality({Entry(s) : s \in Rest}) = Cardinality(Rest)
        /\ Cardinality({Entry(s) : s \in val}) = Cardinality(val)
        /\ IsFiniteSet(val) /\ IsFiniteSet(Approved)
    BY <1>1, <1>4, EntryCount
  <2>2. Approved \cap val = val
    BY <1>4
  <2>3. Cardinality(Rest) = Cardinality(Approved) - Cardinality(val)
    <3>1. Cardinality(Rest) = Cardinality(Approved) - Cardinality(Approved \cap val)
      BY <2>1, FS_Difference
    <3> QED
      BY <2>2, <3>1
  <2>4. Cardinality(Approved) \in Nat /\ Cardinality(val) \in Nat
    BY <2>1, FS_CardinalityType
  <2> QED
    BY <2>1, <2>3, <2>4
<1>6. \A a \in {Entry(s) : s \in Rest}, b \in {Entry(s) : s \in val} :
         KeyOf(by, a[1]) # KeyOf(by, b[1]) /\ a[2] # b[2]
  <2> SUFFICES ASSUME NEW s \in Rest, NEW t \in val
               PROVE  KeyOf(by, Entry(s)[1]) # KeyOf(by, Entry(t)[1]) /\ Entry(s)[2] # Entry(t)[2]
    OBVIOUS
  <2>1. s # t /\ s \in Present /\ t \in Present
    BY <1>1, <1>4
  <2>2. content[s] # content[t]
    BY <2>1 DEF UniqueInv
  <2> QED
    BY <1>4, <2>2 DEF Entry
<1>7. {Entry(s) : s \in Rest} # {}
  BY <1>4
<1>8. /\ call'.row.train = {Entry(s) : s \in Rest} /\ call'.row.val = {Entry(s) : s \in val}
      /\ call'.row.count = Cardinality(Approved) /\ call'.row.by = by
  BY <1>3
<1> QED
  BY <1>5, <1>6, <1>7, <1>8 DEF SplitOK

LEMMA UniqueStep == TypeOK /\ UniqueInv /\ [Next]_vars => UniqueInv'
<1> SUFFICES ASSUME TypeOK, UniqueInv, [Next]_vars PROVE UniqueInv'
  OBVIOUS
<1>1. ASSUME NEW s \in Samples, NEW r \in SampleStatus, NEW c \in Contents, Write(s, r, c)
      PROVE  UniqueInv'
  <2>1. review \in [Samples -> SampleStatus \cup {"none"}] /\ content \in [Samples -> Contents]
    BY DEF TypeOK
  <2>2. review' = [review EXCEPT ![s] = r] /\ content' = [content EXCEPT ![s] = c]
    BY <1>1 DEF Write
  <2>3. content'[s] = c /\ \A t \in Samples \ {s} : content'[t] = content[t] /\ review'[t] = review[t]
    BY <2>1, <2>2
  <2>4. \A t \in Present' \ {s} : t \in Present \ {s} /\ content'[t] = content[t] /\ content[t] # c
    BY <1>1, <2>3 DEF Present, Write, Unique
  <2> QED
    BY <2>3, <2>4 DEF UniqueInv
<1>2. ASSUME UNCHANGED sampleVars PROVE UniqueInv'
  BY <1>2 DEF sampleVars, UniqueInv, Present
<1>3. ASSUME NEW s \in Samples, NEW c \in Contents, Add(s, c) PROVE UniqueInv'
  <2>1. Write(s, "pending", c) /\ "pending" \in SampleStatus
    BY <1>3 DEF Add, SampleStatus
  <2> QED
    BY <1>1, <2>1
<1>4. ASSUME NEW s \in Samples, NEW c \in Contents, NEW r \in SampleStatus, Update(s, r, c) PROVE UniqueInv'
  BY <1>1, <1>4 DEF Update
<1>5. CASE UNCHANGED vars
  BY <1>2, <1>5 DEF vars
<1>6. CASE Reviewing
  BY <1>2, <1>3, <1>4, <1>6 DEF Reviewing, SetStatus, Refresh, Mark, Break
<1>7. CASE Freezing
  BY <1>2, <1>7 DEF Freezing, WriteTrain, WriteVal, WriteManifest, InsertVersion, InsertSamples, Seal
<1>8. ASSUME NEW by \in Strategies, NEW p \in Percents, Freeze(by, p) PROVE UniqueInv'
  BY <1>2, <1>8 DEF Freeze
<1> QED
  BY <1>5, <1>6, <1>7, <1>8, NextSplit

LEMMA RowStep == TypeOK /\ UniqueInv /\ RowSplit /\ [Next]_vars => RowSplit'
<1> SUFFICES ASSUME TypeOK, UniqueInv, RowSplit, [Next]_vars PROVE RowSplit'
  OBVIOUS
<1>t. call \in [step : Steps, number : Numbers, final : BOOLEAN, row : Rows]
  BY DEF TypeOK, Steps
<1>1. CASE UNCHANGED vars
  BY <1>1 DEF vars, RowSplit
<1>2. CASE Reviewing
  BY <1>2, ReviewingType DEF RowSplit
<1>3. ASSUME NEW by \in Strategies, NEW p \in Percents, Freeze(by, p) PROVE RowSplit'
  BY <1>3, FreezeSplit DEF RowSplit
<1>4. CASE WriteTrain \/ WriteVal \/ WriteManifest
  <2>1. call'.row = call.row /\ call.step \in Writing
    BY <1>4, <1>t DEF WriteTrain, WriteVal, WriteManifest, Step, Writing
  <2> QED
    BY <2>1 DEF RowSplit
<1>5. CASE InsertVersion \/ InsertSamples \/ Seal
  <2>1. call'.step \notin Writing
    BY <1>5, <1>t DEF InsertVersion, InsertSamples, Seal, Step, Idle, Writing
  <2> QED
    BY <2>1 DEF RowSplit
<1> QED
  BY <1>1, <1>2, <1>3, <1>4, <1>5, NextSplit DEF Freezing

LEMMA SplitStep == IInv /\ RowSplit /\ SplitSeparates /\ [Next]_vars => SplitSeparates'
<1> SUFFICES ASSUME IInv, RowSplit, SplitSeparates, [Next]_vars, NEW n \in DOMAIN versions'
             PROVE  SplitOK(versions'[n])
  BY DEF SplitSeparates, SplitOK
<1>t. TypeOK /\ FreshInv
  BY DEF IInv
<1>1. CASE n \in DOMAIN versions
  BY <1>1, <1>t, KeptStep DEF SplitSeparates, SplitOK
<1>2. CASE n \notin DOMAIN versions
  <2>1. call.step \in Writing /\ versions'[n] = call.row
    BY <1>2, <1>t, AddedVersion
  <2> QED
    BY <2>1 DEF RowSplit
<1> QED
  BY <1>1, <1>2

\* A version trains on at least one entry, holds every approved sample once,
\* and never validates on a group or a text it trains on: for every strategy,
\* ratio, shuffle and set of samples.
THEOREM SplitsSeparate == Spec => []SplitSeparates
<1> DEFINE SInv == UniqueInv /\ RowSplit /\ SplitSeparates
<1>1. Init => SInv
  BY DEF Init, UniqueInv, RowSplit, Writing, Idle, SplitSeparates, Present
<1>2. IInv /\ SInv /\ [Next]_vars => SInv'
  <2>1. IInv => TypeOK
    BY DEF IInv
  <2> QED
    BY <2>1, UniqueStep, RowStep, SplitStep
<1>3. SInv => SplitSeparates
  OBVIOUS
<1> QED
  BY <1>1, <1>2, <1>3, Inductive, PTL DEF Spec

-----------------------------------------------------------------------------
(* The frozen dataset and its newest version.                              *)

\* The newest version is whole and says what is approved now.
Latest ==
    /\ versions # <<>> /\ Len(versions) \in listed
    /\ versions[Len(versions)].train \cup versions[Len(versions)].val = {Entry(s) : s \in Approved}

\* A freeze carries what was approved when it began, and is approved still; it
\* began on a dataset that was not frozen, and inserts its row as the newest
\* version. A frozen dataset shows its newest version but between the write of
\* a sample and the mark that follows it.
LatestInv ==
    /\ call.step \in Writing \cup {"samples", "seal"} =>
         /\ call.row.train \cup call.row.val = {Entry(s) : s \in Approved}
         /\ status # "frozen"
    /\ call.step \in {"samples", "seal"} =>
         versions # <<>> /\ call.number = Len(versions) /\ versions[Len(versions)] = call.row
    /\ call.step = "seal" => call.number \in listed
    /\ status = "frozen" /\ ~byHand /\ ~torn /\ call.step \notin {"refresh", "mark"} => Latest

\* A freeze takes every approved sample, for training or for validation.
LEMMA FreezeEntries ==
    ASSUME TypeOK, UniqueInv, NEW by \in Strategies, NEW p \in Percents, Freeze(by, p)
    PROVE  /\ call'.row.train \cup call'.row.val = {Entry(s) : s \in Approved}
           /\ call'.step = "train" /\ status \in {"ready", "dirty"}
<1>1. Approved \in SUBSET Present /\ Approved \in SUBSET Samples
  BY DEF Approved, Present
<1>2. Kept(Approved) = Approved
  BY <1>1, KeptAll
<1>3. PICK val \in ValSets(by, Approved, p) :
         call' = [step |-> "train", number |-> NextNumber, final |-> FALSE,
                  row |-> [id |-> calls + 1, count |-> Cardinality(Approved), by |-> by,
                           train |-> {Entry(s) : s \in Approved \ val},
                           val |-> {Entry(s) : s \in val}]]
  BY <1>2 DEF Freeze
<1>4. val \in SUBSET Approved
  BY <1>1, ValSetsInside
<1> QED
  BY <1>3, <1>4 DEF Freeze

LEMMA LatestStep == TypeOK /\ FreshInv /\ UniqueInv /\ LatestInv /\ [Next]_vars => LatestInv'
<1> SUFFICES ASSUME TypeOK, FreshInv, UniqueInv, LatestInv, [Next]_vars PROVE LatestInv'
  OBVIOUS
<1> DEFINE Approves == {Entry(s) : s \in Approved}
<1>t. call \in [step : Steps, number : Numbers, final : BOOLEAN, row : Rows]
  BY DEF TypeOK, Steps
<1>0. ASSUME UNCHANGED sampleVars PROVE Approves' = Approves
  <2>1. Approved' = Approved /\ content' = content
    BY <1>0 DEF Approved, sampleVars
  <2> QED
    BY <2>1 DEF Entry
<1>1. ASSUME UNCHANGED <<sampleVars, versions, listed>> PROVE Latest' <=> Latest
  BY <1>0, <1>1 DEF Latest
<1>2. CASE UNCHANGED vars
  BY <1>0, <1>1, <1>2 DEF vars, LatestInv
<1>3. CASE Reviewing
  <2>1. ASSUME NEW s \in Samples, NEW r, NEW c, Write(s, r, c) PROVE LatestInv'
    BY <2>1, <1>t DEF Write, Step, LatestInv, Writing
  <2>2. ASSUME NEW s \in DatasetStatus, SetStatus(s) PROVE LatestInv'
    BY <2>2, <1>1 DEF SetStatus, Begin, LatestInv, Writing
  <2>3. CASE Refresh
    BY <2>3, <1>t DEF Refresh, Step, LatestInv, Writing
  <2>4. CASE Mark
    BY <2>4 DEF Mark, LatestInv, Writing, Idle
  <2>5. CASE Break
    <3>1. call'.step = "idle" /\ UNCHANGED <<status, byHand, sampleVars, versions, listed>>
      BY <2>5 DEF Break, Idle
    <3>2. ~torn' => ~torn /\ call.step \notin {"refresh", "mark"}
      BY <2>5 DEF Break, TypeOK
    <3> QED
      BY <3>1, <3>2, <1>1 DEF LatestInv, Writing
  <2> QED
    BY <1>3, <2>1, <2>2, <2>3, <2>4, <2>5 DEF Reviewing, Add, Update
<1>4. ASSUME NEW by \in Strategies, NEW p \in Percents, Freeze(by, p) PROVE LatestInv'
  <2>1. UNCHANGED <<status, sampleVars>>
    BY <1>4 DEF Freeze
  <2> QED
    BY <2>1, <1>0, <1>4, FreezeEntries DEF LatestInv
<1>5. CASE WriteTrain \/ WriteVal \/ WriteManifest
  <2>1. /\ call.step \in Writing /\ call'.row = call.row /\ call'.step \in Writing
        /\ UNCHANGED <<status, sampleVars>>
    BY <1>5, <1>t DEF WriteTrain, WriteVal, WriteManifest, Step, Writing
  <2> QED
    BY <2>1, <1>0 DEF LatestInv, Writing
<1>6. CASE InsertVersion
  <2>1. call.step = "row" /\ call.number = Len(versions) + 1 /\ call.number \notin DOMAIN versions
    BY <1>6, WritesBeyond DEF InsertVersion, FreshInv, Writing
  <2>2. /\ versions' = Append(versions, call.row) /\ call' = [call EXCEPT !.step = "samples"]
        /\ UNCHANGED <<status, sampleVars>>
    BY <1>6, <2>1 DEF InsertVersion, Step
  <2>3. versions \in Seq(Rows) /\ call.row \in Rows
    BY DEF TypeOK
  <2>4. versions' # <<>> /\ Len(versions') = Len(versions) + 1 /\ versions'[Len(versions')] = call.row
    BY <2>2, <2>3
  <2> QED
    BY <2>1, <2>2, <2>4, <1>0, <1>t DEF LatestInv, Writing
<1>7. CASE InsertSamples
  <2>1. /\ call.step = "samples" /\ call' = [call EXCEPT !.step = "seal"] /\ listed' = listed \cup {call.number}
        /\ UNCHANGED <<status, sampleVars, versions>>
    BY <1>7 DEF InsertSamples, Step
  <2> QED
    BY <2>1, <1>0, <1>t DEF LatestInv, Writing
<1>8. CASE Seal
  <2>1. call.step = "seal" /\ call'.step = "idle" /\ UNCHANGED <<sampleVars, versions, listed>>
    BY <1>8 DEF Seal, Idle
  <2>2. Latest
    BY <2>1 DEF LatestInv, Latest
  <2> QED
    BY <2>1, <2>2, <1>1 DEF LatestInv, Writing
<1> QED
  BY <1>2, <1>3, <1>4, <1>5, <1>6, <1>7, <1>8, NextSplit DEF Freezing

\* A frozen dataset is what its newest version says: the version lists and holds
\* exactly the samples that are approved, unless a PATCH wrote the status or a
\* call on a sample broke off before mark_dataset_changed.
THEOREM FrozenShowsLatest == Spec => []FrozenIsLatest
<1> DEFINE FInv == UniqueInv /\ LatestInv
<1>1. Init => FInv
  BY DEF Init, UniqueInv, LatestInv, Writing, Idle, Present
<1>2. IInv /\ FInv /\ [Next]_vars => FInv'
  <2>1. IInv => TypeOK /\ FreshInv
    BY DEF IInv
  <2> QED
    BY <2>1, UniqueStep, LatestStep
<1>3. FInv => FrozenIsLatest
  BY DEF LatestInv, Latest, FrozenIsLatest
<1> QED
  BY <1>1, <1>2, <1>3, Inductive, PTL DEF Spec
=============================================================================
