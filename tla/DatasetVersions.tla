--------------------------- MODULE DatasetVersions ---------------------------
(***************************************************************************)
(* One training dataset: its samples, their review, and freezing it into   *)
(* numbered versions (datasets/service.py, freeze_service.py,              *)
(* repository.py, manifest.py, splitter.py, dedupe.py).                    *)
(*                                                                         *)
(* Every call runs on the event loop without an await, so calls do not     *)
(* interleave; but each is a row of transactions and file writes, and the  *)
(* process may die, or a write fail, between any two.  One transaction or  *)
(* file is one action, Break ends the call between two.  The database and  *)
(* the files outlive the process, so a restart changes nothing here.       *)
(*                                                                         *)
(* A content stands for the texts of a sample, or for their content_hash;  *)
(* a set of pairs (sample, content) for a train or val file, or its hash.  *)
(***************************************************************************)
EXTENDS Naturals, Sequences, FiniteSets

CONSTANTS
    Samples,     \* sample ids, numbers in the order of their created_at
    Contents,    \* what a sample may say
    Valid,       \* contents with an instruction and an output
    Chapter,     \* the chapter a sample comes from
    Project,     \* the project a sample comes from
    MinEntries,  \* entries below which nothing is validated (10 in the code)
    Percents,    \* val_ratio of a freeze request, in percent
    MaxCalls     \* bound: calls made in all

ASSUME DatasetAssumption ==
    /\ Samples \subseteq Nat /\ IsFiniteSet(Samples)
    /\ Valid \subseteq Contents
    /\ Chapter \in [Samples -> Nat] /\ Project \in [Samples -> Nat]
    /\ MinEntries \in Nat /\ MaxCalls \in Nat \ {0}
    /\ Percents \subseteq Nat

SampleStatus == {"pending", "approved", "rejected", "exported", "archived"}
DatasetStatus == {"draft", "reviewing", "ready", "frozen", "dirty", "archived"}
Strategies == {"group_by_chapter", "group_by_project", "random_by_sample", "no_validation"}

VARIABLES
    status,      \* training_datasets.status
    review,      \* training_samples.status, "none" without a row
    content,     \* training_samples.content_hash
    counts,      \* sample_count, approved_sample_count, rejected_sample_count
    versions,    \* dataset_versions, by version number
    listed,      \* versions whose rows are in dataset_version_samples
    files,       \* the directories versions/v1, v2, ...
    call,        \* the call the event loop executes
    calls,       \* calls made so far; the id of a freeze
    torn,        \* history: a call on a sample was broken off since the last whole one
    byHand       \* history: the status "frozen" was written by a PATCH

sampleVars == <<review, content>>
vars == <<status, sampleVars, counts, versions, listed, files, call, calls, torn, byHand>>

Numbers == 1..MaxCalls
Entries == Samples \X Contents
Manifests == [id : 0..MaxCalls, train : SUBSET Entries, val : SUBSET Entries, final : BOOLEAN]
Rows == [id : Numbers, count : Nat, by : Strategies, train : SUBSET Entries, val : SUBSET Entries]
NoRow == [id |-> 1, count |-> 0, by |-> "no_validation", train |-> {}, val |-> {}]
Idle == [step |-> "idle", number |-> 1, final |-> FALSE, row |-> NoRow]
EmptyDir == [train |-> {}, val |-> {},
             manifest |-> [id |-> 0, train |-> {}, val |-> {}, final |-> FALSE]]

Present == {s \in Samples : review[s] # "none"}
Approved == {s \in Samples : review[s] = "approved"}
Rejected == {s \in Samples : review[s] = "rejected"}
Entry(s) == <<s, content[s]>>

\* A dataset that was marked ready for the first time: samples with different
\* contents, all approved, no version yet.
Init ==
    /\ status = "ready"
    /\ review \in [Samples -> {"none", "approved"}]
    /\ \A s, t \in Samples : s < t /\ review[s] = "none" => review[t] = "none"
    /\ content \in [Samples -> Contents]
    /\ \A s, t \in Samples : s # t => content[s] # content[t]
    /\ counts = <<Cardinality(Present), Cardinality(Approved), 0>>
    /\ versions = <<>> /\ listed = {}
    /\ files = [n \in Numbers |-> EmptyDir]
    /\ call = Idle /\ calls = 0
    /\ torn = FALSE /\ byHand = FALSE

Step(s) == call' = [call EXCEPT !.step = s]

Begin ==
    /\ call.step = "idle" /\ calls < MaxCalls
    /\ calls' = calls + 1

-----------------------------------------------------------------------------
(* Samples.                                                                *)

\* The unique index on (dataset_id, content_hash).
Unique(s, c) == \A t \in Present \ {s} : content[t] # c

\* The write of a sample's row, new or old; the counts are refreshed next.
Write(s, r, c) ==
    /\ Unique(s, c)
    /\ review' = [review EXCEPT ![s] = r]
    /\ content' = [content EXCEPT ![s] = c]
    /\ Step("refresh")
    /\ UNCHANGED <<status, counts, versions, listed, files, torn, byHand>>

\* create_sample_from_revision, _store_draft, create_sample; the bulk call does
\* the same for one revision after the other.
Add(s, c) ==
    /\ Begin
    /\ status # "archived"
    /\ review[s] = "none" /\ \A t \in Samples : t < s => review[t] # "none"
    /\ Write(s, "pending", c)

\* update_sample, approve_sample, reject_sample, remove_sample.
Update(s, r, c) ==
    /\ Begin
    /\ s \in Present
    /\ <<r, c>> # <<review[s], content[s]>>
    /\ Write(s, r, c)

\* refresh_dataset_counts.
Refresh ==
    /\ call.step = "refresh"
    /\ counts' = <<Cardinality({s \in Present : review[s] # "archived"}), Cardinality(Approved), Cardinality(Rejected)>>
    /\ Step("mark")
    /\ UNCHANGED <<status, sampleVars, versions, listed, files, calls, torn, byHand>>

\* (Mutant) Only a dataset that is dirty already is marked.
MutMark ==
    /\ call.step = "mark"
    /\ byHand' = FALSE /\ torn' = FALSE
    /\ call' = Idle
    /\ UNCHANGED <<status, sampleVars, counts, versions, listed, files, calls>>

\* mark_dataset_changed.
Mark ==
    /\ call.step = "mark"
    /\ status' = IF status = "frozen" THEN "dirty" ELSE status
    /\ byHand' = FALSE /\ torn' = FALSE
    /\ call' = Idle
    /\ UNCHANGED <<sampleVars, counts, versions, listed, files, calls>>

\* update_dataset with a status, archive_dataset, mark_ready, mark_dirty: the
\* first takes every status from every status, the others are cases of it.
SetStatus(s) ==
    /\ Begin
    /\ s # status
    /\ status' = s
    /\ byHand' = (s = "frozen")
    /\ UNCHANGED <<sampleVars, counts, versions, listed, files, call, torn>>

-----------------------------------------------------------------------------
(* Splitting the approved samples.                                         *)

\* DatasetDedupeService.dedupe: the first sample of each content is kept.
\* (Near duplicates are only warned of.)
Kept(S) == {s \in S : \A t \in S : t < s => content[t] # content[s]}

\* _groups: the group an entry belongs to.
KeyOf(by, s) == CASE by = "group_by_chapter" -> Chapter[s]
                  [] by = "group_by_project" -> Project[s]
                  [] OTHER -> s
Members(by, S, keys) == {s \in S : KeyOf(by, s) \in keys}

\* round(n * p / 100), halves to the even neighbour.
Round(n, p) ==
    LET q == (n * p) \div 100
        r == (n * p) % 100
    IN IF r > 50 \/ (r = 50 /\ q % 2 = 1) THEN q + 1 ELSE q

Target(n, p) == IF Round(n, p) = 0 THEN 1 ELSE Round(n, p)

Shuffles(K) == {o \in [1..Cardinality(K) -> K] : \A i, j \in DOMAIN o : o[i] = o[j] => i = j}

\* (Mutant) The last group may be validated too.
MutValKeys(by, S, order, p) ==
    {order[j] : j \in {j \in 1..Len(order) :
        Cardinality(Members(by, S, {order[i] : i \in 1..(j - 1)})) < Target(Cardinality(S), p)}}

\* The groups of a shuffled list that are validated: from the front, as long as
\* the groups before have too few entries, and never the last group.
ValKeys(by, S, order, p) ==
    {order[j] : j \in {j \in 1..(Len(order) - 1) :
        Cardinality(Members(by, S, {order[i] : i \in 1..(j - 1)})) < Target(Cardinality(S), p)}}

\* DatasetSplitter.split: the possible validation sets of the entries S.
ValSets(by, S, p) ==
    IF by = "no_validation" \/ Cardinality(S) < MinEntries \/ p = 0
    THEN {{}}
    ELSE {Members(by, S, ValKeys(by, S, o, IF p > 50 THEN 50 ELSE p)) :
             o \in Shuffles({KeyOf(by, s) : s \in S})}

-----------------------------------------------------------------------------
(* Freezing.                                                               *)

\* (Mutant) MAX(version) without the + 1.
MutNextNumber == IF versions = <<>> THEN 1 ELSE Len(versions)

\* next_dataset_version_number: MAX(version) + 1.
NextNumber == Len(versions) + 1

\* _validate_samples.
Complete(S) == \A s \in S : content[s] \in Valid

\* freeze_dataset up to the first file: everything is read and computed here.
Freeze(by, p) ==
    /\ Begin
    /\ status \in {"ready", "dirty"}
    /\ Approved # {}
    /\ Complete(Approved)
    /\ \E val \in ValSets(by, Kept(Approved), p) :
         call' = [step |-> "train", number |-> NextNumber, final |-> FALSE,
                  row |-> [id |-> calls + 1, count |-> Cardinality(Approved), by |-> by,
                           train |-> {Entry(s) : s \in Kept(Approved) \ val},
                           val |-> {Entry(s) : s \in val}]]
    /\ UNCHANGED <<status, sampleVars, counts, versions, listed, files, torn, byHand>>

\* write_version_artifacts, called twice: it opens each file anew, and leaves
\* a val.jsonl that is there alone when nothing is validated.
WriteTrain ==
    /\ call.step = "train"
    /\ files' = [files EXCEPT ![call.number].train = call.row.train]
    /\ Step(IF call.row.val = {} THEN "manifest" ELSE "val")
    /\ UNCHANGED <<status, sampleVars, counts, versions, listed, calls, torn, byHand>>

WriteVal ==
    /\ call.step = "val"
    /\ files' = [files EXCEPT ![call.number].val = call.row.val]
    /\ Step("manifest")
    /\ UNCHANGED <<status, sampleVars, counts, versions, listed, calls, torn, byHand>>

\* (Mutant) The row is written between the two manifests.
MutWriteManifest ==
    /\ call.step = "manifest"
    /\ files' = [files EXCEPT ![call.number].manifest =
                   [id |-> call.row.id, train |-> call.row.train, val |-> call.row.val, final |-> call.final]]
    /\ call' = [call EXCEPT !.step = "row", !.final = TRUE]
    /\ UNCHANGED <<status, sampleVars, counts, versions, listed, calls, torn, byHand>>

\* The manifest of the first call carries another content hash than the row.
WriteManifest ==
    /\ call.step = "manifest"
    /\ files' = [files EXCEPT ![call.number].manifest =
                   [id |-> call.row.id, train |-> call.row.train, val |-> call.row.val, final |-> call.final]]
    /\ call' = [call EXCEPT !.step = IF call.final THEN "row" ELSE "train", !.final = TRUE]
    /\ UNCHANGED <<status, sampleVars, counts, versions, listed, calls, torn, byHand>>

\* create_dataset_version; (dataset_id, version) is unique.
InsertVersion ==
    /\ call.step = "row"
    /\ IF call.number \in DOMAIN versions
         THEN versions' = versions /\ call' = Idle
         ELSE versions' = Append(versions, call.row) /\ Step("samples")
    /\ UNCHANGED <<status, sampleVars, counts, listed, files, calls, torn, byHand>>

\* create_dataset_version_samples.
InsertSamples ==
    /\ call.step = "samples"
    /\ listed' = listed \cup {call.number}
    /\ Step("seal")
    /\ UNCHANGED <<status, sampleVars, counts, versions, files, calls, torn, byHand>>

Seal ==
    /\ call.step = "seal"
    /\ status' = "frozen" /\ byHand' = FALSE
    /\ call' = Idle
    /\ UNCHANGED <<sampleVars, counts, versions, listed, files, calls, torn>>

\* The process dies, or a write raises: what is not written stays unwritten.
Break ==
    /\ call.step # "idle"
    /\ torn' = (torn \/ call.step \in {"refresh", "mark"})
    /\ call' = Idle
    /\ UNCHANGED <<status, sampleVars, counts, versions, listed, files, calls, byHand>>

SampleCalls ==
    \E s \in Samples, c \in Contents : Add(s, c) \/ (\E r \in SampleStatus : Update(s, r, c))

DatasetCalls ==
    \/ \E s \in DatasetStatus : SetStatus(s)
    \/ \E by \in Strategies, p \in Percents : Freeze(by, p)

Next ==
    \/ SampleCalls \/ DatasetCalls
    \/ Refresh \/ Mark
    \/ WriteTrain \/ WriteVal \/ WriteManifest \/ InsertVersion \/ InsertSamples \/ Seal
    \/ Break

Spec == Init /\ [][Next]_vars

-----------------------------------------------------------------------------
(* Properties.                                                             *)

\* Every variable keeps its type (the columns of the tables of
\* datasets/migrations.py, and the steps of freeze_dataset).
TypeOK ==
    /\ status \in DatasetStatus
    /\ review \in [Samples -> SampleStatus \cup {"none"}]
    /\ content \in [Samples -> Contents]
    /\ counts \in Nat \X Nat \X Nat
    /\ versions \in Seq(Rows) /\ Len(versions) <= calls
    /\ listed \subseteq Numbers
    /\ files \in [Numbers -> [train : SUBSET Entries, val : SUBSET Entries, manifest : Manifests]]
    /\ call \in [step : {"idle", "refresh", "mark", "train", "val", "manifest", "row", "samples", "seal"},
                 number : Numbers, final : BOOLEAN, row : Rows]
    /\ calls \in 0..MaxCalls
    /\ torn \in BOOLEAN /\ byHand \in BOOLEAN

\* What the preflight of a training reads (finetune/preflight.py, _manifest
\* and _dataset_paths) fits the row of the version, for every version there
\* is: its own manifest with the row's content hash, and the files that hash
\* was made of - in particular when an earlier freeze left a directory of the
\* same number behind.
Backed(n) ==
    /\ files[n].train = versions[n].train
    /\ versions[n].val # {} => files[n].val = versions[n].val
    /\ files[n].manifest = [id |-> versions[n].id, train |-> versions[n].train, val |-> versions[n].val, final |-> TRUE]

VersionIsBacked == \A n \in DOMAIN versions : Backed(n)

\* A version is never changed once it exists, neither its row nor its files
\* (versioning.py: "DatasetVersion immutable content hashing").
VersionsKept ==
    [][\A n \in DOMAIN versions :
         n \in DOMAIN versions' /\ versions'[n] = versions[n] /\ files'[n] = files[n]]_vars

\* freeze_dataset puts every approved sample into the version, each content
\* once, trains on at least one, and validates on no group it trains on.
\* That none is excluded as a duplicate is owed to the unique index.
SplitSeparates ==
    \A n \in DOMAIN versions :
      LET v == versions[n] IN
      /\ v.train # {}
      /\ Cardinality(v.train) + Cardinality(v.val) = v.count
      /\ \A a \in v.train, b \in v.val : KeyOf(v.by, a[1]) # KeyOf(v.by, b[1]) /\ a[2] # b[2]

\* A frozen dataset is what its newest version says: unless a PATCH wrote the
\* status, or a call on a sample broke off before mark_dataset_changed.
FrozenIsLatest ==
    status = "frozen" /\ ~byHand /\ ~torn /\ call.step = "idle" =>
      /\ versions # <<>> /\ Len(versions) \in listed
      /\ versions[Len(versions)].train \cup versions[Len(versions)].val = {Entry(s) : s \in Approved}
=============================================================================
