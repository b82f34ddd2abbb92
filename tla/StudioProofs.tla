---------------------------- MODULE StudioProofs -----------------------------
(***************************************************************************)
(* Proofs about the services of the writing studio, for every value of     *)
(* their constants: what a training run trains (TrainingRecipes), what the *)
(* row of an export says (DatasetExports), what a model directory holds    *)
(* (Downloads), what an API key opens (Accounts), that the two results of  *)
(* a comparison belong together (AdapterEvaluation), what an execution of  *)
(* an evaluation leaves (Evaluation), what the library of the novels looks *)
(* like (Novels), what its memory holds (Memory), which model profile is   *)
(* the default one (ModelProfiles), what the diff and the drafts of a      *)
(* revision say of its texts (Revisions), and which prompts the program    *)
(* replaces, that installing them converges and what a rendering reports   *)
(* (Prompts).                                                              *)
(***************************************************************************)
EXTENDS TrainingRecipes, DatasetExports, Downloads, Accounts, AdapterEvaluation,
        Evaluation, Memory, ModelProfiles, Prompts, WellFoundedInduction,
        FiniteSetTheorems, SequenceTheorems, TLAPS

-----------------------------------------------------------------------------
(* Rows are appended to tables and replaced in them; nothing else needs to *)
(* be known of what a row is.                                              *)

IsTable(s) == \E S : s \in Seq(S)

LEMMA TableAppend ==
    ASSUME NEW s, NEW e, IsTable(s)
    PROVE  /\ IsTable(Append(s, e))
           /\ Len(s) \in Nat /\ DOMAIN s = 1..Len(s)
           /\ DOMAIN Append(s, e) = 1..(Len(s) + 1)
           /\ \A i \in DOMAIN s : Append(s, e)[i] = s[i]
           /\ Append(s, e)[Len(s) + 1] = e
<1>1. PICK S : s \in Seq(S)
    BY DEF IsTable
<1>2. s \in Seq(S \cup {e})
    BY <1>1
<1>3. Append(s, e) \in Seq(S \cup {e})
    BY <1>2
<1> QED
    BY <1>2, <1>3 DEF IsTable

LEMMA TableMap ==
    ASSUME NEW s, NEW t, IsTable(s), t = [i \in DOMAIN s |-> t[i]]
    PROVE  IsTable(t)
<1>1. PICK S : s \in Seq(S)
    BY DEF IsTable
<1>2. DOMAIN s = 1..Len(s) /\ Len(s) \in Nat
    BY <1>1
<1>3. t \in [1..Len(s) -> {t[i] : i \in 1..Len(s)}]
    BY <1>2
<1>4. t \in Seq({t[i] : i \in 1..Len(s)})
    BY <1>2, <1>3
<1> QED
    BY <1>4 DEF IsTable

LEMMA TableExcept ==
    ASSUME NEW s, NEW i \in DOMAIN s, NEW e, IsTable(s)
    PROVE  /\ IsTable([s EXCEPT ![i] = e])
           /\ DOMAIN [s EXCEPT ![i] = e] = DOMAIN s
<1>1. PICK S : s \in Seq(S)
    BY DEF IsTable
<1>2. [s EXCEPT ![i] = e] \in Seq(S \cup {e})
    BY <1>1
<1> QED
    BY <1>2 DEF IsTable

\* Every set of numbers has a least one (the well-foundedness of <, as a relation).
LEMMA MinExists ==
    ASSUME NEW S \in SUBSET Nat, S # {}
    PROVE  Min(S) \in S /\ \A y \in S : Min(S) =< y
<1>1. \E x \in S : \A y \in S : ~ (<<y, x>> \in OpToRel(<, Nat))
    BY NatLessThanWellFounded, WFMin
<1>2. \A x, y \in Nat : <<y, x>> \in OpToRel(<, Nat) <=> y < x
    BY DEF OpToRel
<1>3. \E x \in S : \A y \in S : x =< y
    <2>1. PICK x \in S : \A y \in S : ~ (<<y, x>> \in OpToRel(<, Nat))
        BY <1>1
    <2>2. \A y \in S : ~ (y < x)
        BY <1>2, <2>1
    <2> QED
        BY <2>2
<1> QED
    BY <1>3 DEF Min

-----------------------------------------------------------------------------
(* TrainingRecipes.  A recipe may be edited at any time, but it keeps its  *)
(* version; a run keeps what it was created with.                          *)

RecipeFields == {"version", "method", "status", "offer", "user"}

RecipesKept == IsTable(recipes) /\ \A i \in Recipes : DOMAIN recipes[i] = RecipeFields

RunFields == {"recipe", "name", "status", "method", "config", "steps", "said", "answered", "trained"}

\* A run as its creation left it, with the versions of the recipes in rows.
AsCreated(run, rows) ==
    /\ DOMAIN run = RunFields
    /\ run.recipe \in DOMAIN rows
    /\ run.config = run.answered.config /\ run.method = run.answered.method
    /\ run.steps = TotalSteps(rows[run.recipe].version, run.answered.config)
    /\ run.trained \in {Untrained, Args(run.answered.config, run.answered.method)}

RunsKept == IsTable(trainRuns) /\ \A r \in TrainRuns : AsCreated(trainRuns[r], recipes)

RecipeInv == RecipesKept /\ RunsKept

\* Rows are only added and no row's version changes, so runs stay as created.
LEMMA RecipesGrow ==
    ASSUME RecipeInv, RecipesKept', UNCHANGED trainRuns,
           \A i \in Recipes : i \in Recipes' /\ recipes'[i].version = recipes[i].version
    PROVE  RecipeInv'
<1>1. ASSUME NEW r \in TrainRuns PROVE AsCreated(trainRuns[r], recipes')
    BY <1>1 DEF RecipeInv, RunsKept, AsCreated, Recipes
<1> QED
    BY <1>1 DEF RecipeInv, RunsKept, TrainRuns

LEMMA PatchKeeps ==
    ASSUME RecipeInv, NEW i \in Recipes, NEW field \in {"method", "status", "user"}, NEW value,
           Patch(i, field, value)
    PROVE  RecipeInv'
<1> DEFINE row == [recipes[i] EXCEPT ![field] = value]
<1>1. recipes' = [recipes EXCEPT ![i] = row] /\ UNCHANGED trainRuns
    BY DEF Patch
<1>2. DOMAIN recipes[i] = RecipeFields /\ IsTable(recipes)
    BY DEF RecipeInv, RecipesKept
<1>3. DOMAIN row = RecipeFields /\ row.version = recipes[i].version
    BY <1>2 DEF RecipeFields
<1> HIDE DEF row
<1>4. IsTable(recipes') /\ DOMAIN recipes' = DOMAIN recipes
    BY <1>1, <1>2, TableExcept DEF Recipes
<1>5. \A j \in Recipes : recipes'[j] = IF j = i THEN row ELSE recipes[j]
    BY <1>1 DEF Recipes
<1>6. RecipesKept'
    BY <1>3, <1>4, <1>5 DEF RecipesKept, RecipeInv, Recipes
<1> QED
    BY <1>1, <1>3, <1>4, <1>5, <1>6, RecipesGrow DEF Recipes

LEMMA RecommendKeeps ==
    ASSUME RecipeInv, NEW v, NEW card, NEW m, NEW q, Recommend(v, card, m, q)
    PROVE  RecipeInv'
<1> DEFINE kind == Offered(card, m)
           row == [version |-> v, method |-> kind, status |-> "draft",
                   offer |-> Offer(v, card, kind, q), user |-> <<>>]
<1>1. recipes' = Append(recipes, row) /\ UNCHANGED trainRuns
    BY DEF Recommend, NewRecipe
<1>2. DOMAIN row = RecipeFields
    BY DEF RecipeFields
<1> HIDE DEF row
<1>3. IsTable(recipes)
    BY DEF RecipeInv, RecipesKept
<1>4. RecipesKept'
    BY <1>1, <1>2, <1>3, TableAppend DEF RecipesKept, RecipeInv, Recipes
<1>5. \A i \in Recipes : i \in Recipes' /\ recipes'[i].version = recipes[i].version
    BY <1>1, <1>3, TableAppend DEF Recipes
<1> QED
    BY <1>1, <1>4, <1>5, RecipesGrow

LEMMA CreateKeeps ==
    ASSUME RecipeInv, NEW i \in Recipes, NEW name, CreateTraining(i, name)
    PROVE  RecipeInv'
<1> DEFINE config == Resolved(recipes[i])
           run == [recipe |-> i, name |-> name, status |-> "created",
                   method |-> recipes[i].method, config |-> config,
                   steps |-> TotalSteps(recipes[i].version, config),
                   said |-> Said(recipes[i]),
                   answered |-> [config |-> config, method |-> recipes[i].method],
                   trained |-> Untrained]
<1>1. trainRuns' = Append(trainRuns, run) /\ UNCHANGED recipes
    BY DEF CreateTraining, NewTraining
<1> HIDE DEF config
<1>2. AsCreated(run, recipes)
    BY DEF AsCreated, RunFields, Recipes
<1> HIDE DEF run
<1>3. IsTable(trainRuns)
    BY DEF RecipeInv, RunsKept
<1>4. IsTable(trainRuns') /\ \A r \in TrainRuns' : AsCreated(trainRuns'[r], recipes)
    BY <1>1, <1>2, <1>3, TableAppend DEF RecipeInv, RunsKept, TrainRuns
<1> QED
    BY <1>1, <1>4 DEF RecipeInv, RunsKept, RecipesKept, AsCreated, Recipes

\* A step of a run writes its status, and at most what it has trained.
LEMMA RunStepKeeps ==
    ASSUME RecipeInv, UNCHANGED recipes, NEW r \in TrainRuns, NEW run,
           trainRuns' = [trainRuns EXCEPT ![r] = run], AsCreated(run, recipes)
    PROVE  RecipeInv'
<1>1. IsTable(trainRuns') /\ DOMAIN trainRuns' = DOMAIN trainRuns
    BY TableExcept DEF RecipeInv, RunsKept, TrainRuns
<1>2. \A q \in TrainRuns : trainRuns'[q] = IF q = r THEN run ELSE trainRuns[q]
    BY DEF TrainRuns
<1>3. \A q \in TrainRuns' : AsCreated(trainRuns'[q], recipes)
    BY <1>1, <1>2 DEF RecipeInv, RunsKept, TrainRuns
<1> QED
    BY <1>1, <1>3 DEF RecipeInv, RunsKept, RecipesKept, AsCreated, Recipes

LEMMA StatusKeeps ==
    ASSUME RecipeInv, UNCHANGED recipes, NEW r \in TrainRuns, NEW status,
           trainRuns' = [trainRuns EXCEPT ![r].status = status]
    PROVE  RecipeInv'
<1> DEFINE run == [trainRuns[r] EXCEPT !.status = status]
<1>1. AsCreated(trainRuns[r], recipes)
    BY DEF RecipeInv, RunsKept
<1>2. AsCreated(run, recipes)
    BY <1>1 DEF AsCreated, RunFields
<1>3. trainRuns' = [trainRuns EXCEPT ![r] = run]
    OBVIOUS
<1> HIDE DEF run
<1> QED
    BY <1>2, <1>3, RunStepKeeps

LEMMA TrainedKeeps ==
    ASSUME RecipeInv, UNCHANGED recipes, NEW r \in TrainRuns, NEW status,
           trainRuns' = [trainRuns EXCEPT ![r].status = status, ![r].trained = TrainedWith(r)]
    PROVE  RecipeInv'
<1> DEFINE run == [[trainRuns[r] EXCEPT !.status = status] EXCEPT !.trained = TrainedWith(r)]
<1>1. AsCreated(trainRuns[r], recipes)
    BY DEF RecipeInv, RunsKept
<1>2. TrainedWith(r) = Args(trainRuns[r].answered.config, trainRuns[r].answered.method)
    BY <1>1 DEF TrainedWith, AsCreated
<1>3. AsCreated(run, recipes)
    BY <1>1, <1>2 DEF AsCreated, RunFields
<1>4. trainRuns' = [trainRuns EXCEPT ![r] = run]
    BY DEF TrainRuns
<1> HIDE DEF run
<1> QED
    BY <1>3, <1>4, RunStepKeeps

LEMMA RecipeInitInv == RecipeInit => RecipeInv
<1> SUFFICES ASSUME RecipeInit PROVE RecipeInv
    OBVIOUS
<1>1. <<>> \in Seq({})
    OBVIOUS
<1> QED
    BY <1>1 DEF RecipeInit, RecipeInv, RecipesKept, RunsKept, IsTable, Recipes, TrainRuns

LEMMA RecipeStepInv == RecipeInv /\ [RecipeCalls \/ RecipeSteps]_recipeVars => RecipeInv'
<1> SUFFICES ASSUME RecipeInv, [RecipeCalls \/ RecipeSteps]_recipeVars PROVE RecipeInv'
    OBVIOUS
<1>1. ASSUME NEW v \in DOMAIN Versions, NEW card \in GpuSizes, NEW m \in Methods, NEW q \in Qualities,
             Recommend(v, card, m, q)
      PROVE  RecipeInv'
    BY <1>1, RecommendKeeps
<1>2. ASSUME NEW i \in Recipes, Confirm(i) \/ Edit(i) PROVE RecipeInv'
    BY <1>2, PatchKeeps DEF Confirm, Edit
<1>3. ASSUME NEW i \in Recipes, NEW name, CreateTraining(i, name) PROVE RecipeInv'
    BY <1>3, CreateKeeps
<1>4. ASSUME NEW r \in TrainRuns, Submit(r) PROVE RecipeInv'
    BY <1>4, StatusKeeps DEF Submit
<1>5. ASSUME NEW r \in TrainRuns, StartTraining(r) PROVE RecipeInv'
    BY <1>5, StatusKeeps DEF StartTraining
<1>6. ASSUME NEW r \in TrainRuns, Train(r) PROVE RecipeInv'
    BY <1>6, TrainedKeeps DEF Train
<1>7. CASE UNCHANGED recipeVars
    BY <1>7 DEF recipeVars, RecipeInv, RecipesKept, RunsKept, AsCreated, Recipes, TrainRuns
<1> QED
    BY <1>1, <1>2, <1>3, <1>4, <1>5, <1>6, <1>7 DEF RecipeCalls, RecipeSteps

\* However recipes are edited, archived and confirmed again between the
\* creation of a run and its job, the job trains what the creation answered.
THEOREM RunsTrainAsCreated == RecipeSpec => []TrainsAsCreated
<1>1. RecipeInv => TrainsAsCreated
    BY DEF RecipeInv, RunsKept, AsCreated, TrainsAsCreated
<1> QED
    BY <1>1, RecipeInitInv, RecipeStepInv, PTL DEF RecipeSpec

-----------------------------------------------------------------------------
(* DatasetExports.  A file is written again only by a later call, which is *)
(* the one its by names; no call is later than the one under way.          *)

FolderKept ==
    /\ DOMAIN folder = Names
    /\ exportCalls \in Nat
    /\ \A n \in Names : folder[n].by \in 0..exportCalls
    /\ clock \in 1..MaxClock

UnderWay ==
    export # NoExport =>
      /\ DOMAIN export = {"step", "id", "name", "format", "lines"}
      /\ export.step \in {"metadata", "file", "lines", "row"}
      /\ export.id = exportCalls /\ exportCalls > 0 /\ export.name \in Names
      /\ export.step = "row" => folder[export.name] = [by |-> export.id, lines |-> export.lines]

RowKept(row) ==
    /\ row.id \in 1..exportCalls /\ row.name \in Names
    /\ export # NoExport => row.id < export.id
    /\ \/ folder[row.name].by > row.id
       \/ folder[row.name] = [by |-> row.id, lines |-> row.hash]
    /\ row.count = Cardinality(row.hash)

ExportRowsKept == IsTable(exports) /\ \A i \in DOMAIN exports : RowKept(exports[i])

ExportInv == FolderKept /\ UnderWay /\ ExportRowsKept

\* Steps that write no file and no row, and begin no call.
LEMMA ExportRests ==
    ASSUME ExportInv, UNCHANGED <<folder, exports, exportCalls>>, clock' \in 1..MaxClock,
           \/ UNCHANGED export
           \/ export' = NoExport
           \/ export # NoExport /\ export' = [export EXCEPT !.step = "file"]
    PROVE  ExportInv'
<1>1. FolderKept'
    BY DEF ExportInv, FolderKept
<1>2. UnderWay'
    BY DEF ExportInv, UnderWay, NoExport
<1>3. export' # NoExport => export # NoExport /\ export'.id = export.id
    BY DEF ExportInv, UnderWay, NoExport
<1>4. ASSUME NEW row, RowKept(row) PROVE RowKept(row)'
    BY <1>3, <1>4 DEF RowKept
<1>5. ExportRowsKept'
    BY <1>4 DEF ExportInv, ExportRowsKept
<1> QED
    BY <1>1, <1>2, <1>5 DEF ExportInv

LEMMA BeginKeeps ==
    ASSUME ExportInv, NEW format, NEW approvedOnly, NEW given \in FileNames \cup {0},
           BeginExport(format, approvedOnly, given)
    PROVE  ExportInv'
<1>1. NameOf(given) \in Names
    BY DEF NameOf, Names, ExportInv, FolderKept
<1>2. /\ exportCalls \in Nat /\ exportCalls' = exportCalls + 1
      /\ UNCHANGED <<folder, exports, clock>>
      /\ export' = [step |-> "metadata", id |-> exportCalls + 1, name |-> NameOf(given), format |-> format,
                    lines |-> {Payload(s, format) : s \in Chosen(approvedOnly)}]
    BY DEF BeginExport, ExportInv, FolderKept
<1>3. FolderKept'
    BY <1>2 DEF ExportInv, FolderKept
<1>4. UnderWay'
    BY <1>1, <1>2 DEF UnderWay
<1>5. ASSUME NEW row, RowKept(row) PROVE RowKept(row)'
    BY <1>2, <1>5 DEF RowKept
<1>6. ExportRowsKept'
    BY <1>2, <1>5 DEF ExportInv, ExportRowsKept
<1> QED
    BY <1>3, <1>4, <1>6 DEF ExportInv

LEMMA WriteKeeps == ASSUME ExportInv, WriteExport PROVE ExportInv'
<1> DEFINE lines == IF export.step = "file" THEN {} ELSE export.lines
           opened == [by |-> export.id, lines |-> lines]
<1>1. /\ export # NoExport /\ export.id = exportCalls /\ export.name \in Names
      /\ DOMAIN export = {"step", "id", "name", "format", "lines"}
    BY DEF ExportInv, UnderWay, WriteExport, NoExport
<1>2. /\ folder' = [folder EXCEPT ![export.name] = opened]
      /\ export' = [export EXCEPT !.step = IF export.step = "file" THEN "lines" ELSE "row"]
      /\ UNCHANGED <<exports, exportCalls, clock>>
      /\ export.step \in {"file", "lines"}
    BY DEF WriteExport
<1>3. DOMAIN folder = Names /\ exportCalls \in Nat /\ clock \in 1..MaxClock /\ exportCalls > 0
      /\ \A n \in Names : folder[n].by \in 0..exportCalls
    BY <1>1 DEF ExportInv, FolderKept, UnderWay
<1>4. export.step # "file" => lines = export.lines
    OBVIOUS
<1>5. opened.by = exportCalls /\ opened.lines = lines
    BY <1>1
<1>6. \A n \in Names : folder'[n] = IF n = export.name THEN opened ELSE folder[n]
    BY <1>2, <1>3
<1>7. FolderKept'
  <2>1. \A n \in Names : folder'[n].by \in 0..exportCalls
      BY <1>3, <1>5, <1>6
  <2> QED
      BY <2>1, <1>2, <1>3 DEF FolderKept
<1>8. /\ export' # NoExport /\ export'.id = export.id /\ export'.name = export.name
      /\ export'.lines = export.lines /\ DOMAIN export' = DOMAIN export
      /\ export'.step = IF export.step = "file" THEN "lines" ELSE "row"
    BY <1>1, <1>2 DEF NoExport
<1>9. UnderWay'
  <2>1. export'.step = "row" => folder'[export'.name] = [by |-> export'.id, lines |-> export'.lines]
      BY <1>1, <1>2, <1>4, <1>6, <1>8
  <2> QED
      BY <2>1, <1>1, <1>2, <1>3, <1>8 DEF UnderWay
<1>10. ASSUME NEW row, RowKept(row) PROVE RowKept(row)'
  <2>1. row.id < exportCalls /\ row.id \in Nat /\ row.name \in Names
      BY <1>1, <1>3, <1>10 DEF RowKept
  <2>2. \/ folder'[row.name].by > row.id
        \/ folder'[row.name] = [by |-> row.id, lines |-> row.hash]
    <3>1. CASE row.name = export.name
        BY <3>1, <2>1, <1>5, <1>6
    <3>2. CASE row.name # export.name
        BY <3>2, <2>1, <1>6, <1>10 DEF RowKept
    <3> QED
        BY <3>1, <3>2
  <2> HIDE DEF lines, opened
  <2> QED
      BY <2>1, <2>2, <1>1, <1>2, <1>8, <1>10 DEF RowKept
<1>11. ExportRowsKept'
    BY <1>2, <1>10 DEF ExportInv, ExportRowsKept
<1> QED
    BY <1>7, <1>9, <1>11 DEF ExportInv

LEMMA InsertKeeps == ASSUME ExportInv, InsertExport PROVE ExportInv'
<1> DEFINE row == [id |-> export.id, name |-> export.name, format |-> export.format,
                   hash |-> folder[export.name].lines, count |-> Cardinality(export.lines)]
<1>1. /\ export # NoExport /\ export.id = exportCalls /\ exportCalls > 0 /\ export.name \in Names
      /\ folder[export.name] = [by |-> export.id, lines |-> export.lines]
    BY DEF ExportInv, UnderWay, InsertExport, NoExport
<1>2. /\ exports' = Append(exports, row) /\ export' = NoExport
      /\ UNCHANGED <<folder, exportCalls, clock>>
    BY DEF InsertExport
<1>3. /\ row.id = exportCalls /\ row.name = export.name /\ row.hash = export.lines
      /\ row.count = Cardinality(row.hash)
    BY <1>1
<1>4. exportCalls \in Nat
    BY DEF ExportInv, FolderKept
<1> HIDE DEF row
<1>4a. PICK e : e = row
    OBVIOUS
<1>5. RowKept(e)'
    BY <1>1, <1>2, <1>3, <1>4, <1>4a DEF RowKept
<1>6. ASSUME NEW other, RowKept(other) PROVE RowKept(other)'
    BY <1>2, <1>6 DEF RowKept
<1>7. IsTable(exports)
    BY DEF ExportInv, ExportRowsKept
<1>8. ExportRowsKept'
    BY <1>2, <1>5, <1>6, <1>7, <1>4a, TableAppend DEF ExportInv, ExportRowsKept
<1>9. FolderKept' /\ UnderWay'
    BY <1>2 DEF ExportInv, FolderKept, UnderWay
<1> QED
    BY <1>8, <1>9 DEF ExportInv

LEMMA ExportInitInv == ExportInit => ExportInv
<1> SUFFICES ASSUME ExportInit PROVE ExportInv
    OBVIOUS
<1>1. <<>> \in Seq({})
    OBVIOUS
<1>2. IsTable(exports) /\ DOMAIN exports = {}
    BY <1>1 DEF IsTable, ExportInit
<1> QED
    BY <1>2, ExportAssumption DEF ExportInit, ExportInv, FolderKept, UnderWay, ExportRowsKept

LEMMA ExportStepInv == ExportInv /\ [ExportNext]_exportVars => ExportInv'
<1> SUFFICES ASSUME ExportInv, [ExportNext]_exportVars PROVE ExportInv'
    OBVIOUS
<1>1. clock \in 1..MaxClock
    BY DEF ExportInv, FolderKept
<1>2. CASE \E s \in ExportSamples, status \in {"approved", "rejected"}, line \in Lines :
             Review(s, status, line)
    BY <1>1, <1>2, ExportRests DEF Review
<1>3. CASE \E format \in ExportFormats, approvedOnly \in BOOLEAN, given \in FileNames \cup {0} :
             BeginExport(format, approvedOnly, given)
    BY <1>3, BeginKeeps
<1>4. CASE Second
  <2>1. clock' \in 1..MaxClock /\ UNCHANGED <<folder, exports, export, exportCalls>>
      BY <1>1, <1>4, ExportAssumption DEF Second
  <2> QED
      BY <2>1, ExportRests
<1>5. CASE WriteMetadata
  <2>1. export # NoExport
      BY <1>5 DEF WriteMetadata, NoExport
  <2> QED
      BY <2>1, <1>1, <1>5, ExportRests DEF WriteMetadata
<1>6. CASE WriteExport
    BY <1>6, WriteKeeps
<1>7. CASE InsertExport
    BY <1>7, InsertKeeps
<1>8. CASE BreakExport
    BY <1>1, <1>8, ExportRests DEF BreakExport
<1>9. CASE UNCHANGED exportVars
    BY <1>1, <1>9, ExportRests DEF exportVars
<1> QED
    BY <1>2, <1>3, <1>4, <1>5, <1>6, <1>7, <1>8, <1>9 DEF ExportNext

\* Whatever write fails or ends with the process, and whatever names calls
\* share, a row's file is the one it was inserted with or that of a later call.
THEOREM ExportRowsTell == ExportSpec => []ExportIsItsFile
<1>1. ExportInv => ExportIsItsFile
    BY DEF ExportInv, ExportRowsKept, RowKept, ExportIsItsFile
<1> QED
    BY <1>1, ExportInitInv, ExportStepInv, PTL DEF ExportSpec

-----------------------------------------------------------------------------
(* Downloads.  A model directory is never written over, and what is        *)
(* installed is one repository and the whole of it.                        *)
(*                                                                         *)
(* The inductive invariant follows the directory of a job under temp_dir:  *)
(* it holds nothing but files of the job's repository, from the moment it  *)
(* is opened at least what this attempt has fetched, and between the       *)
(* check and the rename all of them.  All this is only as long as no       *)
(* cleanup has taken a directory from under a job that runs.               *)

Steps == {"rest", "queued", "check", "fetch", "rename", "register"}
Files == SUBSET ((UNION {FilesOf[repo] : repo \in Repos}) \cup NoFile)
Jobs == [repo : Repos, name : ModelNames, status : Active \cup Over, pc : Steps, cancel : BOOLEAN,
         fetched : Files, cleaned : BOOLEAN]

DownloadTypes ==
    /\ download \in Seq(Jobs)
    /\ part \in Seq(Files) /\ Len(part) = Len(download)
    /\ DOMAIN model = ModelNames

Cleaned == \E j \in DOMAIN download : download[j].cleaned

PartOf(job, dir) ==
    /\ Present(dir) => dir \subseteq FilesOf[job.repo]
    /\ job.pc \in {"queued", "check"} => job.fetched = {}
    /\ job.pc = "fetch" => Present(dir) /\ job.fetched \subseteq dir
    /\ job.pc = "rename" => dir = FilesOf[job.repo]

Installed(n) ==
    Present(model[n]) => \E j \in DOMAIN download : download[j].name = n /\ model[n] = FilesOf[download[j].repo]

PartsKept == \A j \in DOMAIN download : PartOf(download[j], part[j])
InstalledKept == \A n \in ModelNames : Installed(n)

DownloadInv == DownloadTypes /\ (Cleaned \/ (PartsKept /\ InstalledKept))

\* The merge of a cancel saves a status that some row had.
MergeTyped == merge.seen \in Active \cup Over \cup {"none"}

-----------------------------------------------------------------------------
(* Type correctness is part of the invariant; a step is of one job, of one *)
(* directory, or of the index.                                             *)

LEMMA JobStep ==
    ASSUME DownloadInv, NEW j \in DOMAIN download, NEW job \in Jobs,
           download' = [download EXCEPT ![j] = job], UNCHANGED model,
           part' \in Seq(Files), Len(part') = Len(part),
           \A k \in DOMAIN part : k # j => part'[k] = part[k],
           job.repo = download[j].repo, job.name = download[j].name,
           download[j].cleaned => job.cleaned,
           PartOf(download[j], part[j]) => job.cleaned \/ PartOf(job, part'[j])
    PROVE  DownloadInv'
<1>1. /\ download \in Seq(Jobs) /\ part \in Seq(Files) /\ Len(part) = Len(download)
      /\ DOMAIN download = 1..Len(download) /\ DOMAIN part = 1..Len(download)
    BY DEF DownloadInv, DownloadTypes
<1>2. /\ download' \in Seq(Jobs) /\ part' \in Seq(Files)
      /\ Len(part') = Len(download') /\ DOMAIN download' = DOMAIN download
    BY <1>1
<1>3. DownloadTypes'
    BY <1>2 DEF DownloadInv, DownloadTypes
<1>4. \A k \in DOMAIN download : /\ download'[k] = IF k = j THEN job ELSE download[k]
                                 /\ k # j => part'[k] = part[k]
    BY <1>1
<1>5. Cleaned => Cleaned'
    BY <1>2, <1>4 DEF Cleaned
<1>6. ASSUME PartsKept, ~Cleaned' PROVE PartsKept'
    BY <1>2, <1>4, <1>6 DEF PartsKept, Cleaned
<1>7. ASSUME InstalledKept PROVE InstalledKept'
  <2> SUFFICES ASSUME NEW n \in ModelNames, Present(model[n])
               PROVE  \E k \in DOMAIN download' :
                        download'[k].name = n /\ model[n] = FilesOf[download'[k].repo]
      BY DEF InstalledKept, Installed
  <2>1. PICK k \in DOMAIN download : download[k].name = n /\ model[n] = FilesOf[download[k].repo]
      BY <1>7 DEF InstalledKept, Installed
  <2>2. download'[k].name = n /\ model[n] = FilesOf[download'[k].repo] /\ k \in DOMAIN download'
      BY <2>1, <1>2, <1>4
  <2> QED
      BY <2>2
<1> QED
    BY <1>3, <1>5, <1>6, <1>7 DEF DownloadInv

\* A job that only changes where it stands.
LEMMA RowStep ==
    ASSUME DownloadInv, NEW j \in DOMAIN download, NEW status \in Active \cup Over, NEW pc \in Steps,
           download' = Row(j, status, pc), UNCHANGED <<part, model>>,
           \/ pc = "rest"
           \/ pc = "check" /\ download[j].pc = "queued"
           \/ pc = "rename" /\ (PartOf(download[j], part[j]) => part[j] = FilesOf[download[j].repo])
    PROVE  DownloadInv'
<1> DEFINE job == [[download[j] EXCEPT !.status = status] EXCEPT !.pc = pc]
<1>1. download[j] \in Jobs /\ part' = part /\ part \in Seq(Files)
    BY DEF DownloadInv, DownloadTypes
<1>2. download' = [download EXCEPT ![j] = job]
    BY DEF Row
<1>3. /\ job \in Jobs /\ job.repo = download[j].repo /\ job.name = download[j].name
      /\ job.cleaned = download[j].cleaned
    BY <1>1 DEF Jobs
<1>4. PartOf(download[j], part[j]) => PartOf(job, part[j])
    BY <1>1 DEF PartOf, Jobs
<1>5. UNCHANGED model
    OBVIOUS
<1> HIDE DEF job
<1> QED
    BY <1>1, <1>2, <1>3, <1>4, <1>5, JobStep

LEMMA EndStep ==
    ASSUME DownloadInv, NEW j \in DOMAIN download, NEW status \in Over, EndsAs(j, status),
           UNCHANGED <<part, model>>
    PROVE  DownloadInv'
    BY RowStep DEF EndsAs, Steps

LEMMA CreateStep ==
    ASSUME DownloadInv, NEW repo \in Repos, NEW name \in ModelNames, CreateDownload(repo, name)
    PROVE  DownloadInv'
<1> DEFINE job == [repo |-> repo, name |-> name, status |-> "pending", pc |-> "queued",
                   cancel |-> FALSE, fetched |-> {}, cleaned |-> FALSE]
<1>1. /\ download \in Seq(Jobs) /\ part \in Seq(Files) /\ Len(part) = Len(download)
      /\ DOMAIN download = 1..Len(download)
    BY DEF DownloadInv, DownloadTypes
<1>2. download' = Append(download, job) /\ part' = Append(part, NoFile) /\ UNCHANGED model
    BY DEF CreateDownload
<1>3. {} \in Files /\ NoFile \in Files
    BY DEF Files
<1>3a. job \in Jobs
    BY <1>3 DEF Jobs, Active, Steps
<1>4. PartOf(job, NoFile)
    BY DEF PartOf, Present
<1>5. ~job.cleaned
    OBVIOUS
<1> HIDE DEF job
<1>6. /\ download' \in Seq(Jobs) /\ part' \in Seq(Files) /\ Len(part') = Len(download')
      /\ DOMAIN download' = 1..(Len(download) + 1)
      /\ \A k \in DOMAIN download : download'[k] = download[k] /\ part'[k] = part[k]
      /\ download'[Len(download) + 1] = job /\ part'[Len(download) + 1] = NoFile
    BY <1>1, <1>2, <1>3, <1>3a
<1>7. DownloadTypes'
    BY <1>2, <1>6 DEF DownloadInv, DownloadTypes
<1>8. Cleaned => Cleaned'
    BY <1>1, <1>6 DEF Cleaned
<1>9. PartsKept => PartsKept'
    BY <1>1, <1>4, <1>6 DEF PartsKept
<1>10. InstalledKept => InstalledKept'
    BY <1>1, <1>2, <1>6 DEF InstalledKept, Installed
<1> QED
    BY <1>7, <1>8, <1>9, <1>10 DEF DownloadInv

LEMMA CancelStep ==
    ASSUME DownloadInv, NEW j \in DOMAIN download, CancelDownload(j)
    PROVE  DownloadInv'
<1> DEFINE job == [[download[j] EXCEPT !.status = "cancelling"] EXCEPT !.cancel = download[j].pc # "rest"]
<1>1. download[j] \in Jobs /\ part' = part /\ part \in Seq(Files)
    BY DEF DownloadInv, DownloadTypes, CancelDownload, diskVars
<1>2. download' = [download EXCEPT ![j] = job] /\ UNCHANGED model
    BY DEF CancelDownload, diskVars
<1>3. /\ job \in Jobs /\ job.repo = download[j].repo /\ job.name = download[j].name
      /\ job.cleaned = download[j].cleaned
    BY <1>1 DEF Jobs, Active
<1>4. PartOf(download[j], part[j]) => PartOf(job, part[j])
    BY <1>1 DEF PartOf, Jobs
<1> HIDE DEF job
<1> QED
    BY <1>1, <1>2, <1>3, <1>4, JobStep

LEMMA MergeStep ==
    ASSUME DownloadInv, MergeTyped, NEW j \in DOMAIN download, MergeSave(j)
    PROVE  DownloadInv'
<1>1. download[j] \in Jobs /\ download \in Seq(Jobs) /\ part \in Seq(Files)
    BY DEF DownloadInv, DownloadTypes
<1> DEFINE job == [download[j] EXCEPT !.status = merge.seen]
<1>2. download' = [download EXCEPT ![j] = job] /\ UNCHANGED <<part, model>>
    BY DEF MergeSave, diskVars
<1>3. /\ job \in Jobs /\ job.repo = download[j].repo /\ job.name = download[j].name
      /\ job.cleaned = download[j].cleaned
    BY <1>1 DEF Jobs, MergeSave, MergeTyped
<1>4. PartOf(download[j], part[j]) => PartOf(job, part[j])
    BY <1>1 DEF PartOf, Jobs
<1> HIDE DEF job
<1> QED
    BY <1>1, <1>2, <1>3, <1>4, JobStep

LEMMA RetryStep ==
    ASSUME DownloadInv, NEW j \in DOMAIN download, RetryInterrupted(j)
    PROVE  DownloadInv'
<1> DEFINE job == [[[[download[j] EXCEPT !.status = "pending"] EXCEPT !.pc = "queued"]
                      EXCEPT !.cancel = FALSE] EXCEPT !.fetched = {}]
<1>1. download[j] \in Jobs /\ part' = part /\ part \in Seq(Files)
    BY DEF DownloadInv, DownloadTypes, RetryInterrupted, diskVars
<1>2. download' = [download EXCEPT ![j] = job] /\ UNCHANGED model
    BY DEF RetryInterrupted, diskVars
<1>3. /\ job \in Jobs /\ job.repo = download[j].repo /\ job.name = download[j].name
      /\ job.cleaned = download[j].cleaned
    BY <1>1 DEF Jobs, Active, Steps, Files
<1>4. PartOf(download[j], part[j]) => PartOf(job, part[j])
    BY <1>1 DEF PartOf, Jobs
<1> HIDE DEF job
<1> QED
    BY <1>1, <1>2, <1>3, <1>4, JobStep

\* The directory under temp_dir is opened: with what an earlier attempt left,
\* or empty; nothing has been fetched yet.
LEMMA OpenStep ==
    ASSUME DownloadInv, NEW j \in DOMAIN download, OpenTemp(j)
    PROVE  DownloadInv'
<1> DEFINE job == [download[j] EXCEPT !.pc = "fetch"]
           dir == IF Present(part[j]) THEN part[j] ELSE {}
<1>1. /\ download[j] \in Jobs /\ download[j].pc = "check"
      /\ part \in Seq(Files) /\ part[j] \in Files /\ j \in DOMAIN part
    BY DEF DownloadInv, DownloadTypes, OpenTemp
<1>2. download' = [download EXCEPT ![j] = job] /\ UNCHANGED model /\ part' = [part EXCEPT ![j] = dir]
    BY DEF OpenTemp, PartKey
<1>3. dir \in Files /\ Present(dir)
    BY <1>1 DEF Files, Present, NoFile
<1>4. /\ job \in Jobs /\ job.repo = download[j].repo /\ job.name = download[j].name
      /\ job.cleaned = download[j].cleaned /\ job.fetched = download[j].fetched /\ job.pc = "fetch"
    BY <1>1 DEF Jobs, Steps
<1>5. PartOf(download[j], part[j]) => PartOf(job, dir)
    BY <1>1, <1>3, <1>4 DEF PartOf
<1> HIDE DEF job, dir
<1>6. /\ part' \in Seq(Files) /\ Len(part') = Len(part) /\ part'[j] = dir
      /\ \A k \in DOMAIN part : k # j => part'[k] = part[k]
    BY <1>1, <1>2, <1>3
<1> QED
    BY <1>2, <1>4, <1>5, <1>6, JobStep

LEMMA FetchStep ==
    ASSUME DownloadInv, NEW j \in DOMAIN download, NEW f \in FilesOf[download[j].repo], FetchFile(j, f)
    PROVE  DownloadInv'
<1> DEFINE job == [download[j] EXCEPT !.fetched = download[j].fetched \cup {f}]
           dir == (IF Present(part[j]) THEN part[j] ELSE {}) \cup {f}
<1>0. download[j].pc = "fetch"
    BY DEF FetchFile
<1>0a. download[j] \in Jobs /\ part \in Seq(Files) /\ part[j] \in Files /\ j \in DOMAIN part
    BY DEF DownloadInv, DownloadTypes
<1>1. /\ download[j] \in Jobs /\ download[j].pc = "fetch" /\ download[j].repo \in Repos
      /\ part \in Seq(Files) /\ part[j] \in Files /\ download[j].fetched \in Files /\ j \in DOMAIN part
    BY <1>0, <1>0a DEF Jobs
<1>2. download' = [download EXCEPT ![j] = job] /\ UNCHANGED model /\ part' = [part EXCEPT ![j] = dir]
    BY DEF FetchFile, PartKey
<1>3. {f} \in Files /\ "no file" \notin FilesOf[download[j].repo]
    BY <1>1, DownloadAssumption DEF Files
<1>4. dir \in Files /\ download[j].fetched \cup {f} \in Files
    BY <1>1, <1>3 DEF Files
<1>5. /\ job \in Jobs /\ job.repo = download[j].repo /\ job.name = download[j].name
      /\ job.cleaned = download[j].cleaned /\ job.fetched = download[j].fetched \cup {f} /\ job.pc = "fetch"
    BY <1>1, <1>4 DEF Jobs
<1>6. ASSUME PartOf(download[j], part[j]) PROVE PartOf(job, dir)
  <2>1. Present(part[j]) /\ part[j] \subseteq FilesOf[job.repo] /\ download[j].fetched \subseteq part[j]
      BY <1>1, <1>5, <1>6 DEF PartOf
  <2>2. dir = part[j] \cup {f} /\ dir \subseteq FilesOf[job.repo] /\ job.fetched \subseteq dir
      BY <2>1, <1>5
  <2>3. f \in dir /\ f # "no file"
      BY <1>3, <2>2
  <2> HIDE DEF dir, job
  <2>4. Present(dir)
      BY <2>3 DEF Present, NoFile
  <2> QED
      BY <1>5, <2>2, <2>4 DEF PartOf
<1> HIDE DEF job, dir
<1>7. /\ part' \in Seq(Files) /\ Len(part') = Len(part) /\ part'[j] = dir
      /\ \A k \in DOMAIN part : k # j => part'[k] = part[k]
    BY <1>1, <1>2, <1>4
<1> QED
    BY <1>2, <1>5, <1>6, <1>7, JobStep

\* What was fetched is all of it and lies in the directory, which holds
\* nothing else.
LEMMA ValidateStep ==
    ASSUME DownloadInv, NEW j \in DOMAIN download, Validate(j)
    PROVE  DownloadInv'
<1>1. PartOf(download[j], part[j]) => part[j] = FilesOf[download[j].repo]
    BY DEF Validate, Remaining, PartOf
<1>2. CASE download' = [download EXCEPT ![j].pc = "rename"]
  <2>1. download[j] \in Jobs /\ download \in Seq(Jobs)
      BY DEF DownloadInv, DownloadTypes
  <2>2. download' = Row(j, download[j].status, "rename")
      BY <1>2, <2>1 DEF Row, Jobs
  <2>3. download[j].status \in Active \cup Over /\ UNCHANGED <<part, model>>
      BY <2>1 DEF Jobs, Validate, diskVars
  <2> QED
      BY <1>1, <2>2, <2>3, RowStep DEF Steps
<1>3. CASE download' = Row(j, "failed", "rest")
    BY <1>3, RowStep DEF Validate, diskVars, Over, Steps
<1> QED
    BY <1>2, <1>3 DEF Validate

LEMMA RenameStep ==
    ASSUME DownloadInv, NEW j \in DOMAIN download, Rename(j)
    PROVE  DownloadInv'
<1> DEFINE n == download[j].name
<1>0. download[j].pc = "rename"
    BY DEF Rename
<1>0a. /\ download[j] \in Jobs /\ download \in Seq(Jobs) /\ part \in Seq(Files) /\ part[j] \in Files
       /\ j \in DOMAIN part /\ Len(part) = Len(download) /\ DOMAIN model = ModelNames
    BY DEF DownloadInv, DownloadTypes
<1>1. /\ download[j] \in Jobs /\ n \in ModelNames /\ download \in Seq(Jobs)
      /\ part \in Seq(Files) /\ part[j] \in Files /\ download[j].pc = "rename" /\ j \in DOMAIN part
      /\ Len(part) = Len(download) /\ DOMAIN model = ModelNames
    BY <1>0, <1>0a DEF Jobs
<1>2. CASE ~(Present(part[j]) /\ ~Present(model[n]))
    BY <1>2, EndStep DEF Rename, Temp, PartKey, Over
<1>3. CASE Present(part[j]) /\ ~Present(model[n])
  <2> DEFINE job == [download[j] EXCEPT !.pc = "register"]
  <2>1. /\ model' = [model EXCEPT ![n] = part[j]] /\ part' = [part EXCEPT ![j] = NoFile]
        /\ download' = [download EXCEPT ![j] = job]
      BY <1>3 DEF Rename, Temp, PartKey
  <2>2. /\ job \in Jobs /\ job.repo = download[j].repo /\ job.name = n
        /\ job.cleaned = download[j].cleaned /\ job.pc = "register"
      BY <1>1 DEF Jobs, Steps
  <2> HIDE DEF job, n
  <2>3. NoFile \in Files /\ ~Present(NoFile)
      BY DEF Files, Present
  <2>4. /\ download' \in Seq(Jobs) /\ part' \in Seq(Files) /\ Len(part') = Len(download')
        /\ DOMAIN download' = DOMAIN download /\ DOMAIN model' = ModelNames
      BY <1>1, <2>1, <2>2, <2>3
  <2>5. \A k \in DOMAIN download : /\ download'[k] = IF k = j THEN job ELSE download[k]
                                   /\ part'[k] = IF k = j THEN NoFile ELSE part[k]
      BY <1>1, <2>1
  <2>6. \A m \in ModelNames : model'[m] = IF m = n THEN part[j] ELSE model[m]
      BY <1>1, <2>1
  <2>7. DownloadTypes'
      BY <2>4 DEF DownloadTypes
  <2>8. Cleaned => Cleaned'
      BY <2>2, <2>4, <2>5 DEF Cleaned
  <2>9. ASSUME PartsKept, InstalledKept PROVE PartsKept' /\ InstalledKept'
    <3>1. part[j] = FilesOf[job.repo]
        BY <1>1, <2>2, <2>9 DEF PartsKept, PartOf
    <3>2. PartOf(job, NoFile)
        BY <2>2, <2>3 DEF PartOf
    <3>3. PartsKept'
        BY <2>4, <2>5, <2>9, <3>2 DEF PartsKept
    <3>4. ASSUME NEW m \in ModelNames, Present(model'[m])
          PROVE  \E k \in DOMAIN download' :
                   download'[k].name = m /\ model'[m] = FilesOf[download'[k].repo]
      <4>1. CASE m = n
          BY <4>1, <2>2, <2>4, <2>5, <2>6, <3>1
      <4>2. CASE m # n
        <5>1. PICK k \in DOMAIN download : download[k].name = m /\ model[m] = FilesOf[download[k].repo]
            BY <4>2, <3>4, <2>6, <2>9 DEF InstalledKept, Installed
        <5>2. /\ download'[k].name = download[k].name /\ download'[k].repo = download[k].repo
            BY <2>2, <2>5, <5>1 DEF n
        <5> QED
            BY <4>2, <5>1, <5>2, <2>4, <2>6
      <4> QED
          BY <4>1, <4>2
    <3>5. InstalledKept'
        BY <3>4 DEF InstalledKept, Installed
    <3> QED
        BY <3>3, <3>5
  <2> QED
      BY <2>7, <2>8, <2>9 DEF DownloadInv
<1> QED
    BY <1>2, <1>3

\* A cleanup that takes the directory of a job at work says so in cleaned.
LEMMA CleanupStep ==
    ASSUME DownloadInv, NEW j \in DOMAIN download, RemovePicked(j)
    PROVE  DownloadInv'
<1> DEFINE job == [download[j] EXCEPT !.cleaned = download[j].cleaned \/ download[j].pc # "rest"]
<1>1. /\ download[j] \in Jobs /\ part \in Seq(Files) /\ j \in DOMAIN part
    BY DEF DownloadInv, DownloadTypes
<1>2. /\ download' = [download EXCEPT ![j] = job] /\ UNCHANGED model /\ part' = [part EXCEPT ![j] = NoFile]
    BY DEF RemovePicked
<1>3. /\ job \in Jobs /\ job.repo = download[j].repo /\ job.name = download[j].name
      /\ job.pc = download[j].pc /\ job.cleaned = (download[j].cleaned \/ download[j].pc # "rest")
    BY <1>1 DEF Jobs
<1>4. NoFile \in Files /\ ~Present(NoFile)
    BY DEF Files, Present
<1>5. job.cleaned \/ PartOf(job, NoFile)
    BY <1>3, <1>4 DEF PartOf
<1> HIDE DEF job
<1>6. /\ part' \in Seq(Files) /\ Len(part') = Len(part) /\ part'[j] = NoFile
      /\ \A k \in DOMAIN part : k # j => part'[k] = part[k]
    BY <1>1, <1>2, <1>4
<1>7. download[j].cleaned => job.cleaned
    BY <1>3
<1> QED
    BY <1>2, <1>3, <1>5, <1>6, <1>7, JobStep

LEMMA TrashStep ==
    ASSUME DownloadInv, NEW n \in ModelNames, MoveToTrash(n)
    PROVE  DownloadInv'
<1>1. model' = [model EXCEPT ![n] = NoFile] /\ UNCHANGED <<download, part>>
    BY DEF MoveToTrash
<1>2. DownloadTypes'
    BY <1>1 DEF DownloadInv, DownloadTypes
<1>3. InstalledKept => InstalledKept'
    BY <1>1 DEF DownloadInv, DownloadTypes, InstalledKept, Installed, Present
<1> QED
    BY <1>1, <1>2, <1>3 DEF DownloadInv, PartsKept, Cleaned

\* After a restart no job is anywhere in its work.
LEMMA RestartStep == ASSUME DownloadInv, Restarts PROVE DownloadInv'
<1> DEFINE job(j) == [download[j] EXCEPT !.pc = "rest", !.cancel = FALSE,
                        !.status = IF @ \in {"running", "cancelling"} THEN "interrupted" ELSE @]
<1>1. /\ download \in Seq(Jobs) /\ part \in Seq(Files) /\ Len(part) = Len(download)
      /\ DOMAIN download = 1..Len(download) /\ Len(download) \in Nat
    BY DEF DownloadInv, DownloadTypes
<1>2. download' = [j \in DOMAIN download |-> job(j)] /\ UNCHANGED <<part, model>>
    BY DEF Restarts
<1>3. ASSUME NEW j \in DOMAIN download
      PROVE  /\ job(j) \in Jobs /\ job(j).repo = download[j].repo /\ job(j).name = download[j].name
             /\ job(j).cleaned = download[j].cleaned /\ job(j).pc = "rest"
  <2>1. download[j] \in Jobs
      BY <1>1, <1>3
  <2> QED
      BY <2>1 DEF Jobs, Steps, Active, Over
<1> HIDE DEF job
<1>4. /\ download' \in Seq(Jobs) /\ Len(download') = Len(download) /\ DOMAIN download' = DOMAIN download
    BY <1>1, <1>2, <1>3
<1>5. DownloadTypes'
    BY <1>2, <1>4 DEF DownloadInv, DownloadTypes
<1>6. \A j \in DOMAIN download : download'[j] = job(j)
    BY <1>2
<1>7. Cleaned => Cleaned'
    BY <1>3, <1>4, <1>6 DEF Cleaned
<1>8. PartsKept => PartsKept'
    BY <1>2, <1>3, <1>4, <1>6 DEF PartsKept, PartOf
<1>9. InstalledKept => InstalledKept'
    BY <1>2, <1>3, <1>4, <1>6 DEF InstalledKept, Installed
<1> QED
    BY <1>5, <1>7, <1>8, <1>9 DEF DownloadInv

-----------------------------------------------------------------------------

LEMMA DownloadInitInv == DownloadInit => DownloadInv
    BY DEF DownloadInit, DownloadInv, DownloadTypes, PartsKept, InstalledKept, Installed, Present

LEMMA MergeInitTyped == DownloadInit => MergeTyped
    BY DEF DownloadInit, MergeTyped, NoMerge

LEMMA MergeStepTyped ==
    DownloadInv /\ MergeTyped /\ [DownloadCalls \/ DownloadSteps]_downloadVars => MergeTyped'
<1> SUFFICES ASSUME DownloadInv, MergeTyped, [DownloadCalls \/ DownloadSteps]_downloadVars PROVE MergeTyped'
    OBVIOUS
<1>1. ASSUME UNCHANGED merge PROVE MergeTyped'
    BY <1>1 DEF MergeTyped
<1>2. ASSUME NEW j \in DOMAIN download, MergeRead(j) PROVE MergeTyped'
  <2>0. download[j] \in Jobs
      BY DEF DownloadInv, DownloadTypes
  <2>1. download[j].status \in Active \cup Over
      BY <2>0 DEF Jobs
  <2>2. merge'.seen \in {merge.seen, download[j].status}
      BY <1>2 DEF MergeRead
  <2> QED
      BY <2>1, <2>2 DEF MergeTyped
<1>3. ASSUME NEW j \in DOMAIN download, CancelDownload(j) \/ MergeSave(j) PROVE MergeTyped'
    BY <1>3 DEF CancelDownload, MergeSave, NoMerge, MergeTyped
<1>4. CASE Restarts
    BY <1>4 DEF Restarts, NoMerge, MergeTyped
<1>5. CASE DownloadCalls /\ ~Restarts /\ ~\E j \in DOMAIN download : CancelDownload(j)
    BY <1>1, <1>5 DEF DownloadCalls, CreateDownload, RetryInterrupted, MoveToTrash, RegisterExternal, ScanJob,
                      PreviewCleanup
<1>6. CASE DownloadSteps /\ ~\E j \in DOMAIN download : MergeRead(j) \/ MergeSave(j)
    BY <1>1, <1>6 DEF DownloadSteps, BeginDownload, RefuseExisting, OpenTemp, Validate, Rename, RemovePicked,
                      FetchFile, Stops, ReadDirectories, WriteTemporary, ReplaceIndex
<1> QED
    BY <1>1, <1>2, <1>3, <1>4, <1>5, <1>6 DEF downloadVars

LEMMA DownloadStepInv ==
    DownloadInv /\ MergeTyped /\ [DownloadCalls \/ DownloadSteps]_downloadVars => DownloadInv'
<1> SUFFICES ASSUME DownloadInv, MergeTyped, [DownloadCalls \/ DownloadSteps]_downloadVars PROVE DownloadInv'
    OBVIOUS
<1>1. ASSUME UNCHANGED <<download, part, model>> PROVE DownloadInv'
    BY <1>1 DEF DownloadInv, DownloadTypes, Cleaned, PartsKept, InstalledKept, Installed
<1>2. ASSUME NEW j \in DOMAIN download, BeginDownload(j) PROVE DownloadInv'
    BY <1>2, RowStep DEF BeginDownload, diskVars, Active, Steps
<1>3. ASSUME NEW j \in DOMAIN download, RefuseExisting(j) PROVE DownloadInv'
    BY <1>3, EndStep DEF RefuseExisting, diskVars, Over
<1>4. ASSUME NEW j \in DOMAIN download, NEW status \in {"failed", "cancelled"}, Stops(j, status)
      PROVE  DownloadInv'
    BY <1>4, EndStep DEF Stops, diskVars, Over
<1>5. ASSUME NEW s \in Scanners, ReplaceIndex(s) PROVE DownloadInv'
  <2>1. UNCHANGED <<part, model>>
      BY <1>5 DEF ReplaceIndex
  <2>2. CASE s \notin DOMAIN download
    <3>1. UNCHANGED download
        BY <1>5, <2>2 DEF ReplaceIndex
    <3> QED
        BY <1>1, <2>1, <3>1
  <2>3. CASE s \in DOMAIN download
    <3>1. \E status \in Over : EndsAs(s, status)
        BY <1>5, <2>3 DEF ReplaceIndex, Over
    <3> QED
        BY <2>1, <2>3, <3>1, EndStep
  <2> QED
      BY <2>2, <2>3
<1>6. CASE DownloadCalls
  <2>1. \/ UNCHANGED <<download, part, model>>
        \/ \E repo \in Repos, name \in ModelNames : CreateDownload(repo, name)
        \/ \E j \in DOMAIN download : CancelDownload(j) \/ RetryInterrupted(j)
        \/ \E n \in ModelNames : MoveToTrash(n)
        \/ Restarts
      BY <1>6 DEF DownloadCalls, RegisterExternal, ScanJob, PreviewCleanup
  <2> QED
      BY <2>1, <1>1, CreateStep, CancelStep, RetryStep, TrashStep, RestartStep
<1>7. CASE DownloadSteps
  <2>1. \/ UNCHANGED <<download, part, model>>
        \/ \E s \in Scanners : ReplaceIndex(s)
        \/ \E j \in DOMAIN download : MergeSave(j)
        \/ \E j \in DOMAIN download :
             \/ BeginDownload(j) \/ RefuseExisting(j) \/ OpenTemp(j) \/ Validate(j) \/ Rename(j) \/ RemovePicked(j)
             \/ \E f \in FilesOf[download[j].repo] : FetchFile(j, f)
             \/ \E status \in {"failed", "cancelled"} : Stops(j, status)
      BY <1>7 DEF DownloadSteps, ReadDirectories, WriteTemporary, MergeRead, diskVars
  <2> QED
      BY <2>1, <1>1, <1>2, <1>3, <1>4, <1>5, MergeStep, OpenStep, FetchStep, ValidateStep, RenameStep, CleanupStep
<1>8. CASE UNCHANGED downloadVars
    BY <1>1, <1>8 DEF downloadVars
<1> QED
    BY <1>6, <1>7, <1>8

\* What is installed is the whole of one repository, whatever other jobs,
\* retries and ends of the process left under temp_dir, unless a cleanup took
\* a directory from under a job.
THEOREM InstalledModelsWhole == DownloadSpec => []ModelsAreWhole
<1>1. DownloadInv => ModelsAreWhole
    BY DEF DownloadInv, Cleaned, PartsKept, PartOf, InstalledKept, Installed, ModelsAreWhole
<1> QED
    BY <1>1, DownloadInitInv, DownloadStepInv, MergeInitTyped, MergeStepTyped, PTL DEF DownloadSpec

-----------------------------------------------------------------------------
(* A model directory is written by a rename, which finds none in its       *)
(* place, and emptied by the trash; no other step touches it.              *)

LEMMA StepKeepsModels ==
    ASSUME DownloadInv, DownloadCalls \/ DownloadSteps
    PROVE  \A n \in ModelNames : Present(model[n]) => model'[n] \in {model[n], NoFile}
<1> SUFFICES ASSUME NEW n \in ModelNames, Present(model[n])
             PROVE  model'[n] \in {model[n], NoFile}
    OBVIOUS
<1>1. DOMAIN model = ModelNames
    BY DEF DownloadInv, DownloadTypes
<1>2. ASSUME NEW m \in ModelNames, MoveToTrash(m) PROVE model'[n] \in {model[n], NoFile}
  <2>1. model' = [model EXCEPT ![m] = NoFile]
      BY <1>2 DEF MoveToTrash
  <2> QED
      BY <1>1, <2>1
<1>3. ASSUME NEW j \in DOMAIN download, Rename(j) PROVE model'[n] \in {model[n], NoFile}
  <2> DEFINE m == download[j].name
  <2>1. UNCHANGED model \/ (~Present(model[m]) /\ model' = [model EXCEPT ![m] = Temp(j)])
      BY <1>3 DEF Rename
  <2> HIDE DEF m
  <2> QED
      BY <1>1, <2>1
<1>4. DownloadCalls => UNCHANGED model \/ \E m \in ModelNames : MoveToTrash(m)
    BY DEF DownloadCalls, CreateDownload, CancelDownload, RetryInterrupted, RegisterExternal, ScanJob,
           PreviewCleanup, Restarts, diskVars
<1>5. DownloadSteps => UNCHANGED model \/ \E j \in DOMAIN download : Rename(j)
    BY DEF DownloadSteps, MergeRead, MergeSave, BeginDownload, RefuseExisting, OpenTemp, Validate, RemovePicked, FetchFile,
           Stops, ReadDirectories, WriteTemporary, ReplaceIndex, diskVars
<1> QED
    BY <1>2, <1>3, <1>4, <1>5

\* Whatever downloads ask for the same name, a model stays as it was
\* installed until it is moved to the trash.
THEOREM InstalledModelsKept == DownloadSpec => ModelsAreKept
<1>1. DownloadInv /\ [DownloadCalls \/ DownloadSteps]_downloadVars =>
        [\A n \in ModelNames : Present(model[n]) => model'[n] \in {model[n], NoFile}]_downloadVars
    BY StepKeepsModels
<1> QED
    BY <1>1, DownloadInitInv, DownloadStepInv, MergeInitTyped, MergeStepTyped, PTL DEF DownloadSpec, ModelsAreKept

-----------------------------------------------------------------------------
(* Accounts.  What a call answered is what the memory holds while the      *)
(* process is up and what the file gives back, but for the users whose     *)
(* call the process ended in; a file torn by such an end is never loaded.  *)

User == [key : Nat, role : Roles, enabled : BOOLEAN]
AccountSet == [users : [UserIds -> User], password : Nat]

\* What a says of every user (and of the password) whose calls all were answered.
Agrees(a) ==
    /\ \A i \in UserIds \ cut : a.users[i] = answered.users[i]
    /\ Admin \notin cut => a.password = answered.password

AccountInv ==
    /\ accounts \in AccountSet /\ answered \in AccountSet
    /\ file \in AccountSet \cup {NoAccounts, Torn}
    /\ keys \in Nat /\ up \in BOOLEAN
    /\ up => Agrees(accounts)
    /\ file \in AccountSet => Agrees(file)
    /\ file = NoAccounts => Agrees(Empty)

LEMMA EmptyType == Empty \in AccountSet
BY DEF Empty, NoUser, AccountSet, User, Roles

LEMMA NotAFile == NoAccounts \notin AccountSet /\ Torn \notin AccountSet /\ NoAccounts # Torn
<1>1. \A a \in AccountSet : "password" \in DOMAIN a
    BY DEF AccountSet
<1>2. "password" \notin DOMAIN NoAccounts /\ "password" \notin DOMAIN Torn
    BY DEF NoAccounts, Torn
<1>3. NoAccounts.users # Torn.users
    BY DEF NoAccounts, Torn
<1> QED
    BY <1>1, <1>2, <1>3

\* A call changes one user, and the password only with the admin.
Changes(i, changed) ==
    /\ changed \in AccountSet
    /\ \A j \in UserIds \ {i} : changed.users[j] = accounts.users[j]
    /\ i # Admin => changed.password = accounts.password

LEMMA UserChanges ==
    ASSUME accounts \in AccountSet, NEW i \in UserIds, NEW user \in User
    PROVE  Changes(i, WithUser(i, user))
BY DEF Changes, WithUser, AccountSet

LEMMA CallKeeps ==
    ASSUME AccountInv, up, keys' \in Nat, NEW i \in UserIds, NEW changed,
           Changes(i, changed), Call(i, changed)
    PROVE  AccountInv'
<1>1. CASE /\ accounts' = changed /\ answered' = changed /\ Save(changed)
           /\ UNCHANGED <<adminSession, up, cut>>
    <2>1. file' = changed /\ changed \in AccountSet
        BY <1>1 DEF Save, Changes
    <2> QED
        BY <1>1, <2>1, NotAFile DEF AccountInv, Agrees
<1>2. CASE /\ file' \in {file, Torn, changed}
           /\ up' = FALSE /\ cut' = cut \union {i} /\ UNCHANGED <<accounts, answered>>
    <2>1. /\ \A j \in UserIds \ cut' : changed.users[j] = answered.users[j]
          /\ Admin \notin cut' => changed.password = answered.password
        BY <1>2 DEF AccountInv, Agrees, Changes
    <2>2. changed \in AccountSet
        BY DEF Changes
    <2>3. CASE file' = changed
        BY <1>2, <2>1, <2>2, <2>3, NotAFile DEF AccountInv, Agrees
    <2>4. CASE file' = Torn
        BY <1>2, <2>4, NotAFile DEF AccountInv, Agrees
    <2>5. CASE file' = file
        BY <1>2, <2>5 DEF AccountInv, Agrees
    <2> QED
        BY <1>2, <2>3, <2>4, <2>5
<1> QED
    BY <1>1, <1>2 DEF Call

LEMMA StartKeeps == ASSUME AccountInv, Start PROVE AccountInv'
<1>1. CASE file = NoAccounts
    <2>1. accounts' = Empty /\ up' = TRUE /\ UNCHANGED <<file, keys, answered, cut>>
        BY <1>1 DEF Start
    <2> QED
        BY <1>1, <2>1, EmptyType, NotAFile DEF AccountInv, Agrees
<1>2. CASE file # NoAccounts /\ UNCHANGED file
    <2>1. file \in AccountSet
        BY <1>2 DEF Start, AccountInv
    <2>2. file # Torn
        BY DEF Start
    <2>3. accounts' = file /\ up' = TRUE /\ UNCHANGED <<file, keys, answered, cut>>
        BY <1>2, <2>2 DEF Start
    <2> QED
        BY <1>2, <2>1, <2>3, NotAFile DEF AccountInv, Agrees
<1>3. CASE file' = Torn /\ UNCHANGED <<accounts, up>>
    <2>1. ~up /\ UNCHANGED <<keys, answered, cut>>
        BY DEF Start
    <2> QED
        BY <1>3, <2>1, NotAFile DEF AccountInv, Agrees
<1> QED
    BY <1>1, <1>2, <1>3 DEF Start

LEMMA AccountStepInv == AccountInv /\ [AccountNext]_accountVars => AccountInv'
<1> SUFFICES ASSUME AccountInv, [AccountNext]_accountVars PROVE AccountInv'
    OBVIOUS
<1>0. accounts \in AccountSet /\ keys \in Nat /\ Admin \in UserIds
    BY AccountAssumption DEF AccountInv, Admin
<1>1. NewKey => keys' \in Nat /\ keys + 1 \in Nat
    BY <1>0 DEF NewKey
<1>2. CASE Login \/ Logout \/ Stop \/ UNCHANGED accountVars
    <2>1. UNCHANGED <<accounts, file, keys, answered, cut>> /\ up' \in {up, FALSE}
        BY <1>2 DEF Login, Logout, Stop, accountVars
    <2>2. CASE up' = up
        BY <2>1, <2>2 DEF AccountInv, Agrees
    <2>3. CASE up' = FALSE
        BY <2>1, <2>3 DEF AccountInv, Agrees
    <2> QED
        BY <2>1, <2>2, <2>3
<1>3. CASE Start
    BY <1>3, StartKeeps
<1>4. ASSUME NEW p \in Passwords, Initialize(p) PROVE AccountInv'
    <2>0. p \in Nat
        BY AccountAssumption
    <2> DEFINE admin == [key |-> keys + 1, role |-> "admin", enabled |-> TRUE]
    <2> DEFINE changed == [WithUser(Admin, admin) EXCEPT !.password = p]
    <2>1. admin \in User
        BY <1>1, <1>4 DEF Initialize, User, Roles
    <2>2. Changes(Admin, changed)
        BY <1>0, <2>0, <2>1, UserChanges DEF Changes, AccountSet
    <2>3. up /\ NewKey /\ Call(Admin, changed)
        BY <1>4 DEF Initialize
    <2> QED
        BY <1>0, <1>1, <2>2, <2>3, CallKeeps
<1>5. ASSUME NEW p \in Passwords, ChangeAdminPassword(p) PROVE AccountInv'
    <2>0. p \in Nat
        BY AccountAssumption
    <2> DEFINE changed == [accounts EXCEPT !.password = p]
    <2>1. Changes(Admin, changed)
        BY <1>0, <2>0 DEF Changes, AccountSet
    <2> QED
        BY <1>0, <1>5, <2>1, CallKeeps DEF ChangeAdminPassword, AdminCall
<1>6. ASSUME NEW i \in UserIds, DeleteUser(i) PROVE AccountInv'
    <2>1. NoUser \in User
        BY DEF NoUser, User, Roles
    <2> QED
        BY <1>0, <1>6, <2>1, UserChanges, CallKeeps DEF DeleteUser, AdminCall
<1>7. ASSUME NEW i \in UserIds, ToggleUser(i) PROVE AccountInv'
    <2> DEFINE changed == [accounts EXCEPT !.users[i].enabled = ~@]
    <2>1. accounts.users[i] \in User
        BY <1>0 DEF AccountSet
    <2>2. [accounts.users[i] EXCEPT !.enabled = ~@] \in User
        BY <2>1 DEF User
    <2>3. changed = WithUser(i, [accounts.users[i] EXCEPT !.enabled = ~@])
        BY <1>0 DEF WithUser, AccountSet
    <2>4. Changes(i, changed)
        BY <1>0, <2>2, <2>3, UserChanges
    <2> QED
        BY <1>0, <1>7, <2>4, CallKeeps DEF ToggleUser, AdminCall
<1>8. ASSUME NEW i \in UserIds, RegenerateKey(i) PROVE AccountInv'
    <2> DEFINE changed == [accounts EXCEPT !.users[i].key = keys + 1]
    <2>1. accounts.users[i] \in User
        BY <1>0 DEF AccountSet
    <2>2. [accounts.users[i] EXCEPT !.key = keys + 1] \in User
        BY <1>1, <1>8, <2>1 DEF User, RegenerateKey
    <2>3. changed = WithUser(i, [accounts.users[i] EXCEPT !.key = keys + 1])
        BY <1>0 DEF WithUser, AccountSet
    <2>4. Changes(i, changed)
        BY <1>0, <2>2, <2>3, UserChanges
    <2> QED
        BY <1>1, <1>8, <2>4, CallKeeps DEF RegenerateKey
<1>9. ASSUME NEW i \in UserIds, NEW role, CreateUser(i, role) PROVE AccountInv'
    <2>1. NormalRole(role) \in Roles
        BY DEF NormalRole, Roles
    <2>2. [key |-> keys + 1, role |-> NormalRole(role), enabled |-> TRUE] \in User
        BY <1>1, <1>9, <2>1 DEF User, CreateUser
    <2> QED
        BY <1>0, <1>1, <1>9, <2>2, UserChanges, CallKeeps DEF CreateUser, AdminCall
<1>10. ASSUME NEW i \in UserIds, NEW role, UpdateUser(i, role) PROVE AccountInv'
    <2> DEFINE changed == [accounts EXCEPT !.users[i].role = NormalRole(role)]
    <2>0. NormalRole(role) \in Roles
        BY DEF NormalRole, Roles
    <2>1. accounts.users[i] \in User
        BY <1>0 DEF AccountSet
    <2>2. [accounts.users[i] EXCEPT !.role = NormalRole(role)] \in User
        BY <2>0, <2>1 DEF User
    <2>3. changed = WithUser(i, [accounts.users[i] EXCEPT !.role = NormalRole(role)])
        BY <1>0 DEF WithUser, AccountSet
    <2>4. Changes(i, changed)
        BY <1>0, <2>2, <2>3, UserChanges
    <2> QED
        BY <1>0, <1>10, <2>4, CallKeeps DEF UpdateUser, AdminCall
<1> QED
    BY <1>2, <1>3, <1>4, <1>5, <1>6, <1>7, <1>8, <1>9, <1>10 DEF AccountNext

\* Every request asks for a permission that exists: the admin role has them all.
LEMMA RequiredIsKnown ==
    ASSUME NEW method, NEW area, NEW tail
    PROVE  Required(method, area, tail) \in AllPermissions \union {"none"}
<1>1. \A x \in DOMAIN Studio : Studio[x][1] \in AllPermissions /\ Studio[x][2] \in AllPermissions
    BY DEF Studio, AllPermissions, OperatorPermissions, ViewPermissions
<1>2. {"view_runtime", "view_models", "chat", "load_model", "unload_model", "manage_rag", "manage_models",
       "manage_downloads", "manage_adapters", "run_benchmark", "manage_storage", "export_diagnostics",
       "delete_novels", "delete_prompts", "manage_users"} \subseteq AllPermissions
    BY DEF AllPermissions, OperatorPermissions, ViewPermissions
<1> HIDE DEF Studio
<1> QED
    BY <1>1, <1>2 DEF Required

LEMMA AdminPasses ==
    ASSUME NEW i \in UserIds, accounts \in AccountSet, NEW request,
           accounts.users[i].enabled, accounts.users[i].role = "admin"
    PROVE  Dispatch(accounts.users[i].key, request) = "passes"
<1> DEFINE key == accounts.users[i].key
<1>1. Has(accounts, i)
    BY DEF Has, NoUser
<1>2. i \in Holders(key)
    BY <1>1 DEF Holders
<1>3. Required(request[1], request[2], request[3]) \in PermissionsOf(accounts.users[i].role) \union {"none"}
    BY RequiredIsKnown DEF PermissionsOf
<1> QED
    BY <1>2, <1>3 DEF Dispatch

LEMMA NobodysKey ==
    ASSUME NEW key, NEW request, \A i \in UserIds : accounts.users[i].key = key => ~accounts.users[i].enabled
    PROVE  Dispatch(key, request) # "passes"
<1>1. {i \in Holders(key) : accounts.users[i].enabled} = {}
    BY DEF Holders
<1> QED
    BY <1>1 DEF Dispatch

\* A key opens what the last answered call on its user lets it open, after any
\* number of ends and starts of the process (admin.py, auth/permissions.py and
\* the middleware of api_server.py).
THEOREM KeysAsAnswered == AccountSpec => []KeysOpenWhatWasAnswered
<1>1. AccountInit => AccountInv
    BY EmptyType, NotAFile DEF AccountInit, AccountInv, Agrees
<1>2. AccountInv => KeysOpenWhatWasAnswered
    <2> SUFFICES ASSUME AccountInv, up PROVE KeysOpenWhatWasAnswered
        BY DEF KeysOpenWhatWasAnswered
    <2>1. /\ \A i \in UserIds \ cut : accounts.users[i] = answered.users[i]
          /\ Admin \notin cut => accounts.password = answered.password
        BY DEF AccountInv, Agrees
    <2>2. ASSUME NEW key \in 1..keys, cut = {},
                 ~ \E j \in UserIds : answered.users[j].key = key /\ answered.users[j].enabled
          PROVE  Dispatch(key, <<"GET", "auth", "">>) # "passes"
        BY <2>1, <2>2, NobodysKey
    <2>3. \A i \in UserIds : accounts.users[i].enabled /\ accounts.users[i].role = "admin" =>
            \A request \in Requests : Dispatch(accounts.users[i].key, request) = "passes"
        BY AdminPasses DEF AccountInv
    <2> QED
        BY <2>1, <2>2, <2>3 DEF KeysOpenWhatWasAnswered
<1> QED
    BY <1>1, <1>2, AccountStepInv, PTL DEF AccountSpec

-----------------------------------------------------------------------------
(* AdapterEvaluation.  A call keeps the prompt and the number of its run,  *)
(* and the first of its two answers is already of them when it makes the   *)
(* second; nothing else writes a pair but the end of the process between   *)
(* the two writes, and that is marked until the case is closed again.      *)

CaseFields == {"session", "status", "prompt", "torn"}
CallFields == {"pc", "case", "prompt", "turn", "variant", "base", "seen", "whole", "rest"}

SameRun(one, other) == one.turn = other.turn /\ (one # NoResult => one.prompt = other.prompt)

\* A call of a process with the cases numbers.
CallKept(call, numbers) ==
    /\ DOMAIN call = CallFields
    /\ call.rest \subseteq numbers
    /\ call.pc \in {"rest", "switch", "wait", "generate"}
    /\ call.pc # "rest" => call.case \in numbers
    /\ call.variant = Adapter => call.base.turn = call.turn /\ call.base.prompt = call.prompt

CasesKept == IsTable(case) /\ \A k \in DOMAIN case : DOMAIN case[k] = CaseFields

ResultsKept ==
    /\ IsTable(result) /\ DOMAIN result = DOMAIN case
    /\ \A k \in DOMAIN case :
         /\ DOMAIN result[k] = {"base", "adapter"}
         /\ case[k].torn \/ SameRun(result[k].base, result[k].adapter)

CallsKept == DOMAIN compare = Comparers /\ \A c \in Comparers : CallKept(compare[c], DOMAIN case)

RevisedKept ==
    IsTable(revised) /\ \A n \in DOMAIN revised : revised[n].torn \/ SameRun(revised[n].original, revised[n].edited)

PairInv == CasesKept /\ ResultsKept /\ CallsKept /\ RevisedKept

\* Advance only marks cases as running, and goes on with one of those it was given.
LEMMA AdvanceKeeps ==
    ASSUME NEW cases, IsTable(cases), \A k \in DOMAIN cases : DOMAIN cases[k] = CaseFields,
           NEW sessions, NEW todo \in SUBSET DOMAIN cases
    PROVE  LET at == Advance(cases, sessions, todo)
           IN  /\ IsTable(at.cases) /\ DOMAIN at.cases = DOMAIN cases
               /\ \A k \in DOMAIN cases : DOMAIN at.cases[k] = CaseFields /\ at.cases[k].torn = cases[k].torn
               /\ at.next # 0 => at.next \in DOMAIN cases
               /\ at.rest \subseteq DOMAIN cases
<1> DEFINE at == Advance(cases, sessions, todo)
           may == {k \in todo : Runnable(cases, k, sessions)}
           prompted == {k \in may : cases[k].prompt # 0}
           next == IF prompted = {} THEN 0 ELSE Min(prompted)
           tried == {k \in may : next = 0 \/ k =< next}
           marked == [k \in DOMAIN cases |-> IF k \in tried THEN [cases[k] EXCEPT !.status = "running"]
                                             ELSE cases[k]]
<1>1. at = [cases |-> marked, next |-> next, rest |-> {k \in todo : next # 0 /\ k > next}]
    BY DEF Advance
<1> HIDE DEF at
<1>2. IsTable(marked)
    BY TableMap
<1>3. DOMAIN marked = DOMAIN cases
    OBVIOUS
<1>4. \A k \in DOMAIN cases : DOMAIN marked[k] = CaseFields /\ marked[k].torn = cases[k].torn
    <2>1. ASSUME NEW k \in DOMAIN cases
          PROVE  DOMAIN [cases[k] EXCEPT !.status = "running"] = CaseFields
                 /\ [cases[k] EXCEPT !.status = "running"].torn = cases[k].torn
        BY DEF CaseFields
    <2> QED
        BY <2>1
<1>5. next # 0 => next \in DOMAIN cases
    <2>1. DOMAIN cases \subseteq Nat
        BY DEF IsTable
    <2>2. prompted # {} => Min(prompted) \in prompted
        BY <2>1, MinExists
    <2> QED
        BY <2>2
<1>6. at.cases = marked /\ at.next = next /\ at.rest \subseteq todo
    BY <1>1
<1> HIDE DEF marked, next
<1> QED
    BY <1>2, <1>3, <1>4, <1>5, <1>6 DEF at

LEMMA GoOnKeeps ==
    ASSUME NEW cases, IsTable(cases), \A k \in DOMAIN cases : DOMAIN cases[k] = CaseFields,
           NEW sessions, NEW todo \in SUBSET DOMAIN cases, NEW whole, NEW c \in Comparers,
           CallsKept, DOMAIN cases = DOMAIN case, GoOn(c, cases, sessions, todo, whole)
    PROVE  /\ CasesKept' /\ CallsKept'
           /\ DOMAIN case' = DOMAIN cases
           /\ \A k \in DOMAIN cases : case'[k].torn = cases[k].torn
<1> DEFINE at == Advance(cases, sessions, todo)
<1>1. case' = at.cases
    BY DEF GoOn
<1>2. /\ IsTable(at.cases) /\ DOMAIN at.cases = DOMAIN cases
      /\ \A k \in DOMAIN cases : DOMAIN at.cases[k] = CaseFields /\ at.cases[k].torn = cases[k].torn
      /\ at.next # 0 => at.next \in DOMAIN cases
      /\ at.rest \subseteq DOMAIN cases
    BY AdvanceKeeps
<1>3. \E call : compare' = [compare EXCEPT ![c] = call] /\ CallKept(call, DOMAIN cases)
    <2>1. CallKept(Resting, DOMAIN cases)
        BY DEF CallKept, Resting, CallFields, Base, Adapter
    <2> DEFINE begun == [Resting EXCEPT !.pc = "switch", !.case = at.next, !.turn = turns + 1,
                           !.prompt = at.cases[at.next].prompt, !.whole = whole, !.rest = at.rest,
                           !.seen = sessions[at.cases[at.next].session]]
    <2>2. CASE at.next # 0
        <3>1. compare' = [compare EXCEPT ![c] = begun]
            BY <2>2 DEF GoOn
        <3>2. begun.pc = "switch" /\ begun.case = at.next /\ begun.rest = at.rest /\ begun.variant = Base
              /\ DOMAIN begun = CallFields
            BY DEF Resting, CallFields
        <3>3. CallKept(begun, DOMAIN cases)
            <4> HIDE DEF begun, at
            <4> QED
                BY <1>2, <2>2, <3>2 DEF CallKept, Base, Adapter
        <3> QED
            BY <3>1, <3>3
    <2>3. CASE at.next = 0
        BY <2>1, <2>3 DEF GoOn
    <2> QED
        BY <2>2, <2>3
<1> HIDE DEF at
<1>4. CallsKept'
    BY <1>1, <1>2, <1>3 DEF CallsKept
<1> QED
    BY <1>1, <1>2, <1>4 DEF CasesKept

LEMMA ComparisonInitInv == ComparisonInit => PairInv
<1> SUFFICES ASSUME ComparisonInit PROVE PairInv
    OBVIOUS
<1>1. IsTable(<< >>)
    BY DEF IsTable
<1>2. CallsKept
    <2>1. CallKept(Resting, DOMAIN case)
        BY DEF CallKept, Resting, CallFields, Base, Adapter
    <2> QED
        BY <2>1 DEF ComparisonInit, CallsKept
<1>3. case = << >> /\ result = << >> /\ revised = << >>
    BY DEF ComparisonInit
<1>4. CasesKept /\ ResultsKept /\ RevisedKept
    BY <1>1, <1>3 DEF CasesKept, ResultsKept, RevisedKept
<1> QED
    BY <1>2, <1>4 DEF PairInv

LEMMA CreateCaseKeeps ==
    ASSUME PairInv, NEW s, NEW text, CreateCase(s, text)
    PROVE  PairInv'
<1> DEFINE n == Len(case) + 1
           row == NewCase(s, text)
           none == [base |-> NoResult, adapter |-> NoResult]
<1>1. case' = Append(case, row) /\ result' = Append(result, none) /\ UNCHANGED <<revised, compare>>
    BY DEF CreateCase
<1>2. /\ IsTable(case') /\ DOMAIN case = 1..Len(case) /\ Len(case) \in Nat /\ DOMAIN case' = 1..n
      /\ (\A k \in DOMAIN case : case'[k] = case[k]) /\ case'[n] = row
    BY <1>1, TableAppend DEF PairInv, CasesKept
<1>3. /\ IsTable(result') /\ DOMAIN result = 1..Len(result) /\ Len(result) \in Nat /\ DOMAIN result' = 1..(Len(result) + 1)
      /\ (\A k \in DOMAIN result : result'[k] = result[k]) /\ result'[Len(result) + 1] = none
    BY <1>1, TableAppend DEF PairInv, ResultsKept
<1>4. Len(result) = Len(case)
    BY <1>2, <1>3 DEF PairInv, ResultsKept
<1>5. DOMAIN row = CaseFields
    BY DEF NewCase, CaseFields
<1>6. DOMAIN none = {"base", "adapter"} /\ SameRun(none.base, none.adapter)
    BY DEF SameRun
<1> HIDE DEF row, none
<1>7. DOMAIN case' = DOMAIN case \cup {n}
    BY <1>2
<1>8. CasesKept'
    BY <1>2, <1>5, <1>7 DEF PairInv, CasesKept
<1>9. ResultsKept'
    BY <1>2, <1>3, <1>4, <1>6, <1>7 DEF PairInv, ResultsKept
<1>10. CallsKept'
    BY <1>1, <1>7 DEF PairInv, CallsKept, CallKept
<1>11. RevisedKept'
    BY <1>1 DEF PairInv, RevisedKept
<1> QED
    BY <1>8, <1>9, <1>10, <1>11 DEF PairInv

LEMMA PrepareKeeps ==
    ASSUME PairInv, NEW k \in DOMAIN case, NEW text, PrepareCase(k, text)
    PROVE  PairInv'
<1> DEFINE row == [case[k] EXCEPT !.prompt = text, !.status = "ready"]
<1>1. case' = [case EXCEPT ![k] = row] /\ UNCHANGED <<result, compare, revised>>
    BY DEF PrepareCase, recordVars
<1>2. DOMAIN row = CaseFields /\ row.torn = case[k].torn
    BY DEF PairInv, CasesKept, CaseFields
<1> HIDE DEF row
<1>3. IsTable(case') /\ DOMAIN case' = DOMAIN case
    BY <1>1, TableExcept DEF PairInv, CasesKept
<1>4. \A i \in DOMAIN case : DOMAIN case'[i] = CaseFields /\ case'[i].torn = case[i].torn
    BY <1>1, <1>2 DEF PairInv, CasesKept
<1> QED
    BY <1>1, <1>3, <1>4 DEF PairInv, CasesKept, ResultsKept, CallsKept, RevisedKept

\* The calls that begin to compare.
LEMMA RunKeeps ==
    ASSUME PairInv, NEW c \in Comparers, NEW sessions, NEW todo \in SUBSET DOMAIN case, NEW whole,
           GoOn(c, case, sessions, todo, whole), UNCHANGED <<result, revised>>
    PROVE  PairInv'
<1>1. /\ CasesKept' /\ CallsKept' /\ DOMAIN case' = DOMAIN case
      /\ \A k \in DOMAIN case : case'[k].torn = case[k].torn
    BY GoOnKeeps DEF PairInv, CasesKept
<1> QED
    BY <1>1 DEF PairInv, ResultsKept, RevisedKept

\* Steps of a call that only change where it stands.
LEMMA CallStepKeeps ==
    ASSUME PairInv, NEW c \in Comparers, NEW call, CallKept(call, DOMAIN case),
           compare' = [compare EXCEPT ![c] = call], UNCHANGED <<case, result, revised>>
    PROVE  PairInv'
<1>1. CallsKept'
    BY DEF PairInv, CallsKept
<1> QED
    BY <1>1 DEF PairInv, CasesKept, ResultsKept, RevisedKept

LEMMA BaseAnswersKeeps ==
    ASSUME PairInv, NEW c \in Comparers, NEW status, BaseAnswers(c, status)
    PROVE  PairInv'
<1> DEFINE call == [compare[c] EXCEPT !.pc = "switch", !.variant = Adapter, !.base = Answer(c, status)]
<1>1. compare' = [compare EXCEPT ![c] = call] /\ UNCHANGED <<case, result, revised>>
    BY DEF BaseAnswers, recordVars, PairInv, CallsKept
<1>2. CallKept(compare[c], DOMAIN case) /\ compare[c].pc # "rest"
    BY DEF PairInv, CallsKept, BaseAnswers, Answers
<1>3. /\ DOMAIN call = CallFields /\ call.pc = "switch" /\ call.case = compare[c].case /\ call.rest = compare[c].rest
      /\ call.base = Answer(c, status) /\ call.turn = compare[c].turn /\ call.prompt = compare[c].prompt
    BY <1>2 DEF CallKept, CallFields
<1>4. Answer(c, status).turn = compare[c].turn /\ Answer(c, status).prompt = compare[c].prompt
    BY DEF Answer
<1> HIDE DEF call
<1>5. CallKept(call, DOMAIN case)
    BY <1>2, <1>3, <1>4 DEF CallKept
<1> QED
    BY <1>1, <1>5, CallStepKeeps

LEMMA AdapterAnswersKeeps ==
    ASSUME PairInv, NEW c \in Comparers, NEW status, AdapterAnswers(c, status)
    PROVE  PairInv'
<1> DEFINE k == compare[c].case
           over == compare[c].base.status = "failed" /\ status = "failed"
           row == [case[k] EXCEPT !.status = IF over THEN "failed" ELSE "completed", !.torn = FALSE]
           cases == [case EXCEPT ![k] = row]
           pair == [base |-> compare[c].base, adapter |-> Answer(c, status)]
<1>1. CallKept(compare[c], DOMAIN case) /\ compare[c].pc # "rest" /\ compare[c].variant = Adapter
    BY DEF PairInv, CallsKept, AdapterAnswers, Answers
<1>2. k \in DOMAIN case /\ compare[c].rest \subseteq DOMAIN case
    BY <1>1 DEF CallKept
<1>3. PICK sessions : /\ result' = [result EXCEPT ![k] = pair]
                      /\ GoOn(c, cases, sessions, compare[c].rest, compare[c].whole)
                      /\ UNCHANGED revised
    BY DEF AdapterAnswers, Closed, UpsertResults, recordVars
<1>4. DOMAIN row = CaseFields /\ row.torn = FALSE
    BY <1>2 DEF PairInv, CasesKept, CaseFields
<1>5. DOMAIN pair = {"base", "adapter"} /\ SameRun(pair.base, pair.adapter)
    BY <1>1 DEF SameRun, Answer, CallKept
<1> HIDE DEF row, pair, k
<1>6. IsTable(cases) /\ DOMAIN cases = DOMAIN case
    BY <1>2, TableExcept DEF PairInv, CasesKept
<1>7. \A i \in DOMAIN cases : DOMAIN cases[i] = CaseFields /\ (i # k => cases[i].torn = case[i].torn)
    BY <1>2, <1>4, <1>6 DEF PairInv, CasesKept
<1> HIDE DEF cases
<1>8. /\ CasesKept' /\ CallsKept' /\ DOMAIN case' = DOMAIN case
      /\ \A i \in DOMAIN case : case'[i].torn = cases[i].torn
    BY <1>2, <1>3, <1>6, <1>7, GoOnKeeps DEF PairInv
<1>9. IsTable(result') /\ DOMAIN result' = DOMAIN result /\ k \in DOMAIN result
    BY <1>2, <1>3, TableExcept DEF PairInv, ResultsKept
<1>10. ResultsKept'
    BY <1>3, <1>5, <1>7, <1>8, <1>9, <1>6 DEF PairInv, ResultsKept
<1> QED
    BY <1>3, <1>8, <1>10 DEF PairInv, RevisedKept

LEMMA ProcessEndsKeeps == ASSUME PairInv, ProcessEnds PROVE PairInv'
<1>1. CallsKept' \/ DOMAIN case' # DOMAIN case
    BY DEF ProcessEnds, CallsKept, CallKept, Resting, CallFields, Base, Adapter
<1>2. UNCHANGED revised
    BY DEF ProcessEnds, recordVars
<1>3. CASE UNCHANGED <<case, result>>
    BY <1>1, <1>2, <1>3 DEF PairInv, CasesKept, ResultsKept, RevisedKept
<1>4. ASSUME NEW c \in Comparers, compare[c].pc = "generate",
             UpsertResults(compare[c].case, compare[c].base, result[compare[c].case].adapter),
             case' = [case EXCEPT ![compare[c].case].torn = TRUE]
      PROVE  PairInv'
    <2> DEFINE k == compare[c].case
               row == [case[k] EXCEPT !.torn = TRUE]
               pair == [base |-> compare[c].base, adapter |-> result[k].adapter]
    <2>1. k \in DOMAIN case /\ k \in DOMAIN result
        BY <1>4 DEF PairInv, CallsKept, CallKept, ResultsKept
    <2>2. case' = [case EXCEPT ![k] = row] /\ result' = [result EXCEPT ![k] = pair]
        BY <1>4 DEF UpsertResults
    <2>3. DOMAIN row = CaseFields /\ row.torn = TRUE /\ DOMAIN pair = {"base", "adapter"}
        BY <2>1 DEF PairInv, CasesKept, CaseFields
    <2> HIDE DEF k, row, pair
    <2>4. IsTable(case') /\ DOMAIN case' = DOMAIN case /\ IsTable(result') /\ DOMAIN result' = DOMAIN result
        BY <2>1, <2>2, TableExcept DEF PairInv, CasesKept, ResultsKept
    <2>5. CasesKept' /\ ResultsKept'
        BY <2>1, <2>2, <2>3, <2>4 DEF PairInv, CasesKept, ResultsKept
    <2> QED
        BY <1>1, <1>2, <2>4, <2>5 DEF PairInv, RevisedKept
<1> QED
    BY <1>3, <1>4 DEF ProcessEnds

LEMMA RevisionKeeps ==
    ASSUME PairInv, NEW k \in DOMAIN case, NEW variant \in {Base, Adapter}, CreateRevisionFromResult(k, variant)
    PROVE  PairInv'
<1> DEFINE row == [case |-> k, original |-> result[k].base, edited |-> result[k][variant], torn |-> case[k].torn]
<1>1. revised' = Append(revised, row) /\ UNCHANGED <<case, result, compare>>
    BY DEF CreateRevisionFromResult
<1>2. row.torn \/ SameRun(row.original, row.edited)
    BY DEF PairInv, ResultsKept, SameRun, Base, Adapter
<1> HIDE DEF row
<1>3. /\ IsTable(revised') /\ DOMAIN revised = 1..Len(revised) /\ Len(revised) \in Nat
      /\ DOMAIN revised' = 1..(Len(revised) + 1)
      /\ (\A n \in DOMAIN revised : revised'[n] = revised[n]) /\ revised'[Len(revised) + 1] = row
    BY <1>1, TableAppend DEF PairInv, RevisedKept
<1>4. RevisedKept'
    BY <1>2, <1>3 DEF PairInv, RevisedKept
<1> QED
    BY <1>1, <1>4 DEF PairInv, CasesKept, ResultsKept, CallsKept

LEMMA ComparisonStepInv == PairInv /\ [ComparisonCalls \/ ComparisonSteps]_comparisonVars => PairInv'
<1> SUFFICES ASSUME PairInv, [ComparisonCalls \/ ComparisonSteps]_comparisonVars PROVE PairInv'
    OBVIOUS
<1> USE DEF recordVars
<1>1. ASSUME UNCHANGED <<case, result, compare, revised>> PROVE PairInv'
    BY <1>1 DEF PairInv, CasesKept, ResultsKept, CallsKept, RevisedKept
<1>2. CASE UNCHANGED comparisonVars
    BY <1>1, <1>2 DEF comparisonVars
<1>3. CASE CreateSession
    BY <1>1, <1>3 DEF CreateSession
<1>4. ASSUME NEW s \in DOMAIN session, NEW status, UpdateSession(s, status) PROVE PairInv'
    BY <1>1, <1>4 DEF UpdateSession
<1>5. ASSUME NEW s \in DOMAIN session, GenerateComparison(s) PROVE PairInv'
    BY <1>1, <1>5 DEF GenerateComparison
<1>6. ASSUME NEW s \in DOMAIN session, NEW text, CreateCase(s, text) PROVE PairInv'
    BY <1>6, CreateCaseKeeps
<1>7. ASSUME NEW s \in DOMAIN session, NEW c \in Comparers, NEW chosen, NEW rerun, RunSession(c, s, chosen, rerun)
      PROVE  PairInv'
    <2>1. CasesOf(s) \subseteq DOMAIN case
        BY DEF CasesOf
    <2>2. PICK todo \in SUBSET DOMAIN case : GoOn(c, case, Marked(session, s, "running"), todo, s)
        BY <1>7, <2>1 DEF RunSession
    <2>3. UNCHANGED <<result, revised>>
        BY <1>7 DEF RunSession
    <2> QED
        BY <2>2, <2>3, RunKeeps
<1>8. ASSUME NEW k \in DOMAIN case, NEW text, PrepareCase(k, text) PROVE PairInv'
    BY <1>8, PrepareKeeps
<1>9. ASSUME NEW k \in DOMAIN case, NEW c \in Comparers, RunCase(c, k) PROVE PairInv'
    BY <1>9, RunKeeps DEF RunCase
<1>10. ASSUME NEW k \in DOMAIN case, NEW mark, ScoreCase(k, mark) PROVE PairInv'
    BY <1>1, <1>10 DEF ScoreCase
<1>11. ASSUME NEW k \in DOMAIN case, NEW variant \in {Base, Adapter}, CreateRevisionFromResult(k, variant)
       PROVE  PairInv'
    BY <1>11, RevisionKeeps
<1>12. CASE ProcessEnds
    BY <1>12, ProcessEndsKeeps
<1>13. ASSUME NEW c \in Comparers, SwitchAdapter(c) \/ EnterScope(c) PROVE PairInv'
    <2>1. PICK pc \in {"wait", "generate"} : compare' = [compare EXCEPT ![c].pc = pc]
        BY <1>13 DEF SwitchAdapter, EnterScope
    <2> DEFINE call == [compare[c] EXCEPT !.pc = pc]
    <2>2. compare' = [compare EXCEPT ![c] = call] /\ UNCHANGED <<case, result, revised>>
        BY <1>13, <2>1 DEF SwitchAdapter, EnterScope
    <2>3. CallKept(compare[c], DOMAIN case) /\ compare[c].pc # "rest"
        BY <1>13 DEF SwitchAdapter, EnterScope, PairInv, CallsKept
    <2>4. CallKept(call, DOMAIN case)
        BY <2>3 DEF CallKept, CallFields
    <2> QED
        BY <2>2, <2>4, CallStepKeeps
<1>14. ASSUME NEW c \in Comparers, NEW status, BaseAnswers(c, status) \/ AdapterAnswers(c, status) PROVE PairInv'
    BY <1>14, BaseAnswersKeeps, AdapterAnswersKeeps
<1> QED
    BY <1>2, <1>3, <1>4, <1>5, <1>6, <1>7, <1>8, <1>9, <1>10, <1>11, <1>12, <1>13, <1>14
       DEF ComparisonCalls, ComparisonSteps, ArchiveSession

\* The two results of a case, and the two texts of a revision made of them, are
\* of one run and answer one prompt, for any number of calls, cases and runs
\* (run_case of adapter_evaluation/service.py).
THEOREM PairsMatch == ComparisonSpec => []PairFromOneRun
<1>1. PairInv => PairFromOneRun
    BY DEF PairInv, ResultsKept, RevisedKept, SameRun, PairFromOneRun
<1> QED
    BY <1>1, ComparisonInitInv, ComparisonStepInv, PTL DEF ComparisonSpec

-----------------------------------------------------------------------------
(* Evaluation.  An execution owns its run from the deletion of the rows of *)
(* the earlier one to its end.  Unless someone else got in its way, it is  *)
(* the only owner, the cases behind it are completed with one output each, *)
(* and those ahead of it have none.                                        *)

EvalFields == {"status", "overall", "job", "evaluators", "cases", "crossed", "lost"}

EvalRunsKept ==
    /\ IsTable(evalRun)
    /\ \A r \in DOMAIN evalRun : 
         DOMAIN evalRun[r] = EvalFields /\ IsTable(evalRun[r].cases) /\ 1 \in DOMAIN evalRun[r].cases

RowsKept == \A o \in DOMAIN output : DOMAIN output[o] = {"run", "case", "score", "finding"}

\* Where an execution is in its run.
Places(e) ==
    LET cases == evalRun[exec[e].run].cases
    IN  /\ DOMAIN exec[e] = {"pc", "run", "case", "read"}
        /\ exec[e].pc # "idle" => exec[e].run \in DOMAIN evalRun
        /\ exec[e].pc \in {"check", "clear", "begin"} => exec[e].case = 0
        /\ exec[e].pc \in {"case", "judging", "save", "done"} => exec[e].case \in DOMAIN cases
        /\ exec[e].pc \in {"aggregate", "complete"} => exec[e].case = Len(cases) + 1

ExecsKept == DOMAIN exec = Executions /\ \A e \in Executions : Places(e)

WaitingKept == IsTable(waiting) /\ \A w \in DOMAIN waiting : waiting[w] \in DOMAIN evalRun

HandlerKept ==
    /\ DOMAIN handler = {"op", "run", "read"}
    /\ handler.op # "none" => loop = "call" /\ handler.run \in DOMAIN evalRun

EvalShape == EvalRunsKept /\ RowsKept /\ ExecsKept /\ WaitingKept /\ HandlerKept

Executes(e, r) == exec[e].run = r /\ exec[e].pc \notin {"idle", "check"}
Owns(e, r) == exec[e].run = r /\ exec[e].pc \notin {"idle", "check", "clear"}
Owned(r) == \E e \in Executions : Owns(e, r)
Undisturbed(r) == ~evalRun[r].crossed /\ ~evalRun[r].lost

OutputsOf(r, n) == {o \in DOMAIN output : output[o].run = r /\ output[o].case = n}
Once(r, n) == \E o \in DOMAIN output : OutputsOf(r, n) = {o}
Whole(r) == \A n \in DOMAIN evalRun[r].cases : evalRun[r].cases[n] = "completed" /\ Once(r, n)

\* What an undisturbed owner has done so far.
Behind(e, n) == n < exec[e].case \/ (n = exec[e].case /\ exec[e].pc = "done")
InHand(e, r) ==
    /\ \A n \in DOMAIN evalRun[r].cases :
         /\ n < exec[e].case => evalRun[r].cases[n] = "completed"
         /\ Behind(e, n) => Once(r, n)
         /\ ~Behind(e, n) => OutputsOf(r, n) = {}
    /\ exec[e].pc = "complete" => exec[e].read = Aggregate(r)

OwnerInv(r) ==
    /\ \A e, f \in Executions : Owns(e, r) /\ Owns(f, r) => e = f
    /\ \A e \in Executions : Owns(e, r) => InHand(e, r)
    /\ Scoring(r) => ~Owned(r)
    /\ ~Owned(r) /\ evalRun[r].status = "completed" =>
         Whole(r) /\ (~Scoring(r) => evalRun[r].overall = Aggregate(r))
    /\ handler.op = "overall" /\ handler.run = r => handler.read = Aggregate(r)

RunningInv(r) == evalRun[r].status = "running" /\ ~evalRun[r].lost => \E e \in Executions : Executes(e, r)

RunInv(r) == RunningInv(r) /\ (Undisturbed(r) => OwnerInv(r))

EvalInv == EvalShape /\ \A r \in DOMAIN evalRun : RunInv(r)

\* Changes to one run keep the others, and its cases.
LEMMA UpdateRunFacts ==
    ASSUME EvalRunsKept, NEW q \in DOMAIN evalRun, NEW changes,
           DOMAIN changes \subseteq EvalFields \ {"cases"}, UpdateRun(q, changes)
    PROVE  /\ EvalRunsKept' /\ DOMAIN evalRun' = DOMAIN evalRun
           /\ \A r \in DOMAIN evalRun \ {q} : evalRun'[r] = evalRun[r]
           /\ evalRun'[q].cases = evalRun[q].cases
           /\ \A f \in DOMAIN changes : evalRun'[q][f] = changes[f]
           /\ \A f \in EvalFields \ DOMAIN changes : evalRun'[q][f] = evalRun[q][f]
<1> DEFINE row == RowWith(evalRun[q], changes)
<1>1. evalRun' = [evalRun EXCEPT ![q] = row]
    BY DEF UpdateRun
<1>2. /\ DOMAIN row = EvalFields
      /\ \A f \in DOMAIN changes : row[f] = changes[f]
      /\ \A f \in EvalFields \ DOMAIN changes : row[f] = evalRun[q][f]
    BY DEF EvalRunsKept, RowWith
<1>3. row.cases = evalRun[q].cases
    BY <1>2 DEF EvalFields
<1> HIDE DEF row
<1>4. IsTable(evalRun') /\ DOMAIN evalRun' = DOMAIN evalRun
    BY <1>1, TableExcept DEF EvalRunsKept
<1>5. evalRun'[q] = row /\ \A r \in DOMAIN evalRun \ {q} : evalRun'[r] = evalRun[r]
    BY <1>1
<1> QED
    BY <1>2, <1>3, <1>4, <1>5 DEF EvalRunsKept

LEMMA UpdateCaseFacts ==
    ASSUME EvalRunsKept, NEW q \in DOMAIN evalRun, NEW n \in DOMAIN evalRun[q].cases, NEW status,
           UpdateCase(q, n, status)
    PROVE  /\ EvalRunsKept' /\ DOMAIN evalRun' = DOMAIN evalRun
           /\ \A r \in DOMAIN evalRun \ {q} : evalRun'[r] = evalRun[r]
           /\ evalRun'[q].cases = [evalRun[q].cases EXCEPT ![n] = status]
           /\ DOMAIN evalRun'[q].cases = DOMAIN evalRun[q].cases
           /\ \A f \in EvalFields \ {"cases"} : evalRun'[q][f] = evalRun[q][f]
<1> DEFINE row == [evalRun[q] EXCEPT !.cases = [evalRun[q].cases EXCEPT ![n] = status]]
<1>1. evalRun' = [evalRun EXCEPT ![q] = row]
    BY DEF UpdateCase
<1>2. /\ DOMAIN row = EvalFields
      /\ row.cases = [evalRun[q].cases EXCEPT ![n] = status]
      /\ \A f \in EvalFields \ {"cases"} : row[f] = evalRun[q][f]
    BY DEF EvalRunsKept, EvalFields
<1>3. IsTable(row.cases) /\ DOMAIN row.cases = DOMAIN evalRun[q].cases
    BY <1>2, TableExcept DEF EvalRunsKept
<1> HIDE DEF row
<1>4. IsTable(evalRun') /\ DOMAIN evalRun' = DOMAIN evalRun
    BY <1>1, TableExcept DEF EvalRunsKept
<1>5. evalRun'[q] = row /\ \A r \in DOMAIN evalRun \ {q} : evalRun'[r] = evalRun[r]
    BY <1>1
<1> QED
    BY <1>2, <1>3, <1>4, <1>5 DEF EvalRunsKept

\* The rows of a run, as OncePerCase and aggregate_overall_score see them.
SameRows(r) == (\A n : OutputsOf(r, n)' = OutputsOf(r, n)) /\ Aggregate(r)' = Aggregate(r)

LEMMA SameRowsIf ==
    ASSUME NEW r,
           \A o : o \in DOMAIN output /\ output[o].run = r <=> o \in DOMAIN output' /\ output'[o].run = r,
           \A o \in DOMAIN output : output[o].run = r =>
             output'[o].case = output[o].case /\ output'[o].score = output[o].score
    PROVE  SameRows(r)
<1>1. \A n : OutputsOf(r, n)' = OutputsOf(r, n)
    BY DEF OutputsOf
<1>2. Outputs(r)' = Outputs(r)
    BY DEF Outputs
<1>3. \A o \in Outputs(r) : output'[o].score = output[o].score
    BY DEF Outputs
<1>4. [o \in Outputs(r)' |-> output'[o].score] = [o \in Outputs(r) |-> output[o].score]
    BY <1>2, <1>3
<1>5. Aggregate(r)' = Aggregate(r)
    BY <1>4 DEF Aggregate
<1> QED
    BY <1>1, <1>5 DEF SameRows

LEMMA OutputKept == ASSUME UNCHANGED output, NEW r PROVE SameRows(r)
BY SameRowsIf

\* A new output is the only change, and it is of one case of one run.
LEMMA AddOutputFacts ==
    ASSUME RowsKept, NEW q, NEW n, NEW points, AddOutput(q, n, points)
    PROVE  /\ RowsKept'
           /\ \A r : r # q => SameRows(r)
           /\ \A m : m # n => OutputsOf(q, m)' = OutputsOf(q, m)
           /\ OutputsOf(q, n) = {} => Once(q, n)'
<1> DEFINE ids == (1..MaxOutputs) \ DOMAIN output
           new == Min(ids)
           row == OutputRow(q, n, points)
<1>1. /\ ids # {}
      /\ output' = [o \in DOMAIN output \union {new} |-> IF o = new THEN row ELSE output[o]]
    BY DEF AddOutput
<1>a. ids \subseteq Nat
    BY EvaluationAssumption
<1> HIDE DEF ids
<1>b. new \in ids
    BY <1>1, <1>a, MinExists
<1> USE DEF ids
<1>2. row.run = q /\ row.case = n /\ DOMAIN row = {"run", "case", "score", "finding"}
    BY DEF OutputRow
<1> HIDE DEF new, row
<1>3. new \notin DOMAIN output
    BY <1>b
<1>4. /\ DOMAIN output' = DOMAIN output \cup {new}
      /\ output'[new] = row
      /\ \A o \in DOMAIN output : output'[o] = output[o]
    BY <1>1, <1>3
<1>5. RowsKept'
    BY <1>2, <1>4 DEF RowsKept
<1>6. ASSUME NEW r, r # q PROVE SameRows(r)
    BY <1>2, <1>3, <1>4, <1>6, SameRowsIf
<1>7. ASSUME NEW m, m # n PROVE OutputsOf(q, m)' = OutputsOf(q, m)
    BY <1>2, <1>3, <1>4, <1>7 DEF OutputsOf
<1>8. ASSUME OutputsOf(q, n) = {} PROVE Once(q, n)'
    <2>1. OutputsOf(q, n)' = {new}
        BY <1>2, <1>3, <1>4, <1>8 DEF OutputsOf
    <2> QED
        BY <1>4, <2>1 DEF Once
<1> QED
    BY <1>5, <1>6, <1>7, <1>8

\* Rows of runs are added and changed, and keep their cases.
Grows ==
    /\ EvalRunsKept' /\ DOMAIN evalRun \subseteq DOMAIN evalRun'
    /\ \A r \in DOMAIN evalRun : DOMAIN evalRun'[r].cases = DOMAIN evalRun[r].cases

OnlyMoves(e) == DOMAIN exec' = Executions /\ \A f \in Executions \ {e} : exec'[f] = exec[f]

\* A run that keeps its row, or is marked as neither running nor completed.
SetAside(r) ==
    /\ evalRun'[r].status \notin {"running", "completed"}
    /\ evalRun'[r].cases = evalRun[r].cases
    /\ evalRun'[r].crossed = evalRun[r].crossed /\ evalRun'[r].lost = evalRun[r].lost

LEMMA PlacesStay ==
    ASSUME EvalRunsKept, Grows, NEW e, Places(e), exec'[e] = exec[e]
    PROVE  Places(e)'
<1>1. CASE exec[e].pc = "idle"
    BY <1>1 DEF Places
<1>2. CASE exec[e].pc # "idle"
    <2> DEFINE q == exec[e].run
    <2>1. q \in DOMAIN evalRun
        BY <1>2 DEF Places
    <2>2. IsTable(evalRun[q].cases) /\ IsTable(evalRun'[q].cases)
        BY <2>1 DEF EvalRunsKept, Grows
    <2>3. DOMAIN evalRun'[q].cases = DOMAIN evalRun[q].cases
        BY <2>1 DEF Grows
    <2>4. Len(evalRun'[q].cases) = Len(evalRun[q].cases)
        BY <2>2, <2>3, TableAppend
    <2> QED
        BY <2>1, <2>3, <2>4 DEF Places, Grows
<1> QED
    BY <1>1, <1>2

LEMMA ShapeStays ==
    ASSUME EvalShape, Grows, RowsKept', NEW e \in Executions, OnlyMoves(e), Places(e)',
           WaitingKept', HandlerKept'
    PROVE  EvalShape'
<1>1. \A f \in Executions : Places(f)'
    BY PlacesStay DEF EvalShape, ExecsKept, OnlyMoves
<1> QED
    BY <1>1 DEF EvalShape, ExecsKept, Grows, OnlyMoves

LEMMA WaitingStays == ASSUME WaitingKept, Grows, UNCHANGED waiting PROVE WaitingKept'
BY DEF WaitingKept, Grows

\* OnlyMoves of others leave what is known of a run.
LEMMA RunRests ==
    ASSUME NEW r, RunInv(r), evalRun'[r] = evalRun[r] \/ SetAside(r), SameRows(r),
           \A e \in Executions : exec'[e] = exec[e] \/ (~Executes(e, r) /\ ~Owns(e, r)'),
           handler' = handler \/ (~Scoring(r) /\ ~Scoring(r)')
    PROVE  RunInv(r)'
<1>1. RunningInv(r)'
    BY DEF RunInv, RunningInv, SetAside, Executes
<1>2. ASSUME Undisturbed(r)' PROVE OwnerInv(r)'
    <2>1. Undisturbed(r) /\ OwnerInv(r)
        BY <1>2 DEF Undisturbed, SetAside, RunInv
    <2>2. \A e \in Executions : Owns(e, r)' => Owns(e, r) /\ exec'[e] = exec[e]
        BY DEF Owns
    <2>3. \A e \in Executions : Owns(e, r) => Owns(e, r)'
        BY DEF Owns, Executes
    <2>4. Owned(r)' <=> Owned(r)
        BY <2>2, <2>3 DEF Owned
    <2>5. evalRun'[r].cases = evalRun[r].cases
        BY DEF SetAside
    <2>6. \A n : Once(r, n)' <=> Once(r, n)
        <3>1. ASSUME NEW n PROVE Once(r, n)' <=> Once(r, n)
            <4>1. OutputsOf(r, n)' = OutputsOf(r, n)
                BY DEF SameRows
            <4>2. Once(r, n) <=> \E o : OutputsOf(r, n) = {o}
                BY DEF Once, OutputsOf
            <4>3. Once(r, n)' <=> \E o : OutputsOf(r, n)' = {o}
                BY DEF Once, OutputsOf
            <4> QED
                BY <4>1, <4>2, <4>3
        <3> QED
            BY <3>1
    <2>7. \A e \in Executions : Owns(e, r)' => InHand(e, r)'
        BY <2>1, <2>2, <2>5, <2>6 DEF OwnerInv, InHand, Behind, SameRows
    <2>8. Scoring(r)' <=> Scoring(r)
        BY DEF Scoring
    <2>9. ~Owned(r)' /\ evalRun'[r].status = "completed" =>
            Whole(r)' /\ (~Scoring(r)' => evalRun'[r].overall = Aggregate(r)')
        BY <2>1, <2>4, <2>5, <2>6, <2>8 DEF OwnerInv, Whole, SameRows, SetAside
    <2>10. handler'.op = "overall" /\ handler'.run = r => handler'.read = Aggregate(r)'
        BY <2>1 DEF OwnerInv, SameRows, Scoring
    <2> QED
        BY <2>1, <2>2, <2>4, <2>7, <2>8, <2>9, <2>10 DEF OwnerInv
<1> QED
    BY <1>1, <1>2 DEF RunInv

\* An owner goes on.
LEMMA OwnerGoesOn ==
    ASSUME NEW e \in Executions, NEW q, RunInv(q), Owns(e, q), Owns(e, q)', OnlyMoves(e),
           Undisturbed(q)' => Undisturbed(q), UNCHANGED handler,
           Undisturbed(q) /\ InHand(e, q) => InHand(e, q)'
    PROVE  RunInv(q)'
<1>1. RunningInv(q)'
    BY DEF RunningInv, Executes, Owns
<1>2. ASSUME Undisturbed(q)' PROVE OwnerInv(q)'
    <2>1. OwnerInv(q) /\ Undisturbed(q)
        BY <1>2 DEF RunInv
    <2>2. \A f \in Executions : Owns(f, q)' => f = e
        BY <2>1 DEF OwnerInv, OnlyMoves, Owns
    <2>3. Owned(q) /\ Owned(q)'
        BY DEF Owned
    <2>4. InHand(e, q)'
        BY <2>1 DEF OwnerInv
    <2>5. ~Scoring(q) /\ ~Scoring(q)'
        BY <2>1, <2>3 DEF OwnerInv, Scoring
    <2> QED
        BY <2>2, <2>3, <2>4, <2>5 DEF OwnerInv, Scoring
<1> QED
    BY <1>1, <1>2 DEF RunInv

\* An owner ends, and leaves a completed run whole.
LEMMA OwnerEnds ==
    ASSUME NEW e \in Executions, NEW q, RunInv(q), Owns(e, q), exec'[e] = Idle, OnlyMoves(e),
           Undisturbed(q)' => Undisturbed(q), UNCHANGED handler, evalRun'[q].status # "running",
           Undisturbed(q) /\ InHand(e, q) /\ evalRun'[q].status = "completed" =>
             Whole(q)' /\ evalRun'[q].overall = Aggregate(q)'
    PROVE  RunInv(q)'
<1>1. RunningInv(q)'
    BY DEF RunningInv
<1>2. ASSUME Undisturbed(q)' PROVE OwnerInv(q)'
    <2>1. OwnerInv(q) /\ Undisturbed(q)
        BY <1>2 DEF RunInv
    <2>2. \A f \in Executions : ~Owns(f, q)'
        BY <2>1 DEF OwnerInv, OnlyMoves, Owns, Idle
    <2>3. ~Scoring(q) /\ ~Scoring(q)'
        BY <2>1 DEF OwnerInv, Scoring, Owned
    <2>4. InHand(e, q)
        BY <2>1 DEF OwnerInv
    <2> QED
        BY <2>1, <2>2, <2>3, <2>4 DEF OwnerInv, Scoring, Owned
<1> QED
    BY <1>1, <1>2 DEF RunInv

\* A step of an execution is about its run, and takes the loop from no call.
LEMMA ExecutionStep ==
    ASSUME EvalInv, NEW e \in Executions, NEW q \in DOMAIN evalRun, q = exec[e].run, Grows,
           DOMAIN evalRun' = DOMAIN evalRun, RowsKept', OnlyMoves(e), Places(e)',
           exec'[e].run = q \/ exec'[e] = Idle,
           loop' = loop \/ loop # "call", UNCHANGED <<waiting, handler>>,
           \A r \in DOMAIN evalRun \ {q} : evalRun'[r] = evalRun[r] /\ SameRows(r),
           RunInv(q)'
    PROVE  EvalInv'
<1>1. HandlerKept'
    BY DEF HandlerKept, EvalInv, EvalShape
<1>2. EvalShape'
    BY <1>1, ShapeStays, WaitingStays DEF EvalInv, EvalShape
<1>3. ASSUME NEW r \in DOMAIN evalRun \ {q} PROVE RunInv(r)'
    <2>1. \A f \in Executions : exec'[f] = exec[f] \/ (~Executes(f, r) /\ ~Owns(f, r)')
        BY DEF OnlyMoves, Executes, Owns, Idle
    <2> QED
        BY <2>1, RunRests DEF EvalInv
<1> QED
    BY <1>2, <1>3 DEF EvalInv

LEMMA RunsStay == ASSUME EvalRunsKept, UNCHANGED evalRun PROVE Grows
BY DEF EvalRunsKept, Grows

LEMMA GotoFacts ==
    ASSUME ExecsKept, NEW e \in Executions, NEW pc, Goto(e, pc)
    PROVE  /\ OnlyMoves(e) /\ DOMAIN exec'[e] = {"pc", "run", "case", "read"}
           /\ exec'[e].pc = pc /\ exec'[e].run = exec[e].run
           /\ exec'[e].case = exec[e].case /\ exec'[e].read = exec[e].read
BY DEF ExecsKept, Places, Goto, OnlyMoves

LEMMA EndsFacts ==
    ASSUME ExecsKept, NEW e \in Executions, Ends(e), MayRun(e) \/ Free
    PROVE  OnlyMoves(e) /\ exec'[e] = Idle /\ Places(e)' /\ (loop' = loop \/ loop # "call")
<1>1. OnlyMoves(e) /\ exec'[e] = Idle
    BY DEF ExecsKept, Ends, OnlyMoves
<1>2. Places(e)'
    BY <1>1 DEF Places, Idle
<1>3. loop' = loop \/ loop # "call"
    BY EvaluationAssumption DEF Ends, MayRun, Free, Executions
<1> QED
    BY <1>1, <1>2, <1>3

\* The run of an execution at a place.
LEMMA ItsRun ==
    ASSUME EvalInv, NEW e \in Executions, exec[e].pc # "idle"
    PROVE  /\ exec[e].run \in DOMAIN evalRun
           /\ EvalRunsKept /\ RowsKept /\ ExecsKept /\ Places(e)
           /\ RunInv(exec[e].run)
           /\ DOMAIN evalRun[exec[e].run].cases = 1..Len(evalRun[exec[e].run].cases)
           /\ Len(evalRun[exec[e].run].cases) \in Nat
<1>1. exec[e].run \in DOMAIN evalRun
    BY DEF EvalInv, EvalShape, ExecsKept, Places
<1>2. IsTable(evalRun[exec[e].run].cases)
    BY <1>1 DEF EvalInv, EvalShape, EvalRunsKept
<1> QED
    BY <1>1, <1>2, TableAppend DEF EvalInv, EvalShape, ExecsKept

LEMMA CheckKeeps ==
    ASSUME EvalInv, NEW e \in Executions, NEW targetFound, Check(e, targetFound)
    PROVE  EvalInv'
<1>1. PICK q \in DOMAIN evalRun : q = exec[e].run
    BY ItsRun DEF Check
<1>2. EvalRunsKept /\ RowsKept /\ ExecsKept /\ Places(e) /\ RunInv(q) /\ exec[e].pc = "check"
    BY <1>1, ItsRun DEF Check
<1>3. Grows /\ UNCHANGED <<evalRun, output, waiting, handler>> /\ RowsKept' /\ \A r : SameRows(r)
    BY <1>2, RunsStay, OutputKept DEF Check, RowsKept
<1>4. /\ OnlyMoves(e) /\ Places(e)' /\ (loop' = loop \/ loop # "call")
      /\ exec'[e] = Idle \/ (exec'[e].pc = "clear" /\ exec'[e].run = q)
    <2>1. CASE Goto(e, "clear") /\ UNCHANGED loop
        BY <1>1, <1>2, <1>3, <2>1, GotoFacts DEF Places
    <2>2. CASE Ends(e)
        BY <1>2, <2>2, EndsFacts DEF Check
    <2> QED
        BY <2>1, <2>2 DEF Check
<1>5. \A f \in Executions : exec'[f] = exec[f] \/ (~Executes(f, q) /\ ~Owns(f, q)')
    BY <1>2, <1>4 DEF OnlyMoves, Executes, Owns, Idle
<1>6. RunInv(q)'
    BY <1>2, <1>3, <1>5, RunRests
<1> QED
    BY <1>1, <1>3, <1>4, <1>6, ExecutionStep

\* It deletes the rows of the run, and is its only owner if it had it alone.
LEMMA ClearKeeps ==
    ASSUME EvalInv, NEW e \in Executions, ClearCaseOutputs(e)
    PROVE  EvalInv'
<1> DEFINE changes(q) == [crossed |-> At(q) # {e} \/ Scoring(q), lost |-> FALSE]
<1>1. PICK q \in DOMAIN evalRun : q = exec[e].run
    BY ItsRun DEF ClearCaseOutputs
<1>2. /\ EvalRunsKept /\ RowsKept /\ ExecsKept /\ Places(e) /\ RunInv(q)
      /\ exec[e].pc = "clear" /\ exec[e].case = 0
    BY <1>1, ItsRun DEF ClearCaseOutputs, Places
<1>3. /\ UpdateRun(q, changes(q)) /\ output' = Cleared(q) /\ Goto(e, "begin")
      /\ UNCHANGED <<waiting, loop, handler>>
    BY <1>1 DEF ClearCaseOutputs
<1>4. /\ OnlyMoves(e) /\ DOMAIN exec'[e] = {"pc", "run", "case", "read"}
      /\ exec'[e].pc = "begin" /\ exec'[e].run = q /\ exec'[e].case = 0
    BY <1>1, <1>2, <1>3, GotoFacts
<1>5. /\ Grows /\ DOMAIN evalRun' = DOMAIN evalRun
      /\ \A r \in DOMAIN evalRun \ {q} : evalRun'[r] = evalRun[r]
      /\ evalRun'[q].crossed = changes(q).crossed
    <2>1. DOMAIN changes(q) \subseteq EvalFields \ {"cases"}
        BY DEF EvalFields
    <2>2. "crossed" \in DOMAIN changes(q)
        OBVIOUS
    <2> HIDE DEF changes
    <2> QED
        BY <1>2, <1>3, <2>1, <2>2, UpdateRunFacts DEF Grows
<1>6. /\ DOMAIN output' = {o \in DOMAIN output : output[o].run # q}
      /\ \A o \in DOMAIN output' : output'[o] = output[o]
    BY <1>3 DEF Cleared, Restrict
<1>7. RowsKept' /\ \A n : OutputsOf(q, n)' = {}
    BY <1>2, <1>6 DEF RowsKept, OutputsOf
<1>8. \A r \in DOMAIN evalRun \ {q} : SameRows(r)
    BY <1>6, SameRowsIf
<1>9. Places(e)'
    BY <1>4, <1>5 DEF Places
<1>10. RunInv(q)'
    <2>1. RunningInv(q)'
        BY <1>4 DEF RunningInv, Executes
    <2>2. ASSUME Undisturbed(q)' PROVE OwnerInv(q)'
        <3>1. At(q) = {e} /\ ~Scoring(q)
            BY <1>5, <2>2 DEF Undisturbed
        <3>2. \A f \in Executions : Owns(f, q)' => f = e
            BY <1>4, <3>1 DEF Owns, At, OnlyMoves
        <3>3. InHand(e, q)'
            <4>1. \A n \in DOMAIN evalRun'[q].cases : n \in Nat \ {0}
                BY <1>5 DEF Grows, EvalRunsKept, IsTable
            <4> QED
                BY <1>4, <1>7, <4>1 DEF InHand, Behind
        <3>4. Owns(e, q)' /\ Owned(q)'
            BY <1>4 DEF Owns, Owned
        <3>5. ~Scoring(q)'
            BY <1>3, <3>1 DEF Scoring
        <3> QED
            BY <3>2, <3>3, <3>4, <3>5 DEF OwnerInv, Scoring
    <2> QED
        BY <2>1, <2>2 DEF RunInv
<1> QED
    BY <1>1, <1>3, <1>4, <1>5, <1>7, <1>8, <1>9, <1>10, ExecutionStep

LEMMA BeginEvalKeeps ==
    ASSUME EvalInv, NEW e \in Executions, Begin(e)
    PROVE  EvalInv'
<1>1. PICK q \in DOMAIN evalRun : q = exec[e].run
    BY ItsRun DEF Begin
<1>2. /\ EvalRunsKept /\ RowsKept /\ ExecsKept /\ Places(e) /\ RunInv(q)
      /\ exec[e].pc = "begin" /\ exec[e].case = 0
    BY <1>1, ItsRun DEF Begin, Places
<1>3. UpdateRun(q, [status |-> "running"]) /\ UNCHANGED <<output, waiting, loop, handler>>
    BY <1>1 DEF Begin
<1>4. /\ OnlyMoves(e) /\ DOMAIN exec'[e] = {"pc", "run", "case", "read"}
      /\ exec'[e].pc = "case" /\ exec'[e].run = q /\ exec'[e].case = 1
    BY <1>1, <1>2 DEF Begin, ExecsKept, Places, OnlyMoves
<1>5. /\ Grows /\ DOMAIN evalRun' = DOMAIN evalRun
      /\ \A r \in DOMAIN evalRun \ {q} : evalRun'[r] = evalRun[r]
      /\ evalRun'[q].cases = evalRun[q].cases
      /\ evalRun'[q].crossed = evalRun[q].crossed /\ evalRun'[q].lost = evalRun[q].lost
    BY <1>2, <1>3, UpdateRunFacts DEF Grows, EvalFields
<1>6. RowsKept' /\ \A r : SameRows(r)
    BY <1>2, <1>3, OutputKept DEF RowsKept
<1>7. Places(e)'
    <2>1. 1 \in DOMAIN evalRun'[q].cases
        BY <1>5 DEF Grows, EvalRunsKept
    <2> QED
        BY <1>4, <1>5, <2>1 DEF Places
<1>8. ASSUME InHand(e, q) PROVE InHand(e, q)'
    <2>1. \A n \in DOMAIN evalRun[q].cases : n \in Nat \ {0}
        BY <1>2 DEF EvalRunsKept, IsTable
    <2>2. \A n \in DOMAIN evalRun[q].cases : ~Behind(e, n) /\ ~Behind(e, n)'
        BY <1>2, <1>4, <2>1 DEF Behind
    <2> QED
        BY <1>2, <1>4, <1>5, <1>6, <1>8, <2>1, <2>2 DEF InHand, SameRows
<1>9. RunInv(q)'
    <2>1. Owns(e, q) /\ Owns(e, q)' /\ (Undisturbed(q)' => Undisturbed(q))
        BY <1>1, <1>2, <1>4, <1>5 DEF Owns, Undisturbed
    <2> QED
        BY <1>2, <1>3, <1>4, <1>8, <2>1, OwnerGoesOn
<1> QED
    BY <1>1, <1>3, <1>4, <1>5, <1>6, <1>7, <1>9, ExecutionStep

LEMMA BeginCaseKeeps ==
    ASSUME EvalInv, NEW e \in Executions, BeginCase(e)
    PROVE  EvalInv'
<1>1. PICK q \in DOMAIN evalRun : q = exec[e].run
    BY ItsRun DEF BeginCase
<1>2. PICK k \in DOMAIN evalRun[q].cases : k = exec[e].case
    BY <1>1, ItsRun DEF BeginCase, Places
<1>3. /\ EvalRunsKept /\ RowsKept /\ ExecsKept /\ RunInv(q) /\ exec[e].pc = "case"
      /\ DOMAIN exec[e] = {"pc", "run", "case", "read"}
    BY <1>1, ItsRun DEF BeginCase, Places
<1>4. UpdateCase(q, k, "running") /\ UNCHANGED <<output, waiting, handler>>
    BY <1>1, <1>2 DEF BeginCase
<1>5. /\ OnlyMoves(e) /\ DOMAIN exec'[e] = {"pc", "run", "case", "read"}
      /\ exec'[e].pc \in {"judging", "save"} /\ exec'[e].run = q /\ exec'[e].case = k
    BY <1>1, <1>2, <1>3, GotoFacts DEF BeginCase
<1>6. loop' = loop \/ loop # "call"
    BY EvaluationAssumption DEF BeginCase, Executions
<1>7. /\ Grows /\ DOMAIN evalRun' = DOMAIN evalRun
      /\ \A r \in DOMAIN evalRun \ {q} : evalRun'[r] = evalRun[r]
      /\ evalRun'[q].cases = [evalRun[q].cases EXCEPT ![k] = "running"]
      /\ evalRun'[q].crossed = evalRun[q].crossed /\ evalRun'[q].lost = evalRun[q].lost
    BY <1>3, <1>4, UpdateCaseFacts DEF Grows, EvalFields
<1>8. RowsKept' /\ \A r : SameRows(r)
    BY <1>3, <1>4, OutputKept DEF RowsKept
<1>9. Places(e)'
    BY <1>5, <1>7 DEF Places, Grows
<1>10. ASSUME InHand(e, q) PROVE InHand(e, q)'
    <2>1. \A n \in DOMAIN evalRun[q].cases : n \in Nat
        BY <1>3 DEF EvalRunsKept, IsTable
    <2>2. \A n : Behind(e, n)' <=> Behind(e, n)
        BY <1>2, <1>3, <1>5 DEF Behind
    <2>3. \A n \in DOMAIN evalRun[q].cases : n < k => evalRun'[q].cases[n] = evalRun[q].cases[n]
        BY <1>7, <2>1
    <2>4. \A n : OutputsOf(q, n)' = OutputsOf(q, n) /\ (Once(q, n)' <=> Once(q, n))
        BY <1>4, <1>8 DEF SameRows, Once, OutputsOf
    <2> QED
        BY <1>2, <1>5, <1>7, <1>10, <2>2, <2>3, <2>4 DEF InHand
<1>11. RunInv(q)'
    <2>1. Owns(e, q) /\ Owns(e, q)' /\ (Undisturbed(q)' => Undisturbed(q))
        BY <1>1, <1>3, <1>5, <1>7 DEF Owns, Undisturbed
    <2> QED
        BY <1>3, <1>4, <1>5, <1>10, <2>1, OwnerGoesOn
<1> QED
    BY <1>1, <1>4, <1>5, <1>6, <1>7, <1>8, <1>9, <1>11, ExecutionStep

LEMMA JudgeKeeps ==
    ASSUME EvalInv, NEW e \in Executions, JudgeAnswers(e)
    PROVE  EvalInv'
<1>1. PICK q \in DOMAIN evalRun : q = exec[e].run
    BY ItsRun DEF JudgeAnswers
<1>2. EvalRunsKept /\ RowsKept /\ ExecsKept /\ Places(e) /\ RunInv(q) /\ exec[e].pc = "judging"
    BY <1>1, ItsRun DEF JudgeAnswers
<1>3. /\ Grows /\ UNCHANGED <<evalRun, output, waiting, handler>> /\ RowsKept'
      /\ \A r : SameRows(r)
    BY <1>2, RunsStay, OutputKept DEF JudgeAnswers, RowsKept
<1>4. /\ OnlyMoves(e) /\ DOMAIN exec'[e] = {"pc", "run", "case", "read"}
      /\ exec'[e].pc = "save" /\ exec'[e].run = q /\ exec'[e].case = exec[e].case
    BY <1>1, <1>2, GotoFacts DEF JudgeAnswers
<1>5. loop' = loop \/ loop # "call"
    BY DEF JudgeAnswers, Free
<1>6. Places(e)'
    BY <1>1, <1>2, <1>3, <1>4 DEF Places
<1>7. ASSUME InHand(e, q) PROVE InHand(e, q)'
    <2>1. \A n : Behind(e, n)' <=> Behind(e, n)
        BY <1>2, <1>4 DEF Behind
    <2>2. \A n : OutputsOf(q, n)' = OutputsOf(q, n) /\ (Once(q, n)' <=> Once(q, n))
        BY <1>3 DEF Once, OutputsOf
    <2> QED
        BY <1>3, <1>4, <1>7, <2>1, <2>2 DEF InHand
<1>8. RunInv(q)'
    <2>1. Owns(e, q) /\ Owns(e, q)' /\ (Undisturbed(q)' => Undisturbed(q))
        BY <1>1, <1>2, <1>3, <1>4 DEF Owns, Undisturbed
    <2> QED
        BY <1>2, <1>3, <1>4, <1>7, <2>1, OwnerGoesOn
<1> QED
    BY <1>1, <1>3, <1>4, <1>5, <1>6, <1>8, ExecutionStep

\* The result of the case it is at is the first of that case.
LEMMA SaveKeeps ==
    ASSUME EvalInv, NEW e \in Executions, NEW points, SaveResult(e, points)
    PROVE  EvalInv'
<1>1. PICK q \in DOMAIN evalRun : q = exec[e].run
    BY ItsRun DEF SaveResult
<1>2. PICK k \in DOMAIN evalRun[q].cases : k = exec[e].case
    BY <1>1, ItsRun DEF SaveResult, Places
<1>3. EvalRunsKept /\ RowsKept /\ ExecsKept /\ Places(e) /\ RunInv(q) /\ exec[e].pc = "save"
    BY <1>1, ItsRun DEF SaveResult
<1>4. Grows /\ UNCHANGED <<evalRun, waiting, loop, handler>> /\ AddOutput(q, k, points)
    BY <1>1, <1>2, <1>3, RunsStay DEF SaveResult
<1>5. /\ OnlyMoves(e) /\ DOMAIN exec'[e] = {"pc", "run", "case", "read"}
      /\ exec'[e].pc = "done" /\ exec'[e].run = q /\ exec'[e].case = k
    BY <1>1, <1>2, <1>3, GotoFacts DEF SaveResult
<1>6. /\ RowsKept' /\ \A r : r # q => SameRows(r)
      /\ \A n : n # k => OutputsOf(q, n)' = OutputsOf(q, n)
      /\ OutputsOf(q, k) = {} => Once(q, k)'
    BY <1>3, <1>4, AddOutputFacts
<1>7. Places(e)'
    BY <1>1, <1>2, <1>4, <1>5 DEF Places
<1>8. ASSUME InHand(e, q) PROVE InHand(e, q)'
    <2>1. \A n \in DOMAIN evalRun[q].cases : n \in Nat
        BY <1>3 DEF EvalRunsKept, IsTable
    <2>2. \A n \in DOMAIN evalRun[q].cases : Behind(e, n)' <=> Behind(e, n) \/ n = k
        BY <1>2, <1>3, <1>5, <2>1 DEF Behind
    <2>3. ~Behind(e, k)
        BY <1>2, <1>3, <2>1 DEF Behind
    <2>4. \A n : n # k => (Once(q, n) => Once(q, n)')
        <3>1. ASSUME NEW n, n # k, Once(q, n) PROVE Once(q, n)'
            <4>1. PICK o : OutputsOf(q, n) = {o}
                BY <3>1 DEF Once
            <4>2. OutputsOf(q, n)' = {o}
                BY <1>6, <3>1, <4>1
            <4> QED
                BY <4>2 DEF Once, OutputsOf
        <3> QED
            BY <3>1
    <2> QED
        BY <1>2, <1>4, <1>5, <1>6, <1>8, <2>2, <2>3, <2>4 DEF InHand
<1>9. RunInv(q)'
    <2>1. Owns(e, q) /\ Owns(e, q)' /\ (Undisturbed(q)' => Undisturbed(q))
        BY <1>1, <1>3, <1>4, <1>5 DEF Owns, Undisturbed
    <2> QED
        BY <1>3, <1>4, <1>5, <1>8, <2>1, OwnerGoesOn
<1> QED
    BY <1>1, <1>4, <1>5, <1>6, <1>7, <1>9, ExecutionStep

LEMMA CaseDoneKeeps ==
    ASSUME EvalInv, NEW e \in Executions, CaseDone(e)
    PROVE  EvalInv'
<1>1. PICK q \in DOMAIN evalRun : q = exec[e].run
    BY ItsRun DEF CaseDone
<1>2. PICK k \in DOMAIN evalRun[q].cases : k = exec[e].case
    BY <1>1, ItsRun DEF CaseDone, Places
<1>3. /\ EvalRunsKept /\ RowsKept /\ ExecsKept /\ RunInv(q) /\ exec[e].pc = "done"
      /\ DOMAIN exec[e] = {"pc", "run", "case", "read"}
      /\ DOMAIN evalRun[q].cases = 1..Len(evalRun[q].cases) /\ Len(evalRun[q].cases) \in Nat
    BY <1>1, ItsRun DEF CaseDone, Places
<1>4. UpdateCase(q, k, "completed") /\ UNCHANGED <<output, waiting, loop, handler>>
    BY <1>1, <1>2 DEF CaseDone
<1>5. /\ OnlyMoves(e) /\ DOMAIN exec'[e] = {"pc", "run", "case", "read"}
      /\ exec'[e].pc = (IF k < Len(evalRun[q].cases) THEN "case" ELSE "aggregate")
      /\ exec'[e].run = q /\ exec'[e].case = k + 1
    BY <1>1, <1>2, <1>3 DEF CaseDone, ExecsKept, OnlyMoves
<1>6. /\ Grows /\ DOMAIN evalRun' = DOMAIN evalRun
      /\ \A r \in DOMAIN evalRun \ {q} : evalRun'[r] = evalRun[r]
      /\ evalRun'[q].cases = [evalRun[q].cases EXCEPT ![k] = "completed"]
      /\ DOMAIN evalRun'[q].cases = DOMAIN evalRun[q].cases
      /\ evalRun'[q].crossed = evalRun[q].crossed /\ evalRun'[q].lost = evalRun[q].lost
    BY <1>3, <1>4, UpdateCaseFacts DEF Grows, EvalFields
<1>7. RowsKept' /\ \A r : SameRows(r)
    BY <1>3, <1>4, OutputKept DEF RowsKept
<1>8. Places(e)'
    <2>1. Len(evalRun'[q].cases) = Len(evalRun[q].cases)
        BY <1>3, <1>6, TableAppend DEF Grows, EvalRunsKept
    <2> QED
        BY <1>3, <1>5, <1>6, <2>1 DEF Places
<1>9. ASSUME InHand(e, q) PROVE InHand(e, q)'
    <2>1. \A n \in DOMAIN evalRun[q].cases : n \in Nat
        BY <1>3
    <2>2. \A n \in DOMAIN evalRun[q].cases : Behind(e, n)' <=> Behind(e, n)
        BY <1>2, <1>3, <1>5, <2>1 DEF Behind
    <2>3. \A n \in DOMAIN evalRun[q].cases : n < k + 1 => evalRun'[q].cases[n] = "completed"
        BY <1>2, <1>6, <1>9, <2>1 DEF InHand
    <2>4. \A n : OutputsOf(q, n)' = OutputsOf(q, n) /\ (Once(q, n)' <=> Once(q, n))
        BY <1>4, <1>7 DEF SameRows, Once, OutputsOf
    <2> QED
        BY <1>5, <1>6, <1>9, <2>2, <2>3, <2>4 DEF InHand
<1>10. RunInv(q)'
    <2>1. Owns(e, q) /\ Owns(e, q)' /\ (Undisturbed(q)' => Undisturbed(q))
        BY <1>1, <1>3, <1>5, <1>6 DEF Owns, Undisturbed
    <2> QED
        BY <1>3, <1>4, <1>5, <1>9, <2>1, OwnerGoesOn
<1> QED
    BY <1>1, <1>4, <1>5, <1>6, <1>7, <1>8, <1>10, ExecutionStep

LEMMA ListKeeps ==
    ASSUME EvalInv, NEW e \in Executions, ListMetrics(e)
    PROVE  EvalInv'
<1>1. PICK q \in DOMAIN evalRun : q = exec[e].run
    BY ItsRun DEF ListMetrics
<1>2. EvalRunsKept /\ RowsKept /\ ExecsKept /\ Places(e) /\ RunInv(q) /\ exec[e].pc = "aggregate"
    BY <1>1, ItsRun DEF ListMetrics
<1>3. /\ Grows /\ UNCHANGED <<evalRun, output, waiting, loop, handler>> /\ RowsKept'
      /\ \A r : SameRows(r)
    BY <1>2, RunsStay, OutputKept DEF ListMetrics, RowsKept
<1>4. /\ OnlyMoves(e) /\ DOMAIN exec'[e] = {"pc", "run", "case", "read"}
      /\ exec'[e].pc = "complete" /\ exec'[e].run = q /\ exec'[e].case = exec[e].case
      /\ exec'[e].read = Aggregate(q)
    BY <1>1, <1>2 DEF ListMetrics, ExecsKept, Places, OnlyMoves
<1>5. Places(e)'
    BY <1>1, <1>2, <1>3, <1>4 DEF Places
<1>6. ASSUME InHand(e, q) PROVE InHand(e, q)'
    <2>1. \A n : Behind(e, n)' <=> Behind(e, n)
        BY <1>2, <1>4 DEF Behind
    <2>2. \A n : OutputsOf(q, n)' = OutputsOf(q, n) /\ (Once(q, n)' <=> Once(q, n))
        BY <1>3 DEF Once, OutputsOf
    <2>3. Aggregate(q)' = Aggregate(q)
        BY <1>3 DEF SameRows
    <2> QED
        BY <1>3, <1>4, <1>6, <2>1, <2>2, <2>3 DEF InHand
<1>7. RunInv(q)'
    <2>1. Owns(e, q) /\ Owns(e, q)' /\ (Undisturbed(q)' => Undisturbed(q))
        BY <1>1, <1>2, <1>3, <1>4 DEF Owns, Undisturbed
    <2> QED
        BY <1>2, <1>3, <1>4, <1>6, <2>1, OwnerGoesOn
<1> QED
    BY <1>1, <1>3, <1>4, <1>5, <1>7, ExecutionStep

LEMMA CompleteKeeps ==
    ASSUME EvalInv, NEW e \in Executions, Complete(e)
    PROVE  EvalInv'
<1> DEFINE changes(read) == [status |-> "completed", overall |-> read]
<1>1. PICK q \in DOMAIN evalRun : q = exec[e].run
    BY ItsRun DEF Complete
<1>2. /\ EvalRunsKept /\ RowsKept /\ ExecsKept /\ RunInv(q) /\ exec[e].pc = "complete"
      /\ exec[e].case = Len(evalRun[q].cases) + 1
      /\ DOMAIN evalRun[q].cases = 1..Len(evalRun[q].cases) /\ Len(evalRun[q].cases) \in Nat
    BY <1>1, ItsRun DEF Complete, Places
<1>3. PICK read : read = exec[e].read
    OBVIOUS
<1>4. UpdateRun(q, changes(read)) /\ UNCHANGED <<output, waiting, handler>>
    BY <1>1, <1>3 DEF Complete
<1>5. OnlyMoves(e) /\ exec'[e] = Idle /\ Places(e)' /\ (loop' = loop \/ loop # "call")
    BY <1>2, EndsFacts DEF Complete
<1>6. /\ Grows /\ DOMAIN evalRun' = DOMAIN evalRun
      /\ \A r \in DOMAIN evalRun \ {q} : evalRun'[r] = evalRun[r]
      /\ evalRun'[q].cases = evalRun[q].cases
      /\ evalRun'[q].crossed = evalRun[q].crossed /\ evalRun'[q].lost = evalRun[q].lost
      /\ evalRun'[q].status = "completed" /\ evalRun'[q].overall = read
    BY <1>2, <1>4, UpdateRunFacts DEF Grows, EvalFields
<1>7. RowsKept' /\ \A r : SameRows(r)
    BY <1>2, <1>4, OutputKept DEF RowsKept
<1>8. ASSUME InHand(e, q) PROVE Whole(q)' /\ evalRun'[q].overall = Aggregate(q)'
    <2>1. \A n \in DOMAIN evalRun[q].cases : n < exec[e].case
        BY <1>2
    <2>2. \A n \in DOMAIN evalRun[q].cases : evalRun[q].cases[n] = "completed" /\ Once(q, n)
        BY <1>8, <2>1 DEF InHand, Behind
    <2>3. \A n : Once(q, n)' <=> Once(q, n)
        BY <1>4 DEF Once, OutputsOf
    <2>4. exec[e].read = Aggregate(q) /\ Aggregate(q)' = Aggregate(q)
        BY <1>2, <1>7, <1>8 DEF InHand, SameRows
    <2> QED
        BY <1>3, <1>6, <2>2, <2>3, <2>4 DEF Whole
<1>9. RunInv(q)'
    <2>1. Owns(e, q) /\ (Undisturbed(q)' => Undisturbed(q))
        BY <1>1, <1>2, <1>6 DEF Owns, Undisturbed
    <2> QED
        BY <1>2, <1>4, <1>5, <1>6, <1>8, <2>1, OwnerEnds
<1> QED
    BY <1>1, <1>4, <1>5, <1>6, <1>7, <1>9, ExecutionStep

LEMMA FailEvalKeeps ==
    ASSUME EvalInv, NEW e \in Executions, Fail(e)
    PROVE  EvalInv'
<1>1. PICK q \in DOMAIN evalRun : q = exec[e].run
    BY ItsRun DEF Fail
<1>2. /\ EvalRunsKept /\ RowsKept /\ ExecsKept /\ RunInv(q)
      /\ exec[e].pc \in {"case", "judging", "save", "done", "aggregate", "complete"}
    BY <1>1, ItsRun DEF Fail
<1>3. UpdateRun(q, [status |-> "failed"]) /\ UNCHANGED <<output, waiting, handler>>
    BY <1>1 DEF Fail
<1>4. OnlyMoves(e) /\ exec'[e] = Idle /\ Places(e)' /\ (loop' = loop \/ loop # "call")
    BY <1>2, EndsFacts DEF Fail
<1>5. /\ Grows /\ DOMAIN evalRun' = DOMAIN evalRun
      /\ \A r \in DOMAIN evalRun \ {q} : evalRun'[r] = evalRun[r]
      /\ evalRun'[q].crossed = evalRun[q].crossed /\ evalRun'[q].lost = evalRun[q].lost
      /\ evalRun'[q].status = "failed"
    BY <1>2, <1>3, UpdateRunFacts DEF Grows, EvalFields
<1>6. RowsKept' /\ \A r : SameRows(r)
    BY <1>2, <1>3, OutputKept DEF RowsKept
<1>7. RunInv(q)'
    <2>1. Owns(e, q) /\ (Undisturbed(q)' => Undisturbed(q))
        BY <1>1, <1>2, <1>5 DEF Owns, Undisturbed
    <2> QED
        BY <1>2, <1>3, <1>4, <1>5, <2>1, OwnerEnds
<1> QED
    BY <1>1, <1>3, <1>4, <1>5, <1>6, <1>7, ExecutionStep

\* The calls.
LEMMA ExecsStay == ASSUME EvalShape, Grows, UNCHANGED exec PROVE ExecsKept'
BY PlacesStay DEF EvalShape, ExecsKept

LEMMA ExecStarts ==
    ASSUME EvalShape, Grows, NEW e \in Executions, NEW q \in DOMAIN evalRun', exec[e] = Idle,
           exec' = [exec EXCEPT ![e] = [Idle EXCEPT !.pc = "check", !.run = q]]
    PROVE  /\ ExecsKept'
           /\ \A f \in Executions : \A r : exec'[f] = exec[f] \/ (~Executes(f, r) /\ ~Owns(f, r)')
           /\ \A f \in Executions : exec'[f] = exec[f] \/ exec'[f].pc = "check"
<1>1. /\ DOMAIN exec' = Executions /\ exec'[e] = [Idle EXCEPT !.pc = "check", !.run = q]
      /\ \A f \in Executions \ {e} : exec'[f] = exec[f]
    BY DEF EvalShape, ExecsKept
<1>2. Places(e)'
    BY <1>1 DEF Places, Idle
<1>3. \A f \in Executions \ {e} : Places(f)'
    BY <1>1, PlacesStay DEF EvalShape, ExecsKept
<1>4. \A r : ~Executes(e, r) /\ ~Owns(e, r)'
    BY <1>1 DEF Executes, Owns, Idle
<1> QED
    BY <1>1, <1>2, <1>3, <1>4 DEF ExecsKept, Idle

\* A call that neither scores nor executes.
LEMMA CallRests ==
    ASSUME EvalInv, \A r \in DOMAIN evalRun : evalRun'[r] = evalRun[r] \/ SetAside(r),
           \A r : SameRows(r),
           \A f \in Executions : \A r : exec'[f] = exec[f] \/ (~Executes(f, r) /\ ~Owns(f, r)'),
           handler' = handler \/ {handler.op, handler'.op} \cap {"read", "overall"} = {}
    PROVE  \A r \in DOMAIN evalRun : RunInv(r)'
<1>1. ASSUME NEW r \in DOMAIN evalRun PROVE RunInv(r)'
    <2>1. RunInv(r)
        BY DEF EvalInv
    <2>2. handler' = handler \/ (~Scoring(r) /\ ~Scoring(r)')
        BY DEF Scoring
    <2> QED
        BY <2>1, <2>2, RunRests
<1> QED
    BY <1>1

LEMMA FreeLoop == ASSUME EvalInv, Free PROVE handler.op = "none"
BY DEF EvalInv, EvalShape, HandlerKept, Free

LEMMA CreateEvalKeeps ==
    ASSUME EvalInv, NEW evaluators \in EvaluatorLists, NEW c \in Coroutines, NEW runAsync \in BOOLEAN,
           CreateRun(evaluators, c, runAsync)
    PROVE  EvalInv'
<1> DEFINE row == NewRun(evaluators)
<1>a. PICK new : new = Len(evalRun) + 1
    OBVIOUS
<1>1. EvalRunsKept /\ RowsKept /\ EvalShape
    BY DEF EvalInv, EvalShape
<1>2. /\ IsTable(evalRun') /\ Len(evalRun) \in Nat /\ DOMAIN evalRun = 1..Len(evalRun)
      /\ DOMAIN evalRun' = 1..new /\ evalRun'[new] = row
      /\ \A r \in DOMAIN evalRun : evalRun'[r] = evalRun[r]
    BY <1>1, <1>a, TableAppend DEF CreateRun, EvalRunsKept
<1>3. DOMAIN row = EvalFields /\ IsTable(row.cases) /\ 1 \in DOMAIN row.cases /\ row.status = "created"
    <2>1. IsTable(evaluators) /\ 1 \in DOMAIN evaluators
        BY EvaluationAssumption DEF IsTable
    <2>2. DOMAIN row = EvalFields /\ row.status = "created"
          /\ row.cases = [n \in DOMAIN evaluators |-> "pending"]
        BY DEF NewRun, EvalFields
    <2>3. DOMAIN row.cases = DOMAIN evaluators
        BY <2>2
    <2>4. row.cases = [n \in DOMAIN evaluators |-> row.cases[n]]
        BY <2>2
    <2> HIDE DEF row
    <2>5. IsTable(row.cases)
        BY <2>1, <2>4, TableMap
    <2> QED
        BY <2>1, <2>2, <2>3, <2>5
<1> HIDE DEF row
<1>4. new \notin DOMAIN evalRun /\ DOMAIN evalRun' = DOMAIN evalRun \cup {new}
    <2>1. \A n \in Nat : 1..(n + 1) = 1..n \cup {n + 1} /\ n + 1 \notin 1..n
        OBVIOUS
    <2> QED
        BY <1>a, <1>2, <2>1
<1>5. Grows
    BY <1>1, <1>2, <1>3, <1>4 DEF Grows, EvalRunsKept
<1>6. /\ ExecsKept'
      /\ \A f \in Executions : \A r : exec'[f] = exec[f] \/ (~Executes(f, r) /\ ~Owns(f, r)')
      /\ \A f \in Executions : exec'[f] = exec[f] \/ exec'[f].pc = "check"
    <2>1. CASE UNCHANGED exec
        BY <1>1, <1>5, <2>1, ExecsStay
    <2>2. CASE StartOnLoop(c, new)
        BY <1>1, <1>4, <1>5, <2>2, ExecStarts DEF StartOnLoop, Executions
    <2> QED
        BY <1>a, <2>1, <2>2 DEF CreateRun
<1>7. /\ HandlerKept' /\ handler.op = "none" /\ handler'.op \in {"none", "queued"}
    <2>1. handler.op = "none" /\ HandlerKept
        BY FreeLoop DEF CreateRun, EvalInv, EvalShape
    <2>2. CASE UNCHANGED handler
        BY <2>1, <2>2 DEF HandlerKept
    <2>3. CASE loop' = "call" /\ handler' = [NoCall EXCEPT !.op = "queued", !.run = new]
        BY <1>4, <2>1, <2>3 DEF HandlerKept, NoCall
    <2> QED
        BY <1>a, <2>1, <2>2, <2>3 DEF CreateRun
<1>8. WaitingKept'
    <2>1. CASE UNCHANGED waiting
        BY <1>1, <1>5, <2>1, WaitingStays DEF EvalShape
    <2>2. CASE waiting' = Append(waiting, new)
        <3>1. IsTable(waiting) /\ \A w \in DOMAIN waiting : waiting[w] \in DOMAIN evalRun
            BY <1>1 DEF EvalShape, WaitingKept
        <3>2. PICK last : last = Len(waiting) + 1
            OBVIOUS
        <3>3. \A n \in Nat : \A i : i \in 1..(n + 1) <=> i \in 1..n \/ i = n + 1
            OBVIOUS
        <3>4. /\ IsTable(waiting') /\ \A w \in DOMAIN waiting' : w \in DOMAIN waiting \/ w = last
              /\ \A w \in DOMAIN waiting : waiting'[w] = waiting[w]
              /\ waiting'[last] = new
            BY <2>2, <3>1, <3>2, <3>3, TableAppend
        <3> QED
            BY <1>4, <3>1, <3>4 DEF WaitingKept
    <2> QED
        BY <1>a, <2>1, <2>2 DEF CreateRun
<1>9. UNCHANGED output /\ RowsKept' /\ \A r : SameRows(r)
    BY <1>1, OutputKept DEF CreateRun, RowsKept
<1>10. \A r \in DOMAIN evalRun : RunInv(r)'
    BY <1>2, <1>6, <1>7, <1>9, CallRests
<1>11. RunInv(new)'
    <2>1. \A f \in Executions : ~Owns(f, new)'
        BY <1>1, <1>4, <1>6 DEF Owns, EvalShape, ExecsKept, Places
    <2>2. ~Scoring(new)'
        BY <1>7 DEF Scoring
    <2> QED
        BY <1>2, <1>3, <1>7, <2>1, <2>2 DEF RunInv, RunningInv, OwnerInv, Owned
<1> QED
    BY <1>4, <1>5, <1>6, <1>7, <1>8, <1>9, <1>10, <1>11 DEF EvalInv, EvalShape, Grows

\* A run that is marked as waiting, cancelled or archived.
LEMMA MarkKeeps ==
    ASSUME EvalInv, NEW q \in DOMAIN evalRun, NEW changes, UpdateRun(q, changes),
           DOMAIN changes \in {{"status"}, {"status", "job"}},
           changes.status \notin {"running", "completed"},
           UNCHANGED <<output, exec>>, WaitingKept', HandlerKept',
           handler' = handler \/ {handler.op, handler'.op} \cap {"read", "overall"} = {}
    PROVE  EvalInv'
<1>1. EvalRunsKept /\ RowsKept /\ EvalShape
    BY DEF EvalInv, EvalShape
<1>2. /\ EvalRunsKept' /\ DOMAIN evalRun' = DOMAIN evalRun
      /\ \A r \in DOMAIN evalRun \ {q} : evalRun'[r] = evalRun[r]
      /\ evalRun'[q].cases = evalRun[q].cases /\ evalRun'[q].status = changes.status
      /\ evalRun'[q].crossed = evalRun[q].crossed /\ evalRun'[q].lost = evalRun[q].lost
    BY <1>1, UpdateRunFacts DEF EvalFields
<1>3. Grows
    BY <1>2 DEF Grows
<1>4. \A r \in DOMAIN evalRun : evalRun'[r] = evalRun[r] \/ SetAside(r)
    BY <1>2 DEF SetAside
<1>5. RowsKept' /\ \A r : SameRows(r)
    BY <1>1, OutputKept DEF RowsKept
<1>6. ExecsKept'
    BY <1>1, <1>3, ExecsStay
<1>7. \A r \in DOMAIN evalRun : RunInv(r)'
    BY <1>4, <1>5, CallRests
<1> QED
    BY <1>2, <1>5, <1>6, <1>7 DEF EvalInv, EvalShape

LEMMA CallEndsFacts ==
    ASSUME CallEnds
    PROVE  HandlerKept' /\ handler'.op = "none"
BY DEF CallEnds, NoCall, HandlerKept

LEMMA StartRunKeeps ==
    ASSUME EvalInv, NEW r \in DOMAIN evalRun, NEW c \in Coroutines, StartRun(r, c)
    PROVE  EvalInv'
<1>1. EvalRunsKept /\ RowsKept /\ EvalShape
    BY DEF EvalInv, EvalShape
<1>2. Grows /\ UNCHANGED <<evalRun, output, waiting, handler>> /\ WaitingKept'
    BY <1>1, RunsStay, WaitingStays DEF StartRun, EvalShape
<1>3. /\ ExecsKept'
      /\ \A f \in Executions : \A q : exec'[f] = exec[f] \/ (~Executes(f, q) /\ ~Owns(f, q)')
    BY <1>1, <1>2, ExecStarts DEF StartRun, StartOnLoop, Executions
<1>4. HandlerKept'
    BY <1>1, <1>2, FreeLoop DEF StartRun, EvalShape, HandlerKept
<1>5. RowsKept' /\ \A q : SameRows(q)
    BY <1>1, <1>2, OutputKept DEF RowsKept
<1>6. \A q \in DOMAIN evalRun : RunInv(q)'
    BY <1>2, <1>3, <1>5, CallRests
<1> QED
    BY <1>2, <1>3, <1>4, <1>5, <1>6 DEF EvalInv, EvalShape, Grows

LEMMA StartJobKeeps == ASSUME EvalInv, StartJob PROVE EvalInv'
<1>1. EvalRunsKept /\ RowsKept /\ EvalShape /\ UNCHANGED <<output, loop, handler>>
    BY DEF EvalInv, EvalShape, StartJob
<1>2. PICK r : r = Head(waiting)
    OBVIOUS
<1>3. /\ IsTable(waiting') /\ r \in DOMAIN evalRun
      /\ \A w \in DOMAIN waiting' : waiting'[w] \in DOMAIN evalRun
    <2>1. PICK S : waiting \in Seq(S)
        BY <1>1 DEF EvalShape, WaitingKept, IsTable
    <2>2. waiting # << >> /\ waiting' = Tail(waiting)
        BY DEF StartJob
    <2>3. 1 \in DOMAIN waiting /\ r = waiting[1]
        BY <1>2, <2>1, <2>2
    <2>4. waiting' \in Seq(S) /\ \A w \in DOMAIN waiting' : w + 1 \in DOMAIN waiting /\ waiting'[w] = waiting[w + 1]
        BY <2>1, <2>2
    <2> QED
        BY <1>1, <2>3, <2>4 DEF EvalShape, WaitingKept, IsTable
<1>4. CASE UNCHANGED evalRun
    <2>1. Grows /\ WaitingKept' /\ RowsKept' /\ \A q : SameRows(q)
        BY <1>1, <1>3, <1>4, RunsStay, OutputKept DEF WaitingKept, RowsKept
    <2>2. HandlerKept'
        BY <1>1, <1>4 DEF EvalShape, HandlerKept
    <2>3. /\ ExecsKept'
          /\ \A f \in Executions : \A q : exec'[f] = exec[f] \/ (~Executes(f, q) /\ ~Owns(f, q)')
        <3>1. CASE UNCHANGED exec
            BY <1>1, <2>1, <3>1, ExecsStay
        <3>2. CASE exec["job"] = Idle /\ exec' = [exec EXCEPT !["job"] = [Idle EXCEPT !.pc = "check", !.run = r]]
            BY <1>1, <1>3, <1>4, <2>1, <3>2, ExecStarts DEF Executions
        <3> QED
            BY <1>2, <3>1, <3>2 DEF StartJob
    <2>4. \A q \in DOMAIN evalRun : RunInv(q)'
        BY <1>1, <1>4, <2>1, <2>3, CallRests
    <2> QED
        BY <1>4, <2>1, <2>2, <2>3, <2>4 DEF EvalInv, EvalShape, Grows
<1>5. CASE UpdateRun(r, [status |-> "cancelled"]) /\ UNCHANGED exec
    <2>1. DOMAIN evalRun' = DOMAIN evalRun
        BY <1>1, <1>3, <1>5, UpdateRunFacts DEF EvalFields
    <2>2. HandlerKept' /\ WaitingKept'
        BY <1>1, <1>3, <2>1 DEF EvalShape, HandlerKept, WaitingKept
    <2> QED
        BY <1>1, <1>3, <1>5, <2>2, MarkKeeps
<1> QED
    BY <1>2, <1>4, <1>5 DEF StartJob

\* The second transaction of a handler that marks its run, and ArchiveRun.
LEMMA MarkedKeeps ==
    ASSUME EvalInv, NEW q \in DOMAIN evalRun, NEW changes, UpdateRun(q, changes),
           DOMAIN changes \in {{"status"}, {"status", "job"}},
           changes.status \notin {"running", "completed"},
           UNCHANGED <<output, exec, waiting>>,
           UNCHANGED <<loop, handler>> \/ (CallEnds /\ handler.op \notin {"read", "overall"})
    PROVE  EvalInv'
<1>1. EvalShape /\ EvalRunsKept
    BY DEF EvalInv, EvalShape
<1>2. Grows /\ DOMAIN evalRun' = DOMAIN evalRun
    BY <1>1, UpdateRunFacts DEF EvalFields, Grows
<1>3. WaitingKept'
    BY <1>1, <1>2, WaitingStays DEF EvalShape
<1>4. HandlerKept'
    BY <1>1, <1>2, CallEndsFacts DEF EvalShape, HandlerKept
<1>5. handler' = handler \/ {handler.op, handler'.op} \cap {"read", "overall"} = {}
    BY CallEndsFacts
<1> QED
    BY <1>3, <1>4, <1>5, MarkKeeps

LEMMA MarksKeep ==
    ASSUME EvalInv, MarkQueued \/ MarkCancelled \/ \E r \in DOMAIN evalRun : ArchiveRun(r)
    PROVE  EvalInv'
<1>1. handler.op # "none" => handler.run \in DOMAIN evalRun
    BY DEF EvalInv, EvalShape, HandlerKept
<1>2. CASE MarkQueued
    <2>1. PICK q \in DOMAIN evalRun : q = handler.run
        BY <1>1, <1>2 DEF MarkQueued
    <2> QED
        BY <1>2, <2>1, MarkedKeeps DEF MarkQueued
<1>3. CASE MarkCancelled
    <2>1. PICK q \in DOMAIN evalRun : q = handler.run
        BY <1>1, <1>3 DEF MarkCancelled
    <2> QED
        BY <1>3, <2>1, MarkedKeeps DEF MarkCancelled
<1>4. ASSUME NEW r \in DOMAIN evalRun, ArchiveRun(r) PROVE EvalInv'
    BY <1>4, MarkedKeeps DEF ArchiveRun
<1> QED
    BY <1>2, <1>3, <1>4

LEMMA CancelEvalKeeps ==
    ASSUME EvalInv, NEW r \in DOMAIN evalRun, CancelRun(r)
    PROVE  EvalInv'
<1>1. EvalShape /\ EvalRunsKept /\ RowsKept /\ handler.op = "none"
    BY FreeLoop DEF EvalInv, EvalShape, CancelRun
<1>2. Grows /\ UNCHANGED <<evalRun, output, exec, waiting>> /\ WaitingKept' /\ ExecsKept'
    BY <1>1, RunsStay, WaitingStays, ExecsStay DEF CancelRun, EvalShape
<1>3. HandlerKept' /\ handler'.op = "cancel"
    BY <1>2 DEF CancelRun, HandlerKept, NoCall
<1>4. RowsKept' /\ \A q : SameRows(q)
    BY <1>1, <1>2, OutputKept DEF RowsKept
<1>5. \A q \in DOMAIN evalRun : RunInv(q)'
    BY <1>1, <1>2, <1>3, <1>4, CallRests
<1> QED
    BY <1>2, <1>3, <1>4, <1>5 DEF EvalInv, EvalShape, Grows

\* Another score of the run of a call: no execution has the run, or it is marked.
LEMMA ScoreKeeps ==
    ASSUME EvalInv, NEW q \in DOMAIN evalRun, NEW points, AddManualScore(q, points)
    PROVE  EvalInv'
<1> DEFINE changes == [crossed |-> evalRun[q].crossed \/ At(q) # {}]
<1>1. /\ EvalShape /\ EvalRunsKept /\ RowsKept /\ ExecsKept /\ handler.op = "none"
      /\ UNCHANGED <<exec, waiting>>
    BY FreeLoop DEF EvalInv, EvalShape, AddManualScore
<1>2. /\ EvalRunsKept' /\ DOMAIN evalRun' = DOMAIN evalRun
      /\ \A r \in DOMAIN evalRun \ {q} : evalRun'[r] = evalRun[r]
      /\ evalRun'[q].cases = evalRun[q].cases
      /\ evalRun'[q].status = evalRun[q].status /\ evalRun'[q].lost = evalRun[q].lost
      /\ evalRun'[q].crossed = changes.crossed
    <2>1. UpdateRun(q, changes)
        BY DEF AddManualScore
    <2>2. DOMAIN changes = {"crossed"}
        OBVIOUS
    <2> HIDE DEF changes
    <2> QED
        BY <1>1, <2>1, <2>2, UpdateRunFacts DEF EvalFields
<1>3. Grows
    BY <1>2 DEF Grows
<1>4. ExecsKept' /\ WaitingKept'
    BY <1>1, <1>3, ExecsStay, WaitingStays DEF EvalShape
<1>5. handler' = [NoCall EXCEPT !.op = "read", !.run = q] /\ loop' = "call" /\ HandlerKept'
    BY <1>2 DEF AddManualScore, HandlerKept, NoCall
<1>6. /\ RowsKept' /\ \A r : r # q => SameRows(r)
      /\ \A n : n # 0 => OutputsOf(q, n)' = OutputsOf(q, n)
    BY <1>1, AddOutputFacts DEF AddManualScore
<1>7. ASSUME NEW r \in DOMAIN evalRun \ {q} PROVE RunInv(r)'
    <2>1. ~Scoring(r) /\ ~Scoring(r)'
        BY <1>1, <1>5 DEF Scoring, NoCall
    <2> QED
        BY <1>1, <1>2, <1>6, <2>1, RunRests DEF EvalInv
<1>8. RunInv(q)'
    <2>1. RunInv(q)
        BY DEF EvalInv
    <2>2. RunningInv(q)'
        BY <1>1, <1>2, <2>1 DEF RunInv, RunningInv, Executes
    <2>3. ASSUME Undisturbed(q)' PROVE OwnerInv(q)'
        <3>1. Undisturbed(q) /\ At(q) = {}
            BY <1>2, <2>3 DEF Undisturbed
        <3>2. OwnerInv(q)
            BY <2>1, <3>1 DEF RunInv
        <3>3. \A e \in Executions : ~Owns(e, q) /\ ~Owns(e, q)'
            BY <1>1, <3>1 DEF Owns, At
        <3>4. Scoring(q)' /\ handler'.op = "read"
            BY <1>5 DEF Scoring, NoCall
        <3>5. ~Scoring(q)
            BY <1>1 DEF Scoring
        <3>6. Whole(q) => Whole(q)'
            <4>1. \A n \in DOMAIN evalRun[q].cases : n # 0
                BY <1>1 DEF EvalRunsKept, IsTable
            <4>2. \A n \in DOMAIN evalRun[q].cases : Once(q, n) => \E o : OutputsOf(q, n)' = {o}
                BY <1>6, <4>1 DEF Once
            <4>3. \A n \in DOMAIN evalRun[q].cases : Once(q, n) => Once(q, n)'
                BY <4>2 DEF Once, OutputsOf
            <4> QED
                BY <1>2, <4>3 DEF Whole
        <3> QED
            BY <1>2, <3>2, <3>3, <3>4, <3>6 DEF OwnerInv, Owned
    <2> QED
        BY <2>2, <2>3 DEF RunInv
<1> QED
    BY <1>2, <1>4, <1>5, <1>6, <1>7, <1>8 DEF EvalInv, EvalShape

LEMMA ReadKeeps == ASSUME EvalInv, ReadScores PROVE EvalInv'
<1>1. /\ EvalShape /\ EvalRunsKept /\ RowsKept /\ ExecsKept /\ handler.op = "read"
      /\ UNCHANGED <<evalRun, output, exec, waiting, loop>>
    BY DEF EvalInv, EvalShape, ReadScores
<1>2. PICK q \in DOMAIN evalRun : q = handler.run
    BY <1>1 DEF EvalShape, HandlerKept
<1>3. /\ Grows /\ WaitingKept' /\ ExecsKept' /\ RowsKept' /\ \A r : SameRows(r)
    BY <1>1, RunsStay, WaitingStays, ExecsStay, OutputKept DEF EvalShape, RowsKept
<1>4. handler'.op = "overall" /\ handler'.run = q /\ handler'.read = Aggregate(q) /\ HandlerKept'
    BY <1>1, <1>2 DEF ReadScores, EvalShape, HandlerKept
<1>5. ASSUME NEW r \in DOMAIN evalRun \ {q} PROVE RunInv(r)'
    <2>1. ~Scoring(r) /\ ~Scoring(r)'
        BY <1>2, <1>4 DEF Scoring
    <2> QED
        BY <1>1, <1>3, <2>1, RunRests DEF EvalInv
<1>6. RunInv(q)'
    <2>1. RunInv(q) /\ Scoring(q) /\ Scoring(q)'
        BY <1>1, <1>2, <1>4 DEF EvalInv, Scoring
    <2>2. RunningInv(q)'
        BY <1>1, <2>1 DEF RunInv, RunningInv, Executes
    <2>3. ASSUME Undisturbed(q)' PROVE OwnerInv(q)'
        <3>1. OwnerInv(q)
            BY <1>1, <2>1, <2>3 DEF RunInv, Undisturbed
        <3>2. \A e \in Executions : ~Owns(e, q) /\ ~Owns(e, q)'
            BY <1>1, <2>1, <3>1 DEF OwnerInv, Owned, Owns
        <3>3. Whole(q)' <=> Whole(q)
            BY <1>1 DEF Whole, Once, OutputsOf
        <3> QED
            BY <1>1, <1>3, <1>4, <2>1, <3>1, <3>2, <3>3 DEF OwnerInv, Owned, SameRows
    <2> QED
        BY <2>2, <2>3 DEF RunInv
<1> QED
    BY <1>1, <1>3, <1>4, <1>5, <1>6 DEF EvalInv, EvalShape, Grows

\* What it writes is of the scores it read in the same call.
LEMMA OverallKeeps == ASSUME EvalInv, WriteOverall PROVE EvalInv'
<1> DEFINE changes(read) == [overall |-> read]
<1>1. /\ EvalShape /\ EvalRunsKept /\ RowsKept /\ ExecsKept /\ handler.op = "overall"
      /\ UNCHANGED <<output, exec, waiting>>
    BY DEF EvalInv, EvalShape, WriteOverall
<1>2. PICK q \in DOMAIN evalRun : q = handler.run
    BY <1>1 DEF EvalShape, HandlerKept
<1>3. PICK read : read = handler.read
    OBVIOUS
<1>4. /\ EvalRunsKept' /\ DOMAIN evalRun' = DOMAIN evalRun
      /\ \A r \in DOMAIN evalRun \ {q} : evalRun'[r] = evalRun[r]
      /\ evalRun'[q].cases = evalRun[q].cases /\ evalRun'[q].overall = read
      /\ evalRun'[q].status = evalRun[q].status /\ evalRun'[q].lost = evalRun[q].lost
      /\ evalRun'[q].crossed = evalRun[q].crossed
    BY <1>1, <1>2, <1>3, UpdateRunFacts DEF WriteOverall, EvalFields
<1>5. Grows
    BY <1>4 DEF Grows
<1>6. /\ WaitingKept' /\ ExecsKept' /\ RowsKept' /\ \A r : SameRows(r)
    BY <1>1, <1>5, WaitingStays, ExecsStay, OutputKept DEF EvalShape, RowsKept
<1>7. HandlerKept' /\ handler'.op = "none"
    BY CallEndsFacts DEF WriteOverall
<1>8. ASSUME NEW r \in DOMAIN evalRun \ {q} PROVE RunInv(r)'
    <2>1. ~Scoring(r) /\ ~Scoring(r)'
        BY <1>2, <1>7 DEF Scoring
    <2> QED
        BY <1>1, <1>4, <1>6, <2>1, RunRests DEF EvalInv
<1>9. RunInv(q)'
    <2>1. RunInv(q) /\ Scoring(q) /\ ~Scoring(q)'
        BY <1>1, <1>2, <1>7 DEF EvalInv, Scoring
    <2>2. RunningInv(q)'
        BY <1>1, <1>4, <2>1 DEF RunInv, RunningInv, Executes
    <2>3. ASSUME Undisturbed(q)' PROVE OwnerInv(q)'
        <3>1. OwnerInv(q)
            BY <1>4, <2>1, <2>3 DEF RunInv, Undisturbed
        <3>2. \A e \in Executions : ~Owns(e, q) /\ ~Owns(e, q)'
            BY <1>1, <2>1, <3>1 DEF OwnerInv, Owned, Owns
        <3>3. Whole(q)' <=> Whole(q)
            BY <1>1, <1>4 DEF Whole, Once, OutputsOf
        <3>4. read = Aggregate(q) /\ Aggregate(q)' = Aggregate(q)
            BY <1>1, <1>2, <1>3, <1>6, <3>1 DEF OwnerInv, SameRows
        <3> QED
            BY <1>4, <1>7, <2>1, <3>1, <3>2, <3>3, <3>4 DEF OwnerInv, Owned
    <2> QED
        BY <2>2, <2>3 DEF RunInv
<1> QED
    BY <1>4, <1>6, <1>7, <1>8, <1>9 DEF EvalInv, EvalShape

\* A finding's status is in no score, and a report in no table of the run.
LEMMA FindingKeeps ==
    ASSUME EvalInv,
           \/ \E n \in DOMAIN output, status \in {"resolved", "dismissed"} : UpdateFindingStatus(n, status)
           \/ \E r \in DOMAIN evalRun : GenerateReport(r)
    PROVE  EvalInv'
<1>1. EvalShape /\ EvalRunsKept /\ RowsKept /\ UNCHANGED <<evalRun, exec, waiting, loop, handler>>
    BY DEF EvalInv, EvalShape, UpdateFindingStatus, GenerateReport
<1>2. RowsKept' /\ \A r : SameRows(r)
    <2>1. CASE UNCHANGED output
        BY <1>1, <2>1, OutputKept DEF RowsKept
    <2>2. ASSUME NEW n \in DOMAIN output, NEW status, output' = [output EXCEPT ![n].finding = status]
          PROVE  RowsKept' /\ \A r : SameRows(r)
        <3>1. /\ DOMAIN output' = DOMAIN output
              /\ \A o \in DOMAIN output :
                   /\ DOMAIN output'[o] = DOMAIN output[o] /\ output'[o].run = output[o].run
                   /\ output'[o].case = output[o].case /\ output'[o].score = output[o].score
            BY <1>1, <2>2 DEF RowsKept
        <3> QED
            BY <1>1, <3>1, SameRowsIf DEF RowsKept
    <2> QED
        BY <2>1, <2>2 DEF UpdateFindingStatus, GenerateReport
<1>3. Grows /\ ExecsKept' /\ WaitingKept' /\ HandlerKept'
    BY <1>1, RunsStay, ExecsStay, WaitingStays DEF EvalShape, HandlerKept
<1>4. \A r \in DOMAIN evalRun : RunInv(r)'
    BY <1>1, <1>2, CallRests
<1> QED
    BY <1>1, <1>2, <1>3, <1>4 DEF EvalInv, EvalShape, Grows

LEMMA EvalRestartKeeps == ASSUME EvalInv, Restart PROVE EvalInv'
<1>1. EvalShape /\ EvalRunsKept /\ RowsKept /\ UNCHANGED output
    BY DEF EvalInv, EvalShape, Restart
<1>2. /\ exec' = [e \in Executions |-> Idle] /\ waiting' = << >> /\ handler' = NoCall
    BY DEF Restart
<1>3. /\ DOMAIN evalRun' = DOMAIN evalRun
      /\ evalRun' = [r \in DOMAIN evalRun |-> evalRun'[r]]
      /\ \A r \in DOMAIN evalRun : evalRun'[r] = [evalRun[r] EXCEPT !.lost = @ \/ At(r) # {},
                                                                    !.crossed = @ \/ Scoring(r)]
    BY DEF Restart
<1>4. ASSUME NEW r \in DOMAIN evalRun
      PROVE  /\ DOMAIN evalRun'[r] = EvalFields /\ evalRun'[r].cases = evalRun[r].cases
             /\ evalRun'[r].status = evalRun[r].status /\ evalRun'[r].overall = evalRun[r].overall
             /\ evalRun'[r].lost = (evalRun[r].lost \/ At(r) # {})
             /\ evalRun'[r].crossed = (evalRun[r].crossed \/ Scoring(r))
    BY <1>1, <1>3 DEF EvalRunsKept, EvalFields
<1>5. EvalRunsKept'
    <2>1. IsTable(evalRun')
        BY <1>1, <1>3, TableMap DEF EvalRunsKept
    <2> QED
        BY <1>1, <1>3, <1>4, <2>1 DEF EvalRunsKept
<1>6. RowsKept' /\ ExecsKept' /\ WaitingKept' /\ HandlerKept'
    <2>1. RowsKept' /\ ExecsKept'
        BY <1>1, <1>2 DEF RowsKept, ExecsKept, Places, Idle
    <2>2. WaitingKept' /\ HandlerKept'
        BY <1>2 DEF WaitingKept, HandlerKept, IsTable, NoCall
    <2> QED
        BY <2>1, <2>2
<1>7. ASSUME NEW r \in DOMAIN evalRun PROVE RunInv(r)'
    <2>1. RunInv(r)
        BY DEF EvalInv
    <2>2. \A e \in Executions : ~Owns(e, r)'
        BY <1>2 DEF Owns, Idle
    <2>3. ~Scoring(r)' /\ handler'.op = "none"
        BY <1>2 DEF Scoring, NoCall
    <2>4. RunningInv(r)'
        <3>1. ASSUME evalRun[r].status = "running", ~evalRun'[r].lost PROVE FALSE
            <4>1. ~evalRun[r].lost /\ At(r) = {}
                BY <1>4, <3>1
            <4> QED
                BY <2>1, <3>1, <4>1 DEF RunInv, RunningInv, Executes, At
        <3> QED
            BY <1>4, <3>1 DEF RunningInv
    <2>5. ASSUME Undisturbed(r)' PROVE OwnerInv(r)'
        <3>1. ~evalRun[r].lost /\ At(r) = {}
            BY <1>4, <2>5 DEF Undisturbed
        <3>2. ~evalRun[r].crossed /\ ~Scoring(r)
            BY <1>4, <2>5 DEF Undisturbed
        <3>3. OwnerInv(r)
            BY <2>1, <3>1, <3>2 DEF RunInv, Undisturbed
        <3>4. \A e \in Executions : ~Owns(e, r)
            BY <3>1 DEF Owns, At
        <3>5. (Whole(r)' <=> Whole(r)) /\ Aggregate(r)' = Aggregate(r)
            BY <1>1, <1>4, OutputKept DEF Whole, Once, OutputsOf, SameRows
        <3> QED
            BY <1>4, <2>2, <2>3, <3>2, <3>3, <3>4, <3>5 DEF OwnerInv, Owned
    <2> QED
        BY <2>4, <2>5 DEF RunInv
<1> QED
    BY <1>3, <1>5, <1>6, <1>7 DEF EvalInv, EvalShape

LEMMA EvalInitInv == EvaluationInit => EvalInv
<1> SUFFICES ASSUME EvaluationInit PROVE EvalInv
    OBVIOUS
<1>1. EvalRunsKept /\ RowsKept /\ WaitingKept
    BY DEF EvaluationInit, EvalRunsKept, RowsKept, WaitingKept, IsTable
<1>2. ExecsKept /\ HandlerKept
    BY DEF EvaluationInit, ExecsKept, Places, Idle, HandlerKept, NoCall
<1> QED
    BY <1>1, <1>2 DEF EvaluationInit, EvalInv, EvalShape

LEMMA EvalStepInv == EvalInv /\ [CallNext \/ HandlerNext \/ ExecutionNext]_evalVars => EvalInv'
<1> SUFFICES ASSUME EvalInv, [CallNext \/ HandlerNext \/ ExecutionNext]_evalVars PROVE EvalInv'
    OBVIOUS
<1>1. CASE ExecutionNext
    <2>1. ASSUME NEW e \in Executions,
                 \/ \E targetFound \in BOOLEAN : Check(e, targetFound)
                 \/ ClearCaseOutputs(e) \/ Begin(e) \/ BeginCase(e) \/ JudgeAnswers(e)
                 \/ \E points \in ScoreRange \union {NoScore} : SaveResult(e, points)
                 \/ CaseDone(e) \/ ListMetrics(e) \/ Complete(e) \/ Fail(e)
          PROVE  EvalInv'
        BY <2>1, CheckKeeps, ClearKeeps, BeginEvalKeeps, BeginCaseKeeps, JudgeKeeps, SaveKeeps,
           CaseDoneKeeps, ListKeeps, CompleteKeeps, FailEvalKeeps
    <2> QED
        BY <1>1, <2>1 DEF ExecutionNext
<1>2. CASE HandlerNext
    BY <1>2, MarksKeep, ReadKeeps, OverallKeeps, StartJobKeeps DEF HandlerNext
<1>3. CASE CallNext
    <2>1. ASSUME NEW c \in Coroutines, NEW evaluators \in EvaluatorLists, NEW runAsync \in BOOLEAN,
                 CreateRun(evaluators, c, runAsync)
          PROVE  EvalInv'
        BY <2>1, CreateEvalKeeps
    <2>2. ASSUME NEW r \in DOMAIN evalRun,
                 \/ \E c \in Coroutines : StartRun(r, c)
                 \/ CancelRun(r) \/ ArchiveRun(r) \/ GenerateReport(r)
                 \/ \E points \in ScoreRange : AddManualScore(r, points)
          PROVE  EvalInv'
        BY <2>2, StartRunKeeps, CancelEvalKeeps, MarksKeep, FindingKeeps, ScoreKeeps
    <2> QED
        BY <1>3, <2>1, <2>2, FindingKeeps, EvalRestartKeeps DEF CallNext
<1>4. CASE UNCHANGED evalVars
    <2>1. EvalShape /\ EvalRunsKept /\ UNCHANGED <<evalRun, output, exec, waiting, loop, handler>>
        BY <1>4 DEF EvalInv, EvalShape, evalVars
    <2>2. Grows /\ ExecsKept' /\ WaitingKept' /\ HandlerKept' /\ RowsKept' /\ \A r : SameRows(r)
        BY <2>1, RunsStay, ExecsStay, WaitingStays, OutputKept DEF EvalShape, HandlerKept, RowsKept
    <2>3. \A r \in DOMAIN evalRun : RunInv(r)'
        BY <2>1, <2>2, CallRests
    <2> QED
        BY <2>1, <2>2, <2>3 DEF EvalInv, EvalShape, Grows
<1> QED
    BY <1>1, <1>2, <1>3, <1>4

\* A run is shown as running only while an execution has it, whoever else
\* starts, cancels or archives it, unless the process ended during it.
THEOREM RunningHasExecution == EvaluationSpec => []RunningIsExecuted
<1>1. EvalInv => RunningIsExecuted
    BY DEF EvalInv, RunInv, RunningInv, RunningIsExecuted, Executes, At
<1> QED
    BY <1>1, EvalInitInv, EvalStepInv, PTL DEF EvaluationSpec

\* A completed run that its last execution had for itself has one output and
\* one completed evaluation per case, and the overall score of its outputs.
THEOREM CompletedRunsWhole == EvaluationSpec => []CompletedIsWhole
<1>1. ASSUME EvalInv PROVE CompletedIsWhole
    <2>1. ASSUME NEW r \in DOMAIN evalRun, evalRun[r].status = "completed", Alone(r)
          PROVE  Whole(r) /\ (~Scoring(r) => evalRun[r].overall = Aggregate(r))
        <3>1. ~Owned(r)
            BY <2>1 DEF Alone, At, Owned, Owns
        <3>2. OwnerInv(r)
            BY <1>1, <2>1 DEF Alone, EvalInv, RunInv, Undisturbed
        <3> QED
            BY <2>1, <3>1, <3>2 DEF OwnerInv
    <2>2. ASSUME NEW r, NEW n, Once(r, n)
          PROVE  Cardinality({o \in DOMAIN output : output[o].run = r /\ output[o].case = n}) = 1
        BY <2>2, FS_Singleton DEF Once, OutputsOf
    <2>3. OncePerCase
        BY <2>1, <2>2 DEF OncePerCase, Whole
    <2>4. OverallIsOfScores
        BY <2>1 DEF OverallIsOfScores
    <2> QED
        BY <2>3, <2>4 DEF CompletedIsWhole
<1> QED
    BY <1>1, EvalInitInv, EvalStepInv, PTL DEF EvaluationSpec

-----------------------------------------------------------------------------
(* The novel library.  A row has its columns, and its index is a number.   *)

NovelFields == {"kind", "project", "parent", "index", "auto", "slug", "draft", "final",
                "words", "summary", "version", "status"}
IsNovelRow(row) == DOMAIN row = NovelFields /\ row.index \in Int /\ row.auto \in BOOLEAN
NovelShape == IsTable(novel) /\ \A i \in DOMAIN novel : IsNovelRow(novel[i])

NovelInv == NovelShape /\ LibrarySound

\* A row has kind, project and parent as the tree wants them.
Planted(row) ==
    /\ row.kind # "project" => HasRow("project", row.project)
    /\ row.kind = "chapter" /\ row.parent # None =>
         HasRow("volume", row.parent) /\ novel[row.parent].project = row.project
    /\ row.kind = "scene" =>
         HasRow("chapter", row.parent) /\ novel[row.parent].project = row.project

\* Two rows are numbered among the same rows.
Siblings(a, b) ==
    a.kind = b.kind /\ a.project = b.project /\ (a.kind = "scene" => a.parent = b.parent)

\* Among finitely many rows one has the greatest number.
LEMMA GreatestRow ==
    ASSUME NEW top \in Nat, NEW f, \A i \in 1..top : f[i] \in Int,
           NEW I \in SUBSET (1..top), I # {}
    PROVE  \E x \in I : \A y \in I : f[x] >= f[y]
<1> DEFINE HasTop(J) == \E x \in J : \A y \in J : f[x] >= f[y]
           Bad == {n \in 0..top : \E J \in SUBSET (1..n) : J # {} /\ ~ HasTop(J)}
<1>a. HasTop(I) <=> \E x \in I : \A y \in I : f[x] >= f[y]
    OBVIOUS
<1> HIDE DEF HasTop
<1>b. \A n : n \in Bad <=> n \in 0..top /\ \E J \in SUBSET (1..n) : J # {} /\ ~ HasTop(J)
    OBVIOUS
<1> HIDE DEF Bad
<1>1. SUFFICES ASSUME Bad # {} PROVE FALSE
    <2>1. top \in 0..top
        OBVIOUS
    <2>2. top \notin Bad
        OBVIOUS
    <2> QED
        BY <1>a, <1>b, <2>1, <2>2
<1>2. Bad \in SUBSET Nat
    BY <1>b
<1>3. PICK m \in Bad : m = Min(Bad)
    BY <1>1, <1>2, MinExists
<1>4. m \in 0..top /\ (\A n \in Bad : m =< n)
    BY <1>1, <1>2, <1>3, <1>b, MinExists
<1>5. PICK J \in SUBSET (1..m) : J # {} /\ ~ HasTop(J)
    BY <1>3, <1>b
<1>6. m >= 1
    <2>1. PICK j \in J : TRUE
        BY <1>5
    <2>2. j \in 1..m
        BY <1>5
    <2> QED
        BY <1>4, <2>2
<1>7. m - 1 \notin Bad /\ m - 1 \in 0..top
    BY <1>4, <1>6, <1>2
<1>8. \A K \in SUBSET (1..(m - 1)) : K # {} => HasTop(K)
    BY <1>7, <1>b
<1>9. J \ {m} \in SUBSET (1..(m - 1))
    BY <1>4, <1>5, <1>6
<1>10. \A i \in J : f[i] \in Int
    BY <1>4, <1>5
<1>11. CASE m \notin J
    <2>1. J \ {m} = J
        BY <1>11
    <2> QED
        BY <2>1, <1>5, <1>8, <1>9
<1>12. CASE m \in J /\ J \ {m} = {}
    <2>1. \A y \in J : f[m] >= f[y]
        BY <1>12, <1>10
    <2> QED
        BY <2>1, <1>5, <1>12 DEF HasTop
<1>13. CASE m \in J /\ J \ {m} # {}
    <2>1. PICK x \in J \ {m} : \A y \in J \ {m} : f[x] >= f[y]
        BY <1>8, <1>9, <1>13 DEF HasTop
    <2>2. CASE f[m] >= f[x]
        <3>1. \A y \in J : f[m] >= f[y]
            BY <2>1, <2>2, <1>10, <1>13
        <3> QED
            BY <3>1, <1>5, <1>13 DEF HasTop
    <2>3. CASE ~ (f[m] >= f[x])
        <3>1. \A y \in J : f[x] >= f[y]
            BY <2>1, <2>3, <1>10, <1>13
        <3> QED
            BY <3>1, <2>1, <1>5 DEF HasTop
    <2> QED
        BY <2>2, <2>3
<1> QED
    BY <1>11, <1>12, <1>13

\* next_index answers a number above those of all the rows it looks at.
LEMMA NextIndexAbove ==
    ASSUME NovelShape, NEW ids \in SUBSET DOMAIN novel
    PROVE  /\ NextIndex(ids) \in Int
           /\ \A i \in ids : novel[i].index < NextIndex(ids)
<1>1. DOMAIN novel = 1..Len(novel) /\ Len(novel) \in Nat
    BY TableAppend DEF NovelShape
<1>2. CASE ids = {}
    BY <1>2 DEF NextIndex
<1>3. CASE ids # {}
    <2> DEFINE f == [i \in DOMAIN novel |-> novel[i].index]
               S == {novel[i].index : i \in ids}
    <2>1. \A i \in 1..Len(novel) : f[i] \in Int
        BY <1>1 DEF NovelShape, IsNovelRow
    <2>2. \E x \in ids : \A y \in ids : f[x] >= f[y]
        <3> HIDE DEF f
        <3> QED
            BY <1>1, <1>3, <2>1, GreatestRow
    <2>3. \E a \in S : \A b \in S : a >= b
        BY <2>2
    <2>4. Max(S) \in S /\ \A b \in S : Max(S) >= b
        <3> HIDE DEF S
        <3> QED
            BY <2>3 DEF Max
    <2>5. S \in SUBSET Int
        BY DEF NovelShape, IsNovelRow
    <2>6. NextIndex(ids) = 1 + Max(S)
        BY <1>3 DEF NextIndex
    <2>7. \A i \in ids : novel[i].index \in S
        OBVIOUS
    <2> HIDE DEF S, f
    <2>8. \A i \in ids : Max(S) >= novel[i].index /\ novel[i].index \in Int
        BY <2>4, <2>5, <2>7
    <2>9. Max(S) \in Int
        BY <2>4, <2>5
    <2> QED
        BY <2>6, <2>8, <2>9
<1> QED
    BY <1>2, <1>3

\* A new row that is planted, and that shares a number the service chose with none of
\* its siblings, keeps the library a sound one.
LEMMA NewRowKeeps ==
    ASSUME NovelInv, NEW row, IsNovelRow(row), Insert(row), Planted(row),
           row.auto => \A i \in DOMAIN novel : Siblings(novel[i], row) => novel[i].index # row.index
    PROVE  NovelInv'
<1> DEFINE new == Len(novel) + 1
<1>1. /\ IsTable(novel') /\ Len(novel) \in Nat /\ DOMAIN novel = 1..Len(novel)
      /\ DOMAIN novel' = 1..new
      /\ \A i \in DOMAIN novel : novel'[i] = novel[i]
      /\ novel'[new] = row
    BY TableAppend DEF Insert, NovelInv, NovelShape
<1>2. 1..new = 1..Len(novel) \union {new} /\ new \notin DOMAIN novel
    BY <1>1
<1>3. DOMAIN novel' = DOMAIN novel \union {new}
    BY <1>1, <1>2
<1> HIDE DEF new
<1>4. NovelShape'
    BY <1>1, <1>3 DEF NovelInv, NovelShape, IsNovelRow
<1>5. \A k, i : HasRow(k, i) => i \in DOMAIN novel' /\ novel'[i].kind = k /\ novel'[i] = novel[i]
    BY <1>1, <1>3 DEF HasRow
<1>6. NovelTree'
    <2> SUFFICES ASSUME NEW i \in DOMAIN novel'
                 PROVE  Planted(novel[i])'
        BY DEF NovelTree, Planted
    <2>1. Planted(novel'[i])
        <3>1. CASE i = new
            BY <3>1, <1>1
        <3>2. CASE i \in DOMAIN novel
            BY <3>2, <1>1 DEF NovelInv, LibrarySound, NovelTree, Planted
        <3> QED
            BY <3>1, <3>2, <1>3
    <2> QED
        BY <2>1, <1>5 DEF Planted, HasRow
<1>7. AutoNumbersDiffer'
    <2> SUFFICES ASSUME NEW i \in DOMAIN novel', NEW j \in DOMAIN novel', i # j,
                        novel'[i].auto, novel'[j].auto,
                        novel'[i].kind = novel'[j].kind, novel'[i].project = novel'[j].project,
                        novel'[i].kind = "scene" => novel'[i].parent = novel'[j].parent
                 PROVE  novel'[i].index # novel'[j].index
        BY DEF AutoNumbersDiffer
    <2>1. CASE i \in DOMAIN novel /\ j \in DOMAIN novel
        BY <2>1, <1>1 DEF NovelInv, LibrarySound, AutoNumbersDiffer
    <2>2. CASE i = new /\ j \in DOMAIN novel
        BY <2>2, <1>1 DEF Siblings
    <2>3. CASE j = new /\ i \in DOMAIN novel
        BY <2>3, <1>1 DEF Siblings
    <2> QED
        BY <2>1, <2>2, <2>3, <1>3
<1> QED
    BY <1>4, <1>6, <1>7 DEF NovelInv, LibrarySound

\* A write that keeps a row's kind and project, that moves only a chapter and only to a
\* volume that fits, and that renumbers a row only by its author's number, keeps the
\* library a sound one.
LEMMA ChangedRowKeeps ==
    ASSUME NovelInv, NEW i \in DOMAIN novel, NEW changes, Write(i, changes),
           DOMAIN changes \in SUBSET (NovelFields \ {"kind", "project"}),
           "parent" \in DOMAIN changes =>
             novel[i].kind = "chapter" /\ FitsVolume(changes.parent, novel[i].project),
           "index" \in DOMAIN changes <=> "auto" \in DOMAIN changes,
           "index" \in DOMAIN changes =>
             /\ changes.index \in Int /\ changes.auto \in BOOLEAN
             /\ changes.auto => novel[i].auto /\ changes.index = novel[i].index
    PROVE  NovelInv'
<1> DEFINE row == Joined(changes, novel[i])
<1>1. novel' = [novel EXCEPT ![i] = row]
    BY DEF Write
<1>2. DOMAIN novel[i] = NovelFields /\ novel[i].index \in Int /\ novel[i].auto \in BOOLEAN
    BY DEF NovelInv, NovelShape, IsNovelRow
<1>3. /\ DOMAIN row = NovelFields
      /\ \A x \in NovelFields : row[x] = IF x \in DOMAIN changes THEN changes[x] ELSE novel[i][x]
    BY <1>2 DEF Joined
<1>4. /\ row.kind = novel[i].kind /\ row.project = novel[i].project
      /\ row.parent # novel[i].parent =>
           row.kind = "chapter" /\ FitsVolume(row.parent, row.project)
      /\ row.index \in Int /\ row.auto \in BOOLEAN
      /\ row.auto => novel[i].auto /\ row.index = novel[i].index
    BY <1>2, <1>3 DEF NovelFields
<1>5. IsNovelRow(row)
    BY <1>3, <1>4 DEF IsNovelRow
<1> HIDE DEF row
<1>6. /\ IsTable(novel') /\ DOMAIN novel' = DOMAIN novel
      /\ novel'[i] = row
      /\ \A j \in DOMAIN novel : j # i => novel'[j] = novel[j]
    BY <1>1, TableExcept DEF NovelInv, NovelShape
<1>7. NovelShape'
    BY <1>5, <1>6 DEF NovelInv, NovelShape, IsNovelRow
<1>8. \A j \in DOMAIN novel :
        /\ novel'[j].kind = novel[j].kind /\ novel'[j].project = novel[j].project
        /\ novel'[j].kind # "chapter" => novel'[j].parent = novel[j].parent
        /\ novel'[j].auto => novel[j].auto /\ novel'[j].index = novel[j].index
    BY <1>4, <1>6
<1>9. \A k, j : HasRow(k, j) =>
        j \in DOMAIN novel' /\ novel'[j].kind = k /\ novel'[j].project = novel[j].project
    BY <1>6, <1>8 DEF HasRow
<1>10. NovelTree'
    <2> SUFFICES ASSUME NEW j \in DOMAIN novel'
                 PROVE  Planted(novel[j])'
        BY DEF NovelTree, Planted
    <2>1. j \in DOMAIN novel
        BY <1>6
    <2>2. Planted(novel[j])
        BY <2>1 DEF NovelInv, LibrarySound, NovelTree, Planted
    <2>3. Planted(novel'[j])
        <3>1. CASE novel'[j].parent = novel[j].parent
            BY <3>1, <2>1, <2>2, <1>8 DEF Planted
        <3>2. CASE novel'[j].parent # novel[j].parent
            <4>1. j = i /\ novel'[j] = row
                BY <3>2, <2>1, <1>6
            <4>2. row.kind = "chapter" /\ FitsVolume(row.parent, row.project)
                BY <4>1, <3>2, <1>4
            <4> QED
                BY <4>1, <4>2, <2>2, <1>4 DEF Planted, FitsVolume, Live
        <3> QED
            BY <3>1, <3>2
    <2> QED
        BY <2>3, <1>9 DEF Planted, HasRow
<1>11. AutoNumbersDiffer'
    <2> SUFFICES ASSUME NEW a \in DOMAIN novel', NEW b \in DOMAIN novel', a # b,
                        novel'[a].auto, novel'[b].auto,
                        novel'[a].kind = novel'[b].kind, novel'[a].project = novel'[b].project,
                        novel'[a].kind = "scene" => novel'[a].parent = novel'[b].parent
                 PROVE  novel'[a].index # novel'[b].index
        BY DEF AutoNumbersDiffer
    <2>1. a \in DOMAIN novel /\ b \in DOMAIN novel
        BY <1>6
    <2> QED
        BY <2>1, <1>8 DEF NovelInv, LibrarySound, AutoNumbersDiffer
<1> QED
    BY <1>7, <1>10, <1>11 DEF NovelInv, LibrarySound

\* A numbered row is the row it was but for its number, and a number the service chose is
\* no sibling's.
LEMMA NumberedFacts ==
    ASSUME NovelShape, NEW row, IsNovelRow(row), ~ row.auto, NEW ids \in SUBSET DOMAIN novel,
           NEW given \in Indexes \union {None},
           \A i \in DOMAIN novel : Siblings(novel[i], row) => i \in ids
    PROVE  /\ IsNovelRow(Numbered(row, given, ids))
           /\ Planted(row) => Planted(Numbered(row, given, ids))
           /\ Numbered(row, given, ids).auto =>
                \A i \in DOMAIN novel : Siblings(novel[i], Numbered(row, given, ids)) =>
                                          novel[i].index # Numbered(row, given, ids).index
<1> DEFINE number == IF given = None THEN NextIndex(ids) ELSE given
           new == Numbered(row, given, ids)
<1>1. number \in Int
    BY NextIndexAbove, NovelAssumption
<1>2. given = None => \A i \in ids : novel[i].index # number
    <2>1. \A i \in ids : novel[i].index \in Int
        BY DEF NovelShape, IsNovelRow
    <2> QED
        BY <2>1, NextIndexAbove
<1>3. new = [row EXCEPT !.index = number, !.auto = (given = None)]
    BY DEF Numbered
<1> HIDE DEF number, new
<1>4. /\ DOMAIN new = NovelFields /\ new.index = number /\ new.auto = (given = None)
      /\ new.kind = row.kind /\ new.project = row.project /\ new.parent = row.parent
    BY <1>3 DEF IsNovelRow, NovelFields
<1>5. IsNovelRow(new)
    BY <1>1, <1>4 DEF IsNovelRow
<1>6. Planted(row) => Planted(new)
    BY <1>4 DEF Planted
<1>7. \A i \in DOMAIN novel : Siblings(novel[i], new) => i \in ids
    BY <1>4 DEF Siblings
<1>8. new.auto => \A i \in DOMAIN novel : Siblings(novel[i], new) => novel[i].index # new.index
    BY <1>2, <1>4, <1>7
<1> QED
    BY <1>5, <1>6, <1>8 DEF new

\* The rows that NextIndex looks at are rows of the library.
LEMMA OfRows ==
    ASSUME NEW k, NEW p
    PROVE  /\ Of(k, p) \in SUBSET DOMAIN novel
           /\ \A i \in DOMAIN novel : i \in Of(k, p) <=> novel[i].kind = k /\ novel[i].project = p
BY DEF Of

-----------------------------------------------------------------------------
(* One lemma per kind of row                                               *)

LEMMA CreateProjectKeeps ==
    ASSUME NovelInv, NEW slug, CreateProject(slug)
    PROVE  NovelInv'
<1> DEFINE row == ProjectRow(slug)
<1>1. IsNovelRow(row) /\ row.kind = "project" /\ ~ row.auto
    BY DEF ProjectRow, Blank, IsNovelRow, NovelFields
<1>2. Insert(row)
    BY DEF CreateProject
<1> HIDE DEF row
<1>3. Planted(row)
    BY <1>1 DEF Planted
<1> QED
    BY <1>1, <1>2, <1>3, NewRowKeeps

LEMMA CreateVolumeKeeps ==
    ASSUME NovelInv, NEW p, NEW given \in Indexes \union {None}, NEW s, CreateVolume(p, given, s)
    PROVE  NovelInv'
<1> DEFINE blank == [Blank("volume", p) EXCEPT !.status = s]
           row == Numbered(blank, given, Of("volume", p))
<1>1. IsNovelRow(blank) /\ blank.kind = "volume" /\ blank.project = p /\ ~ blank.auto
    BY DEF Blank, IsNovelRow, NovelFields
<1>2. Insert(row) /\ HasRow("project", p)
    BY DEF CreateVolume, VolumeRow, Live
<1> HIDE DEF blank
<1>3. Planted(blank)
    BY <1>1, <1>2 DEF Planted
<1>4. \A i \in DOMAIN novel : Siblings(novel[i], blank) => i \in Of("volume", p)
    BY <1>1, OfRows DEF Siblings
<1>5. NovelShape
    BY DEF NovelInv
<1>6. IsNovelRow(row) /\ Planted(row)
      /\ (row.auto => \A i \in DOMAIN novel : Siblings(novel[i], row) => novel[i].index # row.index)
    BY <1>1, <1>3, <1>4, <1>5, OfRows, NumberedFacts
<1> HIDE DEF row
<1> QED
    BY <1>2, <1>6, NewRowKeeps

LEMMA CreateTimelineEventKeeps ==
    ASSUME NovelInv, NEW p, NEW given \in Indexes \union {None}, NEW text, NEW s,
           CreateTimelineEvent(p, given, text, s)
    PROVE  NovelInv'
<1> DEFINE blank == [Blank("event", p) EXCEPT !.draft = text, !.status = s]
           row == Numbered(blank, given, Of("event", p))
<1>1. IsNovelRow(blank) /\ blank.kind = "event" /\ blank.project = p /\ ~ blank.auto
    BY DEF Blank, IsNovelRow, NovelFields
<1>2. Insert(row) /\ HasRow("project", p)
    BY DEF CreateTimelineEvent, TimelineRow, Live
<1> HIDE DEF blank
<1>3. Planted(blank)
    BY <1>1, <1>2 DEF Planted
<1>4. \A i \in DOMAIN novel : Siblings(novel[i], blank) => i \in Of("event", p)
    BY <1>1, OfRows DEF Siblings
<1>5. NovelShape
    BY DEF NovelInv
<1>6. IsNovelRow(row) /\ Planted(row)
      /\ (row.auto => \A i \in DOMAIN novel : Siblings(novel[i], row) => novel[i].index # row.index)
    BY <1>1, <1>3, <1>4, <1>5, OfRows, NumberedFacts
<1> HIDE DEF row
<1> QED
    BY <1>2, <1>6, NewRowKeeps

LEMMA CreateChapterKeeps ==
    ASSUME NovelInv, NEW p, NEW v, NEW given \in Indexes \union {None}, NEW draft, NEW final,
           NEW s, CreateChapter(p, v, given, draft, final, s)
    PROVE  NovelInv'
<1> DEFINE words == WordCount(IF final # <<>> THEN final ELSE draft)
<1>w. PICK n : n = words
    OBVIOUS
<1> DEFINE blank == [Blank("chapter", p) EXCEPT !.parent = v, !.draft = draft, !.final = final,
                                                !.words = n, !.status = s]
           row == Numbered(blank, given, Of("chapter", p))
<1>1. /\ IsNovelRow(blank) /\ blank.kind = "chapter" /\ blank.project = p /\ ~ blank.auto
      /\ blank.parent \in {None, v}
    BY DEF Blank, IsNovelRow, NovelFields
<1>2. Insert(row) /\ HasRow("project", p) /\ FitsVolume(v, p)
    BY <1>w DEF CreateChapter, ChapterRow, Live
<1> HIDE DEF blank
<1>3. Planted(blank)
    BY <1>1, <1>2 DEF Planted, FitsVolume, Live
<1>4. \A i \in DOMAIN novel : Siblings(novel[i], blank) => i \in Of("chapter", p)
    BY <1>1, OfRows DEF Siblings
<1>5. NovelShape
    BY DEF NovelInv
<1>6. IsNovelRow(row) /\ Planted(row)
      /\ (row.auto => \A i \in DOMAIN novel : Siblings(novel[i], row) => novel[i].index # row.index)
    BY <1>1, <1>3, <1>4, <1>5, OfRows, NumberedFacts
<1> HIDE DEF row
<1> QED
    BY <1>2, <1>6, NewRowKeeps

\* The scene's project is its chapter's, and the tree has it.
LEMMA CreateSceneKeeps ==
    ASSUME NovelInv, NEW c \in DOMAIN novel, NEW given \in Indexes \union {None}, NEW text, NEW s,
           CreateScene(c, given, text, s)
    PROVE  NovelInv'
<1>p. PICK p : p = novel[c].project
    OBVIOUS
<1> DEFINE blank == [Blank("scene", p) EXCEPT !.parent = c, !.draft = text, !.status = s]
           ids == {i \in Of("scene", p) : novel[i].parent = c}
           row == Numbered(blank, given, ids)
<1>1. /\ IsNovelRow(blank) /\ blank.kind = "scene" /\ blank.project = p /\ ~ blank.auto
    BY DEF Blank, IsNovelRow, NovelFields
<1>a. blank.parent = c
    BY DEF Blank
<1>2. Insert(row) /\ HasRow("chapter", c)
    BY <1>p DEF CreateScene, SceneRow, Live
<1>b. HasRow("project", p)
    BY <1>2, <1>p DEF NovelInv, LibrarySound, NovelTree, HasRow
<1> HIDE DEF blank
<1>3. Planted(blank)
    BY <1>1, <1>2, <1>a, <1>b, <1>p DEF Planted
<1>4. \A i \in DOMAIN novel : Siblings(novel[i], blank) => i \in ids
    BY <1>1, <1>a, OfRows DEF Siblings
<1>5. NovelShape
    BY DEF NovelInv
<1>c. ids \in SUBSET DOMAIN novel
    BY OfRows
<1>6. IsNovelRow(row) /\ Planted(row)
      /\ (row.auto => \A i \in DOMAIN novel : Siblings(novel[i], row) => novel[i].index # row.index)
    <2> HIDE DEF ids
    <2> QED
        BY <1>1, <1>3, <1>4, <1>5, <1>c, NumberedFacts
<1> HIDE DEF row
<1> QED
    BY <1>2, <1>6, NewRowKeeps

LEMMA CreateEntryKeeps ==
    ASSUME NovelInv, NEW p, NEW text, NEW s,
           \/ CreateCharacter(p, text, s)
           \/ CreateWorldEntry(p, text, s)
           \/ CreatePlotThread(p, text, s)
    PROVE  NovelInv'
<1>1. PICK k \in {"character", "world", "thread"} :
        /\ HasRow("project", p)
        /\ Insert([Blank(k, p) EXCEPT !.draft = text, !.status = s])
    BY DEF CreateCharacter, CreateWorldEntry, CreatePlotThread, CharacterRow, WorldEntryRow,
           PlotThreadRow, Live
<1> DEFINE row == [Blank(k, p) EXCEPT !.draft = text, !.status = s]
<1>2. IsNovelRow(row) /\ row.kind = k /\ row.project = p /\ ~ row.auto
    BY DEF Blank, IsNovelRow, NovelFields
<1> HIDE DEF row
<1>3. Planted(row)
    BY <1>1, <1>2 DEF Planted
<1> QED
    BY <1>1, <1>2, <1>3, NewRowKeeps DEF row

\* A PATCH of the index keeps a number the service chose or puts the author's in its place.
LEMMA RenumberedFacts ==
    ASSUME NovelInv, NEW i \in DOMAIN novel, NEW given \in Indexes \union {None}, NEW changes,
           DOMAIN changes \in SUBSET {"draft", "status"}
    PROVE  LET all == Joined(changes, Renumbered(i, given)) IN
           /\ DOMAIN all \in SUBSET {"draft", "status", "index", "auto"}
           /\ "index" \in DOMAIN all /\ "auto" \in DOMAIN all
           /\ all.index \in Int /\ all.auto \in BOOLEAN
           /\ all.auto => novel[i].auto /\ all.index = novel[i].index
<1>1. novel[i].index \in Int /\ novel[i].auto \in BOOLEAN
    BY DEF NovelInv, NovelShape, IsNovelRow
<1> DEFINE two == Renumbered(i, given)
           all == Joined(changes, two)
<1>2. /\ DOMAIN two = {"index", "auto"}
      /\ two.index = IF given = None THEN novel[i].index ELSE given
      /\ two.auto = (given = None /\ novel[i].auto)
    BY DEF Renumbered
<1> HIDE DEF two
<1>3. /\ DOMAIN all = DOMAIN changes \union {"index", "auto"}
      /\ all.index = two.index /\ all.auto = two.auto
    BY <1>2 DEF Joined
<1> HIDE DEF all
<1>4. /\ DOMAIN all \in SUBSET {"draft", "status", "index", "auto"}
      /\ "index" \in DOMAIN all /\ "auto" \in DOMAIN all
      /\ all.index \in Int /\ all.auto \in BOOLEAN
      /\ all.auto => novel[i].auto /\ all.index = novel[i].index
    BY <1>1, <1>2, <1>3, NovelAssumption
<1> QED
    BY <1>4 DEF all, two

LEMMA RenumberKeeps ==
    ASSUME NovelInv, NEW i \in DOMAIN novel, NEW given \in Indexes \union {None}, NEW text, NEW s,
           \/ UpdateVolume(i, given, s)
           \/ UpdateChapter(i, given, s)
           \/ UpdateScene(i, given, text, s)
           \/ UpdateTimelineEvent(i, given, text, s)
    PROVE  NovelInv'
<1>1. PICK changes \in {[status |-> s], [draft |-> text, status |-> s]} :
        Write(i, Joined(changes, Renumbered(i, given)))
    BY DEF UpdateVolume, UpdateChapter, UpdateScene, UpdateTimelineEvent
<1>2. DOMAIN changes \in SUBSET {"draft", "status"}
    OBVIOUS
<1> DEFINE all == Joined(changes, Renumbered(i, given))
<1>3. /\ DOMAIN all \in SUBSET {"draft", "status", "index", "auto"}
      /\ "index" \in DOMAIN all /\ "auto" \in DOMAIN all
      /\ all.index \in Int /\ all.auto \in BOOLEAN
      /\ all.auto => novel[i].auto /\ all.index = novel[i].index
    BY <1>2, RenumberedFacts
<1>4. Write(i, all)
    BY <1>1
<1> HIDE DEF all
<1>5. DOMAIN all \in SUBSET (NovelFields \ {"kind", "project"}) /\ "parent" \notin DOMAIN all
    BY <1>3 DEF NovelFields
<1> QED
    BY <1>3, <1>4, <1>5, ChangedRowKeeps

\* The other writes leave the place and the number of the row alone.
LEMMA OtherColumnsKeep ==
    ASSUME NovelInv, NEW i \in DOMAIN novel, NEW changes, Write(i, changes),
           DOMAIN changes \in SUBSET {"draft", "final", "words", "summary", "version", "status"}
    PROVE  NovelInv'
<1>1. /\ DOMAIN changes \in SUBSET (NovelFields \ {"kind", "project"})
      /\ "parent" \notin DOMAIN changes /\ "index" \notin DOMAIN changes
      /\ "auto" \notin DOMAIN changes
    BY DEF NovelFields
<1> QED
    BY <1>1, ChangedRowKeeps

LEMMA MoveChapterKeeps ==
    ASSUME NovelInv, NEW i, NEW v, MoveChapter(i, v)
    PROVE  NovelInv'
<1> DEFINE changes == [parent |-> v]
<1>1. DOMAIN changes = {"parent"} /\ changes.parent = v
    OBVIOUS
<1>2. /\ i \in DOMAIN novel /\ novel[i].kind = "chapter" /\ Write(i, changes)
      /\ FitsVolume(changes.parent, novel[i].project)
    BY DEF MoveChapter, Live, HasRow
<1> HIDE DEF changes
<1>3. /\ DOMAIN changes \in SUBSET (NovelFields \ {"kind", "project"})
      /\ "index" \notin DOMAIN changes /\ "auto" \notin DOMAIN changes
    BY <1>1 DEF NovelFields
<1> QED
    BY <1>2, <1>3, ChangedRowKeeps

LEMMA UpdateTextKeeps ==
    ASSUME NovelInv, NEW i \in DOMAIN novel, NEW text, NEW final, NEW s,
           \/ UpdateProject(i, s)
           \/ UpdateCharacter(i, text, s) \/ UpdateWorldEntry(i, text, s)
           \/ UpdatePlotThread(i, text, s)
           \/ SummarizeChapter(i, text) \/ WriteChapter(i, text, final)
    PROVE  NovelInv'
<1>1. PICK changes \in {[status |-> s], [draft |-> text, status |-> s], [summary |-> text],
                        TextChanges(novel[i], text, final)} : Write(i, changes)
    BY DEF UpdateProject, UpdateCharacter, UpdateWorldEntry, UpdatePlotThread,
           SummarizeChapter, WriteChapter
<1>2. DOMAIN TextChanges(novel[i], text, final) = {"draft", "final", "version", "words"}
    BY DEF TextChanges
<1>3. DOMAIN changes \in SUBSET {"draft", "final", "words", "summary", "version", "status"}
    BY <1>2
<1> QED
    BY <1>1, <1>3, OtherColumnsKeep

LEMMA DeleteKeeps ==
    ASSUME NovelInv, NEW i \in DOMAIN novel, NEW k, SoftDelete(k, i)
    PROVE  NovelInv'
<1> DEFINE changes == [status |-> "deleted"]
<1>1. DOMAIN changes \in SUBSET {"draft", "final", "words", "summary", "version", "status"}
    OBVIOUS
<1>2. Write(i, changes)
    BY DEF SoftDelete
<1> HIDE DEF changes
<1> QED
    BY <1>1, <1>2, OtherColumnsKeep

\* Every operation of the library keeps it a sound one.
LEMMA NovelStepKeeps ==
    ASSUME NovelInv, NovelNext \/ UNCHANGED novel
    PROVE  NovelInv'
<1>1. CASE UNCHANGED novel
    BY <1>1 DEF NovelInv, NovelShape, LibrarySound, NovelTree, AutoNumbersDiffer, HasRow
<1>2. CASE \E slug \in Slugs : CreateProject(slug)
    BY <1>2, CreateProjectKeeps
<1>3. ASSUME NEW p \in DOMAIN novel, NEW n \in Indexes \union {None},
             NEW s \in {"live", "archived"},
             \/ CreateVolume(p, n, s)
             \/ \E t \in Drafts : CreateScene(p, n, t, s) \/ CreateTimelineEvent(p, n, t, s)
             \/ \E v \in DOMAIN novel \union {None}, t, f \in Drafts :
                  CreateChapter(p, v, n, t, f, s)
      PROVE  NovelInv'
    BY <1>3, CreateVolumeKeeps, CreateSceneKeeps, CreateTimelineEventKeeps, CreateChapterKeeps
<1>4. CASE \E p \in DOMAIN novel, t \in Drafts, s \in {"live", "archived"} :
             CreateCharacter(p, t, s) \/ CreateWorldEntry(p, t, s) \/ CreatePlotThread(p, t, s)
    BY <1>4, CreateEntryKeeps
<1>5. CASE \E i \in DOMAIN novel, v \in DOMAIN novel \union {None} : MoveChapter(i, v)
    BY <1>5, MoveChapterKeeps
<1>6. ASSUME NEW i \in DOMAIN novel, NEW n \in Indexes \union {None}, NEW s \in Statuses,
             \/ UpdateVolume(i, n, s) \/ UpdateChapter(i, n, s)
             \/ \E t \in Drafts : UpdateScene(i, n, t, s) \/ UpdateTimelineEvent(i, n, t, s)
      PROVE  NovelInv'
    BY <1>6, RenumberKeeps
<1>7. ASSUME NEW i \in DOMAIN novel, NEW t, NEW f, NEW s,
             \/ UpdateCharacter(i, t, s) \/ UpdateWorldEntry(i, t, s)
             \/ UpdatePlotThread(i, t, s) \/ UpdateProject(i, s)
             \/ SummarizeChapter(i, t) \/ WriteChapter(i, t, f)
      PROVE  NovelInv'
    BY <1>7, UpdateTextKeeps
<1>8. ASSUME NEW i \in DOMAIN novel,
             \/ DeleteProject(i) \/ DeleteVolume(i) \/ DeleteChapter(i) \/ DeleteScene(i)
             \/ DeleteCharacter(i) \/ DeleteWorldEntry(i) \/ DeletePlotThread(i)
             \/ DeleteTimelineEvent(i)
      PROVE  NovelInv'
    BY <1>8, DeleteKeeps DEF DeleteProject, DeleteVolume, DeleteChapter, DeleteScene,
       DeleteCharacter, DeleteWorldEntry, DeletePlotThread, DeleteTimelineEvent
<1> QED
    BY <1>1, <1>2, <1>3, <1>4, <1>5, <1>6, <1>7, <1>8 DEF NovelNext

\* The library stays a tree whose chosen numbers identify its rows: whatever was created,
\* moved, renumbered by its author, deleted or revived, a chapter's volume and a scene's
\* chapter are rows of its own project, and no two rows share a number the service chose.
THEOREM LibraryStaysSound == NovelSpec => []LibrarySound
<1>1. NovelInit => NovelInv
    <2> SUFFICES ASSUME NovelInit PROVE NovelInv
        OBVIOUS
    <2>1. DOMAIN novel = {} /\ IsTable(novel)
        BY DEF NovelInit, IsTable
    <2> QED
        BY <2>1 DEF NovelInv, NovelShape, LibrarySound, NovelTree, AutoNumbersDiffer
<1>2. NovelInv /\ [NovelNext]_novel => NovelInv'
    BY NovelStepKeeps
<1>3. NovelInv => LibrarySound
    BY DEF NovelInv
<1> QED
    BY <1>1, <1>2, <1>3, PTL DEF NovelSpec

\* Induction, as a fact about sets of numbers.
LEMMA AllNumbers ==
    ASSUME NEW S \in SUBSET Nat, 0 \in S, \A n \in S : n + 1 \in S
    PROVE  \A n \in Nat : n \in S
<1> DEFINE Out == Nat \ S
<1>1. SUFFICES ASSUME Out # {} PROVE FALSE
    OBVIOUS
<1>2. Out \in SUBSET Nat
    OBVIOUS
<1>3. PICK m \in Out : \A y \in Out : m =< y
    <2> HIDE DEF Out
    <2> QED
        BY <1>1, <1>2, MinExists
<1>4. m \in Nat /\ m # 0 /\ m \notin S
    OBVIOUS
<1>5. m - 1 \in Nat /\ m - 1 \notin Out
    BY <1>3, <1>4
<1>6. m - 1 \in S
    BY <1>5
<1>7. (m - 1) + 1 \in S
    BY <1>6
<1>8. (m - 1) + 1 = m
    BY <1>4
<1> QED
    BY <1>4, <1>7, <1>8

-----------------------------------------------------------------------------
(* The long-term memory: the documents as the upserts of a build change    *)
(* them, and the summaries.                                                *)

DocumentFields == {"key", "content", "status", "index"}
IsDocument(row) == DOMAIN row = DocumentFields /\ row.status \in DocumentStatuses
DocumentsSound(ds) == IsTable(ds) /\ \A d \in DOMAIN ds : IsDocument(ds[d])

\* The oldest document of a source holds its text, and was not forgotten.
Tells(ds, x) ==
    \E d \in SameSource(ds, x.key) :
      /\ \A e \in SameSource(ds, x.key) : d =< e
      /\ ds[d].content = x.content /\ ds[d].status \in {"active", "archived"}

\* What is archived was archived before, with the text it has.
Shelved(old, ds) ==
    \A d \in DOMAIN ds : ds[d].status = "archived" =>
      d \in DOMAIN old /\ old[d].status = "archived" /\ old[d].content = ds[d].content

SummaryFields == {"chapter", "type", "text", "status", "activated"}
IsSummary(row) == DOMAIN row = SummaryFields /\ row.activated \in BOOLEAN
Speaks(row) == row.status = "active" /\ row.activated
SummariesSound(rows) ==
    /\ IsTable(rows) /\ \A s \in DOMAIN rows : IsSummary(rows[s])
    /\ \A s, t \in DOMAIN rows :
         s # t /\ rows[s].chapter = rows[t].chapter /\ rows[s].type = rows[t].type =>
           ~ (Speaks(rows[s]) /\ Speaks(rows[t]))

MemoryInv == DocumentsSound(doc) /\ SummariesSound(summary)

LEMMA RebuiltIs ==
    ASSUME NEW row, IsDocument(row)
    PROVE  /\ IsDocument(Rebuilt(row))
           /\ Rebuilt(row).key = row.key /\ Rebuilt(row).content = row.content
           /\ Rebuilt(row).index = row.content
           /\ Rebuilt(row).status = "active" => row.status \in {"active", "stale"}
BY DEF Rebuilt, IsDocument, DocumentFields, DocumentStatuses

LEMMA EmptiedIs ==
    ASSUME NEW row, IsDocument(row)
    PROVE  IsDocument(Emptied(row))
BY DEF Emptied, IsDocument, DocumentFields

LEMMA InsertedIs ==
    ASSUME NEW ds, DocumentsSound(ds), NEW row, IsDocument(row)
    PROVE  DocumentsSound(Append(ds, row))
<1> DEFINE new == Append(ds, row)
<1>1. /\ IsTable(new) /\ Len(ds) \in Nat /\ DOMAIN ds = 1..Len(ds)
      /\ DOMAIN new = 1..(Len(ds) + 1)
      /\ \A d \in DOMAIN ds : new[d] = ds[d]
      /\ new[Len(ds) + 1] = row
    BY TableAppend DEF DocumentsSound
<1>2. \A d \in DOMAIN new : d \in DOMAIN ds \/ d = Len(ds) + 1
    BY <1>1
<1> HIDE DEF new
<1> QED
    BY <1>1, <1>2 DEF DocumentsSound, new

LEMMA ChangedIs ==
    ASSUME NEW ds, DocumentsSound(ds), NEW d \in DOMAIN ds, NEW row, IsDocument(row)
    PROVE  DocumentsSound([ds EXCEPT ![d] = row])
<1> DEFINE new == [ds EXCEPT ![d] = row]
<1>1. IsTable(new) /\ DOMAIN new = DOMAIN ds
    BY TableExcept DEF DocumentsSound
<1>2. \A e \in DOMAIN ds : new[e] = IF e = d THEN row ELSE ds[e]
    OBVIOUS
<1> HIDE DEF new
<1> QED
    BY <1>1, <1>2 DEF DocumentsSound, new

\* What an upsert does: a new document behind the others, or the oldest of
\* its source with another text and status.
UpsertsAt(ds, x, new, d) ==
    /\ d \in Nat /\ DOMAIN new = DOMAIN ds \cup {d}
    /\ d \notin DOMAIN ds => SameSource(ds, x.key) = {}
    /\ \A e \in SameSource(ds, x.key) : d =< e
    /\ \A e \in DOMAIN ds : e # d => new[e] = ds[e]
    /\ d \in DOMAIN ds => d \in SameSource(ds, x.key)
    /\ new[d].key = x.key /\ new[d].content = x.content
    /\ new[d].status \in {"active", "archived"}
    /\ new[d].status = "archived" =>
         d \in DOMAIN ds /\ ds[d].status = "archived" /\ ds[d].content = x.content

LEMMA UpsertIs ==
    ASSUME NEW ds, DocumentsSound(ds), NEW x
    PROVE  DocumentsSound(Upsert(ds, x)) /\ \E d : UpsertsAt(ds, x, Upsert(ds, x), d)
<1>1. CASE SameSource(ds, x.key) = {}
    <2> DEFINE row == [key |-> x.key, content |-> x.content, status |-> "active", index |-> <<>>]
               new == Append(ds, row)
               d == Len(ds) + 1
    <2>1. /\ IsDocument(row) /\ row.key = x.key /\ row.content = x.content /\ row.status = "active"
        BY DEF IsDocument, DocumentFields, DocumentStatuses
    <2>2. Upsert(ds, x) = new
        BY <1>1 DEF Upsert, InsertDocument
    <2> HIDE DEF row
    <2>3. DocumentsSound(new)
        BY <2>1, InsertedIs
    <2>4. /\ Len(ds) \in Nat /\ DOMAIN ds = 1..Len(ds) /\ DOMAIN new = 1..(Len(ds) + 1)
          /\ \A e \in DOMAIN ds : new[e] = ds[e]
          /\ new[Len(ds) + 1] = row
        BY TableAppend DEF DocumentsSound
    <2> HIDE DEF new
    <2>5. d \in Nat /\ d \notin DOMAIN ds /\ DOMAIN new = DOMAIN ds \cup {d} /\ new[d] = row
        BY <2>4
    <2> HIDE DEF d
    <2> QED
        <3>1. UpsertsAt(ds, x, new, d)
            BY <1>1, <2>1, <2>4, <2>5 DEF UpsertsAt
        <3> QED
            BY <2>2, <2>3, <3>1
<1>2. CASE SameSource(ds, x.key) # {}
    <2>1. SameSource(ds, x.key) \in SUBSET Nat
        <3>1. DOMAIN ds \in SUBSET Nat
            BY TableAppend DEF DocumentsSound
        <3> QED
            BY <3>1 DEF SameSource
    <2>2. PICK d : /\ d = Min(SameSource(ds, x.key)) /\ d \in SameSource(ds, x.key)
                   /\ \A e \in SameSource(ds, x.key) : d =< e
        BY <1>2, <2>1, MinExists
    <2>3. d \in DOMAIN ds /\ ds[d].status # "deleted" /\ ds[d].key = x.key /\ IsDocument(ds[d])
        BY <2>2 DEF SameSource, DocumentsSound
    <2> DEFINE changed == ds[d].content # x.content
               row == [ds[d] EXCEPT !.content = x.content,
                                    !.status = IF changed \/ @ = "stale" THEN "active" ELSE @]
               new == [ds EXCEPT ![d] = row]
    <2>4. /\ IsDocument(row) /\ row.key = x.key /\ row.content = x.content
          /\ row.status \in {"active", "archived"}
          /\ row.status = "archived" => ds[d].status = "archived" /\ ds[d].content = x.content
        BY <2>3 DEF IsDocument, DocumentFields, DocumentStatuses
    <2>5. Upsert(ds, x) = new
        BY <1>2, <2>2, <2>3 DEF Upsert
    <2> HIDE DEF row, changed
    <2>6. DocumentsSound(new)
        BY <2>3, <2>4, ChangedIs
    <2>7. DOMAIN new = DOMAIN ds \cup {d} /\ new[d] = row /\ \A e \in DOMAIN ds : e # d => new[e] = ds[e]
        BY <2>3
    <2>8. d \in Nat
        BY <2>1, <2>2
    <2> HIDE DEF new
    <2> QED
        <3>1. UpsertsAt(ds, x, new, d)
            BY <2>2, <2>3, <2>4, <2>7, <2>8 DEF UpsertsAt
        <3> QED
            BY <2>5, <2>6, <3>1
<1> QED
    BY <1>1, <1>2

LEMMA UpsertKeeps ==
    ASSUME NEW ds, DocumentsSound(ds), NEW x
    PROVE  DocumentsSound(Upsert(ds, x))
BY UpsertIs

\* An upsert brings in its source, and the others stay as they were told.
LEMMA UpsertTells ==
    ASSUME NEW ds, DocumentsSound(ds), NEW x
    PROVE  /\ Tells(Upsert(ds, x), x)
           /\ \A y : y.key # x.key /\ Tells(ds, y) => Tells(Upsert(ds, x), y)
           /\ \A old : Shelved(old, ds) => Shelved(old, Upsert(ds, x))
<1> DEFINE new == Upsert(ds, x)
<1>1. PICK d : UpsertsAt(ds, x, new, d)
    BY UpsertIs
<1> HIDE DEF new
<1>2. Tells(new, x)
    <2>1. d \in SameSource(new, x.key)
        BY <1>1 DEF SameSource, UpsertsAt
    <2>2. ASSUME NEW e \in SameSource(new, x.key) PROVE d =< e
        <3>1. CASE e = d
            BY <3>1, <1>1 DEF UpsertsAt
        <3>2. CASE e # d
            <4>1. e \in SameSource(ds, x.key)
                BY <3>2, <1>1 DEF SameSource, UpsertsAt
            <4> QED
                BY <4>1, <1>1 DEF UpsertsAt
        <3> QED
            BY <3>1, <3>2
    <2> QED
        BY <2>1, <2>2, <1>1 DEF Tells, UpsertsAt
<1>3. ASSUME NEW y, y.key # x.key, Tells(ds, y) PROVE Tells(new, y)
    <2>1. SameSource(new, y.key) = SameSource(ds, y.key) /\ d \notin SameSource(ds, y.key)
        BY <1>1, <1>3 DEF SameSource, UpsertsAt
    <2>2. \A e \in SameSource(ds, y.key) : new[e] = ds[e]
        BY <2>1, <1>1 DEF SameSource, UpsertsAt
    <2> QED
        BY <2>1, <2>2, <1>3 DEF Tells
<1>4. ASSUME NEW old, Shelved(old, ds) PROVE Shelved(old, new)
    <2> SUFFICES ASSUME NEW e \in DOMAIN new, new[e].status = "archived"
                 PROVE  e \in DOMAIN old /\ old[e].status = "archived" /\ old[e].content = new[e].content
        BY DEF Shelved
    <2> QED
        BY <1>1, <1>4 DEF Shelved, UpsertsAt
<1> QED
    BY <1>2, <1>3, <1>4 DEF new

\* There is one sequence of tables that starts with ds and goes on with the upserts.
LEMMA UpsertedGoesOn ==
    ASSUME NEW ds, NEW payloads
    PROVE  /\ Upserted(ds, payloads)[0] = ds
           /\ \A n \in Nat :
                Upserted(ds, payloads)[n + 1] = Upsert(Upserted(ds, payloads)[n], payloads[n + 1])
<1> DEFINE Upto(f, n) == /\ f[0] = ds
                         /\ \A k \in 1..n : f[k] = Upsert(f[k - 1], payloads[k])
           Reached == {n \in Nat : \E f : Upto(f, n)}
           Same == {n \in Nat : \A f, g, k : k \in Nat /\ k >= n /\ Upto(f, n) /\ Upto(g, k) => f[n] = g[n]}
           table == [n \in Nat |-> (CHOOSE f : Upto(f, n))[n]]
           Is(f) == f = [n \in Nat |-> IF n = 0 THEN ds ELSE Upsert(f[n - 1], payloads[n])]
<1>1. \A n \in Nat : n \in Reached
    <2>1. 0 \in Reached
        <3>1. Upto([k \in {0} |-> ds], 0)
            OBVIOUS
        <3> QED
            BY <3>1
    <2>2. ASSUME NEW n \in Reached PROVE n + 1 \in Reached
        <3>1. PICK f : Upto(f, n)
            OBVIOUS
        <3> DEFINE g == [k \in 0..(n + 1) |->
                           IF k = n + 1 THEN Upsert(f[n], payloads[n + 1]) ELSE f[k]]
        <3>2. n \in Nat /\ 0 \in 0..(n + 1) /\ n + 1 \in 0..(n + 1) /\ 0 # n + 1
            OBVIOUS
        <3>3. g[0] = ds
            BY <3>1, <3>2
        <3>4. ASSUME NEW k \in 1..(n + 1) PROVE g[k] = Upsert(g[k - 1], payloads[k])
            <4>1. CASE k = n + 1
                BY <4>1, <3>2
            <4>2. CASE k # n + 1
                <5>1. k \in 1..n /\ k \in 0..(n + 1) /\ k - 1 \in 0..(n + 1) /\ k - 1 # n + 1
                    BY <4>2, <3>2
                <5> QED
                    BY <5>1, <4>2, <3>1
            <4> QED
                BY <4>1, <4>2
        <3> HIDE DEF g
        <3>5. Upto(g, n + 1)
            BY <3>3, <3>4
        <3> QED
            BY <3>2, <3>5
    <2>3. Reached \in SUBSET Nat
        OBVIOUS
    <2> HIDE DEF Reached
    <2> QED
        BY <2>1, <2>2, <2>3, AllNumbers
<1>2. \A n \in Nat : n \in Same
    <2>1. 0 \in Same
        OBVIOUS
    <2>2. ASSUME NEW n \in Same PROVE n + 1 \in Same
        <3> SUFFICES ASSUME NEW f, NEW g, NEW k \in Nat, k >= n + 1, Upto(f, n + 1), Upto(g, k)
                     PROVE  f[n + 1] = g[n + 1]
            OBVIOUS
        <3>1. n \in Nat /\ k >= n
            OBVIOUS
        <3>2. Upto(f, n)
            BY <3>1
        <3>3. f[n] = g[n]
            BY <3>1, <3>2
        <3>4. n + 1 \in 1..(n + 1) /\ n + 1 \in 1..k /\ (n + 1) - 1 = n
            BY <3>1
        <3>5. f[n + 1] = Upsert(f[n], payloads[n + 1]) /\ g[n + 1] = Upsert(g[n], payloads[n + 1])
            BY <3>4
        <3> QED
            BY <3>3, <3>5
    <2>3. Same \in SUBSET Nat
        OBVIOUS
    <2> HIDE DEF Same
    <2> QED
        BY <2>1, <2>2, <2>3, AllNumbers
<1>3. \A n \in Nat : Upto(CHOOSE f : Upto(f, n), n)
    BY <1>1
<1>4. table[0] = ds
    <2>1. Upto(CHOOSE f : Upto(f, 0), 0)
        BY <1>3
    <2> QED
        BY <2>1
<1>5. ASSUME NEW n \in Nat PROVE table[n + 1] = Upsert(table[n], payloads[n + 1])
    <2> DEFINE f == CHOOSE one : Upto(one, n)
               g == CHOOSE one : Upto(one, n + 1)
    <2>1. Upto(f, n) /\ Upto(g, n + 1)
        BY <1>3
    <2>2. table[n] = f[n] /\ table[n + 1] = g[n + 1]
        OBVIOUS
    <2> HIDE DEF f, g, table
    <2>3. f[n] = g[n]
        BY <1>2, <2>1
    <2>4. n + 1 \in 1..(n + 1) /\ (n + 1) - 1 = n
        OBVIOUS
    <2>5. g[n + 1] = Upsert(g[n], payloads[n + 1])
        BY <2>1, <2>4
    <2> QED
        BY <2>2, <2>3, <2>5
<1>6. DOMAIN table = Nat
    OBVIOUS
<1> HIDE DEF table
<1>7. Is(table)
    <2> DEFINE t == [n \in Nat |-> IF n = 0 THEN ds ELSE Upsert(table[n - 1], payloads[n])]
    <2>1. table = [n \in Nat |-> table[n]]
        BY <1>6 DEF table
    <2>2. ASSUME NEW n \in Nat PROVE table[n] = t[n]
        <3>1. CASE n = 0
            BY <3>1, <1>4
        <3>2. CASE n # 0
            <4>1. n - 1 \in Nat /\ (n - 1) + 1 = n
                BY <3>2
            <4>2. table[n] = Upsert(table[n - 1], payloads[n])
                BY <4>1, <1>5
            <4> QED
                BY <4>2, <3>2
        <3> QED
            BY <3>1, <3>2
    <2>3. t = [n \in Nat |-> t[n]]
        OBVIOUS
    <2> HIDE DEF t
    <2>4. table = t
        BY <2>1, <2>2, <2>3
    <2> QED
        BY <2>4 DEF t
<1> DEFINE after == Upserted(ds, payloads)
<1>8. after = CHOOSE f : Is(f)
    BY DEF Upserted
<1>9. Is(after)
    <2> HIDE DEF Is, after
    <2> QED
        BY <1>7, <1>8
<1>10. after[0] = ds
    <2> HIDE DEF after
    <2> QED
        BY <1>9
<1>11. ASSUME NEW n \in Nat PROVE after[n + 1] = Upsert(after[n], payloads[n + 1])
    <2>1. n + 1 \in Nat /\ n + 1 # 0 /\ (n + 1) - 1 = n
        OBVIOUS
    <2> HIDE DEF after
    <2> QED
        BY <1>9, <2>1
<1> QED
    BY <1>10, <1>11

LEMMA UpsertedKeeps ==
    ASSUME NEW ds, DocumentsSound(ds), NEW payloads
    PROVE  \A n \in Nat : DocumentsSound(Upserted(ds, payloads)[n])
<1> DEFINE S == {n \in Nat : DocumentsSound(Upserted(ds, payloads)[n])}
<1>1. 0 \in S /\ \A n \in S : n + 1 \in S
    BY UpsertedGoesOn, UpsertKeeps
<1>2. S \in SUBSET Nat
    OBVIOUS
<1>3. \A n \in Nat : n \in S
    <2> HIDE DEF S
    <2> QED
        BY <1>1, <1>2, AllNumbers
<1> QED
    BY <1>3

\* After n upserts the sources taken in are told, each by its last text.
LEMMA UpsertedTells ==
    ASSUME NEW ds, DocumentsSound(ds), NEW payloads
    PROVE  \A n \in Nat :
             /\ DocumentsSound(Upserted(ds, payloads)[n])
             /\ Shelved(ds, Upserted(ds, payloads)[n])
             /\ \A k \in 1..n : (\A m \in (k + 1)..n : payloads[m].key # payloads[k].key)
                             => Tells(Upserted(ds, payloads)[n], payloads[k])
<1> DEFINE after == Upserted(ds, payloads)
           LastOf(k, n) == \A m \in (k + 1)..n : payloads[m].key # payloads[k].key
           Told(n) == \A k \in 1..n : LastOf(k, n) => Tells(after[n], payloads[k])
           S == {n \in Nat : DocumentsSound(after[n]) /\ Shelved(ds, after[n]) /\ Told(n)}
<1>1. after[0] = ds /\ \A n \in Nat : after[n + 1] = Upsert(after[n], payloads[n + 1])
    BY UpsertedGoesOn
<1> HIDE DEF after
<1>2. 0 \in S
    BY <1>1 DEF Shelved
<1>3. ASSUME NEW n \in S PROVE n + 1 \in S
    <2> DEFINE x == payloads[n + 1]
    <2>1. n \in Nat /\ n + 1 \in Nat /\ DocumentsSound(after[n]) /\ Shelved(ds, after[n]) /\ Told(n)
        OBVIOUS
    <2>2. after[n + 1] = Upsert(after[n], x)
        BY <1>1, <2>1
    <2> HIDE DEF x, S, Told
    <2>3. /\ DocumentsSound(after[n + 1]) /\ Shelved(ds, after[n + 1]) /\ Tells(after[n + 1], x)
          /\ \A y : y.key # x.key /\ Tells(after[n], y) => Tells(after[n + 1], y)
        BY <2>1, <2>2, UpsertTells, UpsertKeeps
    <2>4. ASSUME NEW k \in 1..(n + 1), LastOf(k, n + 1) PROVE Tells(after[n + 1], payloads[k])
        <3>1. CASE k = n + 1
            BY <3>1, <2>3 DEF x
        <3>2. CASE k # n + 1
            <4>1. k \in 1..n /\ n + 1 \in (k + 1)..(n + 1)
                BY <3>2, <2>1
            <4>2. \A m \in (k + 1)..n : m \in (k + 1)..(n + 1)
                BY <4>1, <2>1
            <4>3. LastOf(k, n) /\ x.key # payloads[k].key
                BY <4>1, <4>2, <2>4 DEF x
            <4>4. Tells(after[n], payloads[k])
                <5> HIDE DEF LastOf
                <5> QED
                    BY <4>1, <4>3, <2>1 DEF Told
            <4> QED
                BY <4>3, <4>4, <2>3
        <3> QED
            BY <3>1, <3>2
    <2>5. Told(n + 1)
        <3> HIDE DEF LastOf
        <3> QED
            BY <2>4 DEF Told
    <2> QED
        BY <2>1, <2>3, <2>5 DEF S
<1>4. S \in SUBSET Nat
    OBVIOUS
<1>5. \A n \in Nat : n \in S
    <2> HIDE DEF S
    <2> QED
        BY <1>2, <1>3, <1>4, AllNumbers
<1> QED
    BY <1>5 DEF after

\* A source that is told is carried over from the documents of before.
LEMMA TellsCarries ==
    ASSUME NEW old, NEW ds, NEW x, Tells(ds, x), Shelved(old, ds)
    PROVE  Carries(old, ds, x)
<1>1. PICK d \in SameSource(ds, x.key) :
        /\ \A e \in SameSource(ds, x.key) : d =< e
        /\ ds[d].content = x.content /\ ds[d].status \in {"active", "archived"}
    BY DEF Tells
<1>2. d \in DOMAIN ds
    BY DEF SameSource
<1>3. ds[d].status = "active" \/ (/\ ds[d].status = "archived" /\ d \in DOMAIN old
                                  /\ old[d].status = "archived" /\ old[d].content = x.content)
    BY <1>1, <1>2 DEF Shelved
<1> QED
    BY <1>1, <1>3 DEF Carries

\* A rebuild that is given all the documents of a project leaves none behind.
LEMMA RebuildFinds ==
    ASSUME NEW ds, DocumentsSound(ds), NEW p, NEW some, RebuildEnds(ds, p, some),
           \A s \in {"active", "stale"} : Cardinality(Listed(ds, p, s)) =< DocumentPage,
           NEW d \in Listed(RebuildProjectIndex(ds, some), p, "active")
    PROVE  RebuildProjectIndex(ds, some)[d].index = RebuildProjectIndex(ds, some)[d].content
<1> DEFINE new == RebuildProjectIndex(ds, some)
<1>1. d \in DOMAIN ds /\ new[d] = (IF d \in some THEN Rebuilt(ds[d]) ELSE ds[d])
    BY DEF Listed, RebuildProjectIndex
<1>2. new[d].key.project = p /\ new[d].status = "active"
    BY DEF Listed
<1> HIDE DEF new
<1>3. IsDocument(ds[d])
    BY <1>1 DEF DocumentsSound
<1>4. ds[d].key.project = p /\ ds[d].status \in {"active", "stale"}
    BY <1>1, <1>2, <1>3, RebuiltIs
<1>5. d \in Listed(ds, p, "active") \/ d \in Listed(ds, p, "stale")
    BY <1>1, <1>4 DEF Listed
<1>6. Listed(ds, p, "active") \subseteq some /\ Listed(ds, p, "stale") \subseteq some
    BY DEF RebuildEnds, WholePage
<1>7. new[d] = Rebuilt(ds[d])
    BY <1>1, <1>5, <1>6
<1> QED
    BY <1>3, <1>7, RebuiltIs DEF new

LEMMA RebuildKeeps ==
    ASSUME NEW ds, DocumentsSound(ds), NEW some
    PROVE  DocumentsSound(RebuildProjectIndex(ds, some))
<1> DEFINE new == RebuildProjectIndex(ds, some)
<1>1. /\ new = [d \in DOMAIN ds |-> new[d]]
      /\ \A d \in DOMAIN ds : new[d] = IF d \in some THEN Rebuilt(ds[d]) ELSE ds[d]
    BY DEF RebuildProjectIndex
<1> HIDE DEF new
<1>2. DOMAIN new = DOMAIN ds
    BY <1>1
<1>3. IsTable(new)
    BY <1>1, TableMap DEF DocumentsSound
<1>4. \A d \in DOMAIN new : IsDocument(new[d])
    BY <1>1, <1>2, RebuiltIs DEF DocumentsSound
<1> QED
    BY <1>3, <1>4 DEF DocumentsSound, new

-----------------------------------------------------------------------------
(* The calls on documents                                                  *)

LEMMA CreateDocumentKeeps ==
    ASSUME MemoryInv, NEW p, NEW content, NEW s \in DocumentStatuses, NEW upto,
           CreateDocument(p, content, s, upto)
    PROVE  MemoryInv'
<1> DEFINE key == [Key(p, "manual_note", None, None) EXCEPT !.title = "own"]
           row == [key |-> key, content |-> content, status |-> s, index |-> <<>>]
<1>1. Last(InsertDocument(<<>>, key, content, s)) = row
    BY DEF InsertDocument, Last
<1>2. IsDocument(row)
    BY DEF IsDocument, DocumentFields
<1> HIDE DEF key, row
<1>3. PICK new \in {row, Rebuilt(row)} : doc' = Append(doc, new)
    BY <1>1 DEF CreateDocument, key
<1>4. IsDocument(new)
    BY <1>2, RebuiltIs
<1>5. DocumentsSound(doc')
    BY <1>3, <1>4, InsertedIs DEF MemoryInv
<1>6. summary' = summary
    BY DEF CreateDocument
<1> QED
    BY <1>5, <1>6 DEF MemoryInv

LEMMA UpdateDocumentKeeps ==
    ASSUME MemoryInv, NEW d, NEW content, NEW title, NEW s \in DocumentStatuses, NEW upto,
           UpdateDocument(d, content, title, s, upto)
    PROVE  MemoryInv'
<1> DEFINE row == [doc[d] EXCEPT !.content = IF content = <<>> THEN @ ELSE content,
                                 !.key.title = IF title = "kept" THEN @ ELSE title, !.status = s]
           given == content # <<>> \/ title # "kept"
           new == IF upto = 2 THEN Patched(d, row, given) ELSE row
<1>1. d \in DOMAIN doc /\ IsDocument(doc[d])
    BY DEF UpdateDocument, Found, MemoryInv, DocumentsSound
<1>2. doc' = [doc EXCEPT ![d] = new] /\ summary' = summary
    BY DEF UpdateDocument
<1>3. IsDocument(row)
    BY <1>1 DEF IsDocument, DocumentFields
<1> HIDE DEF row, given
<1>4. new \in {row, Rebuilt(row), Emptied(row)}
    BY DEF Patched
<1> HIDE DEF new
<1>5. IsDocument(new)
    BY <1>3, <1>4, RebuiltIs, EmptiedIs
<1>6. DocumentsSound(doc')
    <2>1. DocumentsSound([doc EXCEPT ![d] = new])
        BY <1>1, <1>5, ChangedIs DEF MemoryInv
    <2> QED
        BY <2>1, <1>2
<1> QED
    BY <1>2, <1>6 DEF MemoryInv

LEMMA ArchiveDocumentKeeps ==
    ASSUME MemoryInv, NEW d, NEW upto, ArchiveDocument(d, upto) \/ RebuildDocument(d)
    PROVE  MemoryInv'
<1>1. d \in DOMAIN doc /\ IsDocument(doc[d])
    BY DEF ArchiveDocument, RebuildDocument, Found, MemoryInv, DocumentsSound
<1> DEFINE archived == [doc[d] EXCEPT !.status = "archived"]
<1>2. PICK new \in {archived, Emptied(archived), Rebuilt(doc[d])} : doc' = [doc EXCEPT ![d] = new]
    BY DEF ArchiveDocument, RebuildDocument
<1>3. IsDocument(archived)
    BY <1>1 DEF IsDocument, DocumentFields, DocumentStatuses
<1> HIDE DEF archived
<1>4. IsDocument(new)
    BY <1>1, <1>3, EmptiedIs, RebuiltIs
<1>5. DocumentsSound(doc')
    <2>1. DocumentsSound([doc EXCEPT ![d] = new])
        BY <1>1, <1>4, ChangedIs DEF MemoryInv
    <2> QED
        BY <2>1, <1>2
<1>6. summary' = summary
    BY DEF ArchiveDocument, RebuildDocument
<1> QED
    BY <1>5, <1>6 DEF MemoryInv

LEMMA BuildKeeps ==
    ASSUME MemoryInv, NEW p, NEW include, NEW done, NEW some,
           BuildFromNovel(p, include, done) \/ RebuildProject(p, some)
    PROVE  MemoryInv'
<1>1. summary' = summary
    BY DEF BuildFromNovel, RebuildProject
<1>2. CASE BuildFromNovel(p, include, done)
    <2> DEFINE payloads == SourcePayloads(p, include)
               built == Upserted(doc, payloads)[done]
    <2>1. done \in 0..Len(payloads) /\ \E ids : doc' = RebuildProjectIndex(built, ids)
        BY <1>2 DEF BuildFromNovel
    <2>2. done \in Nat
        BY <2>1
    <2>3. DocumentsSound(built)
        BY <2>2, UpsertedKeeps DEF MemoryInv
    <2> HIDE DEF built
    <2>4. DocumentsSound(doc')
        BY <2>1, <2>3, RebuildKeeps
    <2> QED
        BY <2>4, <1>1 DEF MemoryInv
<1>3. CASE RebuildProject(p, some)
    <2>1. doc' = RebuildProjectIndex(doc, some)
        BY <1>3 DEF RebuildProject
    <2>2. DocumentsSound(doc')
        BY <2>1, RebuildKeeps DEF MemoryInv
    <2> QED
        BY <2>2, <1>1 DEF MemoryInv
<1> QED
    BY <1>2, <1>3

-----------------------------------------------------------------------------
(* The calls on summaries                                                  *)

\* A new version does not speak before it is activated.
LEMMA AppendedSound ==
    ASSUME NEW rows, SummariesSound(rows), NEW c, NEW type, NEW text, NEW s
    PROVE  SummariesSound(Append(rows, SummaryRow(c, type, text, s)))
<1> DEFINE row == SummaryRow(c, type, text, s)
           new == Append(rows, row)
<1>1. IsSummary(row) /\ ~ Speaks(row)
    BY DEF SummaryRow, IsSummary, SummaryFields, Speaks
<1> HIDE DEF row
<1>2. /\ IsTable(new) /\ Len(rows) \in Nat /\ DOMAIN rows = 1..Len(rows)
      /\ DOMAIN new = 1..(Len(rows) + 1)
      /\ \A t \in DOMAIN rows : new[t] = rows[t]
      /\ new[Len(rows) + 1] = row
    BY TableAppend DEF SummariesSound
<1>3. \A t \in DOMAIN new : t \in DOMAIN rows \/ t = Len(rows) + 1
    BY <1>2
<1>4. \A t \in DOMAIN new : Speaks(new[t]) => t \in DOMAIN rows
    BY <1>1, <1>2, <1>3
<1> HIDE DEF new
<1>5. \A t \in DOMAIN new : IsSummary(new[t])
    BY <1>1, <1>2, <1>3 DEF SummariesSound
<1>6. ASSUME NEW t \in DOMAIN new, NEW u \in DOMAIN new, t # u,
             new[t].chapter = new[u].chapter, new[t].type = new[u].type
      PROVE  ~ (Speaks(new[t]) /\ Speaks(new[u]))
    <2> SUFFICES ASSUME Speaks(new[t]), Speaks(new[u]) PROVE FALSE
        OBVIOUS
    <2>1. t \in DOMAIN rows /\ u \in DOMAIN rows /\ new[t] = rows[t] /\ new[u] = rows[u]
        BY <1>2, <1>4
    <2> QED
        BY <2>1, <1>6 DEF SummariesSound
<1> QED
    BY <1>2, <1>5, <1>6 DEF SummariesSound, new, row

\* activate_summary leaves one that speaks.
LEMMA ActivatedSound ==
    ASSUME NEW rows, SummariesSound(rows), NEW s \in DOMAIN rows
    PROVE  SummariesSound(Activated(rows, s))
<1> DEFINE new == Activated(rows, s)
           Rival(t) == rows[t].chapter = rows[s].chapter /\ rows[t].type = rows[s].type
<1>1. /\ new = [t \in DOMAIN rows |-> new[t]]
      /\ \A t \in DOMAIN rows :
           new[t] = IF t = s THEN [rows[t] EXCEPT !.status = "active", !.activated = TRUE]
                    ELSE IF Rival(t) /\ rows[t].status = "active"
                    THEN [rows[t] EXCEPT !.status = "archived"] ELSE rows[t]
    BY DEF Activated
<1> HIDE DEF new
<1>2. DOMAIN new = DOMAIN rows /\ IsTable(new)
    BY <1>1, TableMap DEF SummariesSound
<1>3. \A t \in DOMAIN rows : IsSummary(rows[t])
    BY DEF SummariesSound
<1>4. ASSUME NEW t \in DOMAIN rows
      PROVE  /\ IsSummary(new[t])
             /\ new[t].chapter = rows[t].chapter /\ new[t].type = rows[t].type
             /\ t # s /\ Speaks(new[t]) => Speaks(rows[t]) /\ ~ Rival(t)
    BY <1>1, <1>3 DEF IsSummary, SummaryFields, Speaks
<1>5. ASSUME NEW t \in DOMAIN new, NEW u \in DOMAIN new, t # u,
             new[t].chapter = new[u].chapter, new[t].type = new[u].type
      PROVE  ~ (Speaks(new[t]) /\ Speaks(new[u]))
    <2> SUFFICES ASSUME Speaks(new[t]), Speaks(new[u]) PROVE FALSE
        OBVIOUS
    <2>1. t \in DOMAIN rows /\ u \in DOMAIN rows
        BY <1>2
    <2>2. rows[t].chapter = rows[u].chapter /\ rows[t].type = rows[u].type
        BY <2>1, <1>4, <1>5
    <2>3. CASE t = s
        BY <2>1, <2>2, <2>3, <1>4, <1>5
    <2>4. CASE u = s
        BY <2>1, <2>2, <2>4, <1>4, <1>5
    <2>5. CASE t # s /\ u # s
        BY <2>1, <2>2, <2>5, <1>4, <1>5 DEF SummariesSound
    <2> QED
        BY <2>3, <2>4, <2>5
<1> QED
    BY <1>2, <1>4, <1>5 DEF SummariesSound, new

\* The transactions of an activation, wherever it is cut off.
LEMMA ActivateKeeps ==
    ASSUME MemoryInv, NEW rows, SummariesSound(rows), NEW s \in DOMAIN rows, NEW upto,
           Activate(rows, s, upto)
    PROVE  MemoryInv'
<1>1. summary' = Activated(rows, s) \/ summary' = rows
    BY DEF Activate
<1>2. SummariesSound(summary')
    BY <1>1, ActivatedSound
<1> DEFINE x == [key |-> Key(novel[rows[s].chapter].project, "chapter", rows[s].chapter, "summary"),
                 content |-> rows[s].text]
<1>3. doc' = Upsert(doc, x) \/ doc' = doc
    BY DEF Activate
<1> HIDE DEF x
<1>4. DocumentsSound(doc')
    BY <1>3, UpsertKeeps DEF MemoryInv
<1> QED
    BY <1>2, <1>4 DEF MemoryInv

LEMMA NewSummaryKeeps ==
    ASSUME MemoryInv, NEW c, NEW type, NEW text, NEW use, NEW upto,
           NewSummary(c, type, text, use, upto)
    PROVE  MemoryInv'
<1>1. PICK s : s = IF use THEN "active" ELSE "draft"
    OBVIOUS
<1> DEFINE rows == Append(summary, SummaryRow(c, type, text, s))
<1>2. SummariesSound(rows)
    BY AppendedSound DEF MemoryInv
<1>3. Activate(rows, Len(rows), upto) \/ (summary' = rows /\ doc' = doc)
    BY <1>1 DEF NewSummary
<1>4. Len(rows) \in DOMAIN rows
    <2>1. IsTable(rows)
        BY <1>2 DEF SummariesSound
    <2>2. Len(summary) \in Nat /\ DOMAIN rows = 1..(Len(summary) + 1)
        BY TableAppend DEF MemoryInv, SummariesSound
    <2>3. DOMAIN rows = 1..Len(rows) /\ Len(rows) \in Nat
        <3> HIDE DEF rows
        <3> QED
            BY <2>1, TableAppend
    <2> HIDE DEF rows
    <2>4. Len(rows) >= 1
        <3>1. 1 \in DOMAIN rows
            BY <2>2
        <3> QED
            BY <3>1, <2>3
    <2> QED
        BY <2>3, <2>4
<1> HIDE DEF rows
<1> QED
    BY <1>2, <1>3, <1>4, ActivateKeeps DEF MemoryInv

LEMMA SummaryCallKeeps ==
    ASSUME MemoryInv, SummaryNext
    PROVE  MemoryInv'
<1>1. ASSUME NEW c, NEW type, NEW text, NEW use, NEW upto,
             CreateChapterSummary(c, type, text, use, upto)
      PROVE  MemoryInv'
    BY <1>1, NewSummaryKeeps DEF CreateChapterSummary
<1>2. ASSUME NEW c, NEW s, NEW upto, ActivateChapterSummary(c, s, upto)
      PROVE  MemoryInv'
    BY <1>2, ActivateKeeps DEF ActivateChapterSummary, MemoryInv
<1>3. ASSUME NEW c, NEW type, NEW use, AskSummary(c, type, use)
      PROVE  MemoryInv'
    BY <1>3 DEF AskSummary, MemoryInv
<1>4. ASSUME NEW text, NEW upto, ModelAnswers(text, upto)
      PROVE  MemoryInv'
    BY <1>4, NewSummaryKeeps DEF ModelAnswers
<1>5. CASE ModelFails
    BY <1>5 DEF ModelFails, MemoryInv
<1> QED
    BY <1>1, <1>2, <1>3, <1>4, <1>5 DEF SummaryNext

\* Whatever became of the documents, a build brings in the texts of the library and, if
\* they fit in its page, makes all that is active findable.
LEMMA SoundFinds ==
    ASSUME DocumentsSound(doc)
    PROVE  BuildFinds
<1> SUFFICES ASSUME NEW p \in DOMAIN novel, NEW include \in Inclusions,
                    NEW done \in 0..Len(SourcePayloads(p, include))
             PROVE  LET payloads == SourcePayloads(p, include)
                        written == Upserted(doc, payloads)[done]
                    IN  /\ \A n \in 1..done :
                             (\A m \in (n + 1)..done : payloads[m].key # payloads[n].key)
                             => Carries(doc, written, payloads[n])
                        /\ /\ done = Len(payloads)
                           /\ \A s \in {"active", "stale"} :
                                Cardinality(Listed(written, p, s)) =< DocumentPage
                           => \A some \in SUBSET DOMAIN written :
                                RebuildEnds(written, p, some) =>
                                  LET built == RebuildProjectIndex(written, some) IN
                                  \A d \in Listed(built, p, "active") :
                                    built[d].index = built[d].content
    BY DEF BuildFinds
<1> DEFINE payloads == SourcePayloads(p, include)
           written == Upserted(doc, payloads)[done]
<1>1. done \in Nat
    OBVIOUS
<1>2. /\ DocumentsSound(written) /\ Shelved(doc, written)
      /\ \A k \in 1..done : (\A m \in (k + 1)..done : payloads[m].key # payloads[k].key)
                         => Tells(written, payloads[k])
    BY <1>1, UpsertedTells
<1> HIDE DEF payloads, written
<1>3. \A n \in 1..done : (\A m \in (n + 1)..done : payloads[m].key # payloads[n].key)
                      => Carries(doc, written, payloads[n])
    BY <1>2, TellsCarries
<1>4. ASSUME NEW some \in SUBSET DOMAIN written, RebuildEnds(written, p, some),
             \A s \in {"active", "stale"} : Cardinality(Listed(written, p, s)) =< DocumentPage,
             NEW d \in Listed(RebuildProjectIndex(written, some), p, "active")
      PROVE  RebuildProjectIndex(written, some)[d].index = RebuildProjectIndex(written, some)[d].content
    BY <1>2, <1>4, RebuildFinds
<1> QED
    BY <1>3, <1>4 DEF payloads, written

\* The memory of a novel can be brought up to date and is unambiguous for any number of
\* documents, summaries and rows and any page: a build takes in every text of the library
\* and leaves no active document unfound that fits its page, and of the summaries whose
\* activation came to its end one speaks for a chapter, wherever documents, builds,
\* rebuilds and activations were cut off before.
THEOREM MemoryStaysSound == MemorySpec => []MemorySound
<1> DEFINE vars == <<novel, revisionVars, memoryVars>>
<1>1. NovelInit /\ RevisionInit /\ MemoryInit => MemoryInv
    <2> SUFFICES ASSUME MemoryInit PROVE MemoryInv
        OBVIOUS
    <2>1. doc = << >> /\ summary = << >>
        BY DEF MemoryInit
    <2>2. DOMAIN doc = {} /\ DOMAIN summary = {} /\ IsTable(doc) /\ IsTable(summary)
        BY <2>1 DEF IsTable
    <2> QED
        BY <2>2 DEF MemoryInv, DocumentsSound, SummariesSound
<1>2. MemoryInv /\ [MemoryNext]_vars => MemoryInv'
    <2> SUFFICES ASSUME MemoryInv, MemoryNext \/ UNCHANGED vars PROVE MemoryInv'
        OBVIOUS
    <2>1. CASE UNCHANGED memoryVars
        BY <2>1 DEF memoryVars, MemoryInv
    <2>2. CASE DocumentNext
        BY <2>2, CreateDocumentKeeps, UpdateDocumentKeeps, ArchiveDocumentKeeps, BuildKeeps
        DEF DocumentNext
    <2>3. CASE SummaryNext
        BY <2>3, SummaryCallKeeps
    <2> QED
        BY <2>1, <2>2, <2>3 DEF MemoryNext, memoryVars
<1>3. MemoryInv => MemorySound
    <2> SUFFICES ASSUME MemoryInv PROVE MemorySound
        OBVIOUS
    <2>1. BuildFinds
        BY SoundFinds DEF MemoryInv
    <2>2. OneActiveSummary
        BY DEF MemoryInv, SummariesSound, Speaks, OneActiveSummary
    <2> QED
        BY <2>1, <2>2 DEF MemorySound
<1> QED
    BY <1>1, <1>2, <1>3, PTL DEF MemorySpec

-----------------------------------------------------------------------------
(* Model profiles: the flag of the default                                 *)

IsProfileRow(row) ==
  /\ row = ProfileRow(row.key, row.status, row.default)
  /\ row.status \in ProfileStatuses /\ row.default \in BOOLEAN

\* At most one row of a table of profiles is flagged.
OneFlagged(rows) ==
  \A p, q \in DOMAIN rows : rows[p].default /\ rows[q].default => p = q

IsProfileTable(rows) ==
  IsTable(rows) /\ (\A p \in DOMAIN rows : IsProfileRow(rows[p])) /\ OneFlagged(rows)

\* `order` has every one of `ids` and nothing else.
Contained(s, x) == \E n \in DOMAIN s : s[n] = x
Lists(order, ids) == order \in Seq(ids) /\ \A p \in ids : Contained(order, p)

ProfileInv == IsProfileTable(profile) /\ Lists(renewed, DOMAIN profile)

LEMMA SelectedIs ==
    ASSUME NEW I \in SUBSET Nat, 0 \notin I,
           NEW n, n = IF I # {} THEN Min(I) ELSE 0
    PROVE  (n = 0 <=> I = {}) /\ (n # 0 => n \in I)
    BY MinExists

LEMMA DefaultIs ==
    ASSUME NEW rows, NEW ids \in SUBSET (Nat \ {0}), NEW order, Lists(order, ids)
    PROVE  LET is == Default(rows, order)
               Good(p) == rows[p].default /\ rows[p].status = "enabled"
           IN  /\ is = NoProfile => \A p \in ids : ~ Good(p)
               /\ is # NoProfile => is \in ids /\ Good(is)
<1> DEFINE Good(p) == rows[p].default /\ rows[p].status = "enabled"
           I == {i \in 1..Len(order) : Good(order[i])}
           n == SelectInSeq(order, Good)
<1>1. order \in Seq(ids) /\ DOMAIN order = 1..Len(order) /\ Len(order) \in Nat
    BY DEF Lists
<1>2. n = IF I # {} THEN Min(I) ELSE 0
    BY DEF SelectInSeq
<1>3. (n = 0 <=> I = {}) /\ (n # 0 => n \in I)
    <2>1. I \in SUBSET Nat /\ 0 \notin I
        BY <1>1
    <2> HIDE DEF I, n
    <2> QED
        BY <1>2, <2>1, SelectedIs
<1>4. Default(rows, order) = IF n = 0 THEN NoProfile ELSE order[n]
    BY DEF Default, FirstThat
<1>5. \A i \in 1..Len(order) : order[i] \in ids /\ order[i] # NoProfile
    BY <1>1 DEF NoProfile
<1>6. n # 0 => n \in 1..Len(order) /\ Good(order[n])
    BY <1>3
<1>7. n = 0 => \A p \in ids : ~ Good(p)
    BY <1>1, <1>3 DEF Lists, Contained
<1> HIDE DEF n, I, Good
<1>8. /\ Default(rows, order) = NoProfile => \A p \in ids : ~ Good(p)
      /\ Default(rows, order) # NoProfile =>
           Default(rows, order) \in ids /\ Good(Default(rows, order))
    BY <1>4, <1>5, <1>6, <1>7
<1> QED
    BY <1>8 DEF Good

LEMMA CarrierIs ==
    ASSUME NEW rows, NEW ids \in SUBSET (Nat \ {0}), NEW order, Lists(order, ids), NEW key
    PROVE  LET is == Carrier(rows, order, key)
               Good(p) == rows[p].key = key /\ rows[p].status # "archived"
           IN  /\ is = NoProfile => \A p \in ids : ~ Good(p)
               /\ is # NoProfile => is \in ids /\ Good(is)
<1> DEFINE Good(p) == rows[p].key = key /\ rows[p].status # "archived"
           I == {i \in 1..Len(order) : Good(order[i])}
           n == SelectInSeq(order, Good)
<1>1. order \in Seq(ids) /\ DOMAIN order = 1..Len(order) /\ Len(order) \in Nat
    BY DEF Lists
<1>2. n = IF I # {} THEN Min(I) ELSE 0
    BY DEF SelectInSeq
<1>3. (n = 0 <=> I = {}) /\ (n # 0 => n \in I)
    <2>1. I \in SUBSET Nat /\ 0 \notin I
        BY <1>1
    <2> HIDE DEF I, n
    <2> QED
        BY <1>2, <2>1, SelectedIs
<1>4. Carrier(rows, order, key) = IF n = 0 THEN NoProfile ELSE order[n]
    BY DEF Carrier, FirstThat
<1>5. \A i \in 1..Len(order) : order[i] \in ids /\ order[i] # NoProfile
    BY <1>1 DEF NoProfile
<1>6. n # 0 => n \in 1..Len(order) /\ Good(order[n])
    BY <1>3
<1>7. n = 0 => \A p \in ids : ~ Good(p)
    BY <1>1, <1>3 DEF Lists, Contained
<1> HIDE DEF n, I, Good
<1>8. /\ Carrier(rows, order, key) = NoProfile => \A p \in ids : ~ Good(p)
      /\ Carrier(rows, order, key) # NoProfile =>
           Carrier(rows, order, key) \in ids /\ Good(Carrier(rows, order, key))
    BY <1>4, <1>5, <1>6, <1>7
<1> QED
    BY <1>8 DEF Good

LEMMA JoinedHas ==
    ASSUME NEW S, NEW a \in Seq(S), NEW b \in Seq(S)
    PROVE  a \o b \in Seq(S) /\ \A x : Contained(a, x) \/ Contained(b, x) => Contained(a \o b, x)
<1> DEFINE c == a \o b
<1>1. /\ c \in Seq(S) /\ Len(c) = Len(a) + Len(b)
      /\ \A i \in 1..Len(a) + Len(b) : c[i] = IF i =< Len(a) THEN a[i] ELSE b[i - Len(a)]
    BY ConcatProperties
<1>2. /\ Len(a) \in Nat /\ DOMAIN a = 1..Len(a) /\ Len(b) \in Nat /\ DOMAIN b = 1..Len(b)
    OBVIOUS
<1> HIDE DEF c
<1>3. DOMAIN c = 1..(Len(a) + Len(b))
    BY <1>1
<1>4. \A n \in DOMAIN a : n \in DOMAIN c /\ c[n] = a[n]
    BY <1>1, <1>2, <1>3
<1>5. \A n \in DOMAIN b : Len(a) + n \in DOMAIN c /\ c[Len(a) + n] = b[n]
    BY <1>1, <1>2, <1>3
<1>6. \A x : Contained(a, x) \/ Contained(b, x) => Contained(c, x)
    BY <1>4, <1>5 DEF Contained
<1> QED
    BY <1>1, <1>6 DEF c

LEMMA MovedLists ==
    ASSUME NEW ids \in SUBSET Nat, NEW order, Lists(order, ids), NEW p \in Nat
    PROVE  Lists(Moved(order, p), ids \union {p})
<1> DEFINE Same(v) == v = p
           I == {i \in 1..Len(order) : Same(order[i])}
           n == SelectInSeq(order, Same)
           rest == RemoveFirst(order, p)
           all == ids \union {p}
<1>1. order \in Seq(ids) /\ order \in Seq(all) /\ DOMAIN order = 1..Len(order) /\ Len(order) \in Nat
    BY DEF Lists
<1>2. n = IF I # {} THEN Min(I) ELSE 0
    BY DEF SelectInSeq
<1>3. (n = 0 <=> I = {}) /\ (n # 0 => n \in I)
    <2>1. I \in SUBSET Nat /\ 0 \notin I
        BY <1>1
    <2> HIDE DEF I, n
    <2> QED
        BY <1>2, <2>1, SelectedIs
<1>4. rest = IF I # {} THEN SubSeq(order, 1, n - 1) \o SubSeq(order, n + 1, Len(order)) ELSE order
    BY DEF RemoveFirst, RemoveAt
<1>5. I # {} => n \in 1..Len(order) /\ order[n] = p
    BY <1>3
<1>6. I # {} => n - 1 \in Int /\ n + 1 \in Int /\ Len(order) \in Int
    BY <1>1, <1>5
<1> HIDE DEF n, I
<1>7. rest \in Seq(all) /\ \A q : Contained(order, q) /\ q # p => Contained(rest, q)
    <2>1. CASE I = {}
        BY <1>1, <1>4, <2>1
    <2>2. CASE I # {}
        <3> DEFINE a == SubSeq(order, 1, n - 1)
                   b == SubSeq(order, n + 1, Len(order))
        <3>1. n \in 1..Len(order) /\ order[n] = p /\ Len(order) \in Nat
            BY <1>1, <1>5, <2>2
        <3>2. a \in Seq(all) /\ \A i \in 1..(n - 1) : i \in DOMAIN a /\ a[i] = order[i]
            <4>1. \A i \in 1..(n - 1) : order[i] \in all
                BY <1>1, <3>1
            <4>2. a \in Seq(all) /\ Len(a) = (IF 1 =< n - 1 THEN n - 1 - 1 + 1 ELSE 0)
                  /\ \A i \in 1..(n - 1 - 1 + 1) : a[i] = order[1 + i - 1]
                BY <1>6, <2>2, <4>1, SubSeqProperties
            <4> HIDE DEF a, all
            <4>3. Len(a) = n - 1 /\ DOMAIN a = 1..(n - 1)
                BY <3>1, <4>2
            <4> QED
                BY <3>1, <4>2, <4>3
        <3>3. b \in Seq(all) /\ \A i \in (n + 1)..Len(order) : i - n \in DOMAIN b /\ b[i - n] = order[i]
            <4>1. \A i \in (n + 1)..Len(order) : order[i] \in all
                BY <1>1, <3>1
            <4>2. b \in Seq(all) /\ Len(b) = (IF n + 1 =< Len(order) THEN Len(order) - (n + 1) + 1 ELSE 0)
                  /\ \A i \in 1..(Len(order) - (n + 1) + 1) : b[i] = order[n + 1 + i - 1]
                BY <1>6, <2>2, <4>1, SubSeqProperties
            <4> HIDE DEF b, all
            <4>3. Len(b) = Len(order) - n
                BY <3>1, <4>2
            <4>4. DOMAIN b = 1..(Len(order) - n)
                BY <4>2, <4>3
            <4>5. ASSUME NEW i \in (n + 1)..Len(order)
                  PROVE  i - n \in DOMAIN b /\ b[i - n] = order[i]
                <5>1. i - n \in 1..(Len(order) - (n + 1) + 1) /\ n + 1 + (i - n) - 1 = i
                    BY <3>1
                <5>2. b[i - n] = order[n + 1 + (i - n) - 1]
                    BY <4>2, <5>1
                <5> QED
                    BY <3>1, <4>4, <5>1, <5>2
            <4> QED
                BY <4>2, <4>5
        <3>4. rest = a \o b
            BY <1>4, <2>2
        <3> HIDE DEF a, b, rest, all
        <3>5. ASSUME NEW q, Contained(order, q), q # p
              PROVE  Contained(a, q) \/ Contained(b, q)
            <4>1. PICK i \in 1..Len(order) : order[i] = q
                BY <1>1, <3>5 DEF Contained
            <4>2. i \in 1..(n - 1) \/ i \in (n + 1)..Len(order)
                BY <3>1, <3>5, <4>1
            <4> QED
                BY <3>2, <3>3, <4>1, <4>2 DEF Contained
        <3>6. a \o b \in Seq(all) /\ \A x : Contained(a, x) \/ Contained(b, x) => Contained(a \o b, x)
            BY <3>2, <3>3, JoinedHas
        <3> QED
            BY <3>4, <3>5, <3>6
    <2> QED
        BY <2>1, <2>2
<1> HIDE DEF rest
<1>8. <<p>> \in Seq(all) /\ Contained(<<p>>, p)
    <2>1. <<p>> \in Seq(all) /\ 1 \in DOMAIN <<p>> /\ <<p>>[1] = p
        OBVIOUS
    <2> QED
        BY <2>1 DEF Contained
<1> HIDE DEF all
<1>9. <<p>> \o rest \in Seq(all) /\ \A x : Contained(<<p>>, x) \/ Contained(rest, x) => Contained(<<p>> \o rest, x)
    BY <1>7, <1>8, JoinedHas
<1>10. \A q \in all : Contained(<<p>> \o rest, q)
    <2>1. ASSUME NEW q \in all, q # p PROVE Contained(order, q)
        BY <2>1 DEF Lists, all
    <2> QED
        BY <1>7, <1>8, <1>9, <2>1
<1> QED
    BY <1>9, <1>10 DEF Lists, Moved, rest, all

LEMMA OrderLists ==
    ASSUME NEW rows, NEW more, Len(rows) \in Nat, Len(more) \in Nat, Len(rows) =< Len(more),
           NEW order, Lists(order, 1..Len(rows))
    PROVE  Lists(Order(order, rows, more), 1..Len(more))
<1> DEFINE all == 1..Len(more)
           new == [n \in 1..(Len(more) - Len(rows)) |-> Len(more) + 1 - n]
<1>1. order \in Seq(all)
    BY DEF Lists
<1>2. new \in Seq(all)
    OBVIOUS
<1>3. \A q \in all : q \notin 1..Len(rows) => Contained(new, q)
    <2>1. ASSUME NEW q \in all, q \notin 1..Len(rows)
          PROVE  Len(more) + 1 - q \in DOMAIN new /\ new[Len(more) + 1 - q] = q
        BY <2>1
    <2> HIDE DEF new
    <2> QED
        BY <2>1 DEF Contained
<1> HIDE DEF new, all
<1>4. new \o order \in Seq(all) /\ \A x : Contained(new, x) \/ Contained(order, x) => Contained(new \o order, x)
    BY <1>1, <1>2, JoinedHas
<1>5. \A q \in all : Contained(new \o order, q)
    BY <1>3, <1>4 DEF Lists
<1> QED
    BY <1>4, <1>5 DEF Lists, Order, new, all

LEMMA UnflaggedIs ==
    ASSUME NEW rows, IsProfileTable(rows)
    PROVE  /\ IsProfileTable(Unflagged(rows)) /\ DOMAIN Unflagged(rows) = DOMAIN rows
           /\ Len(Unflagged(rows)) = Len(rows)
           /\ \A p \in DOMAIN rows : /\ Unflagged(rows)[p].default = FALSE
                                     /\ Unflagged(rows)[p].key = rows[p].key
                                     /\ Unflagged(rows)[p].status = rows[p].status
<1> DEFINE t == Unflagged(rows)
<1>1. t = [p \in DOMAIN rows |-> [rows[p] EXCEPT !.default = FALSE]]
    BY DEF Unflagged
<1> HIDE DEF t
<1>2. DOMAIN t = DOMAIN rows /\ t = [p \in DOMAIN rows |-> t[p]]
    BY <1>1
<1>3. IsTable(t)
    BY <1>2, TableMap DEF IsProfileTable
<1>4. ASSUME NEW p \in DOMAIN rows
      PROVE  t[p] = ProfileRow(rows[p].key, rows[p].status, FALSE)
    <2>1. rows[p] = [key |-> rows[p].key, status |-> rows[p].status, default |-> rows[p].default]
        BY DEF IsProfileTable, IsProfileRow, ProfileRow
    <2>2. t[p] = [rows[p] EXCEPT !.default = FALSE]
        BY <1>1
    <2> QED
        BY <2>1, <2>2 DEF ProfileRow
<1>5. \A p \in DOMAIN t : /\ t[p].default = FALSE /\ t[p].key = rows[p].key
                          /\ t[p].status = rows[p].status /\ IsProfileRow(t[p])
    <2>1. ASSUME NEW p \in DOMAIN t
          PROVE  /\ t[p].default = FALSE /\ t[p].key = rows[p].key
                 /\ t[p].status = rows[p].status /\ IsProfileRow(t[p])
        <3>1. t[p] = ProfileRow(rows[p].key, rows[p].status, FALSE) /\ rows[p].status \in ProfileStatuses
            BY <1>2, <1>4, <2>1 DEF IsProfileTable, IsProfileRow
        <3> QED
            BY <3>1 DEF IsProfileRow, ProfileRow
    <2> QED
        BY <2>1
<1>6. Len(t) = Len(rows)
    <2>1. /\ \E S : t \in Seq(S)
          /\ \E S : rows \in Seq(S)
        BY <1>3 DEF IsTable, IsProfileTable
    <2> QED
        BY <1>2, <2>1
<1> QED
    BY <1>2, <1>3, <1>5, <1>6 DEF IsProfileTable, OneFlagged, t

\* The row of a call is the only flagged one when it is flagged at all: the others are
\* unflagged before it is written.
Others(rows, row) == IF row.default THEN Unflagged(rows) ELSE rows

LEMMA OthersAre ==
    ASSUME NEW rows, NEW row, IsProfileTable(rows), IsProfileRow(row)
    PROVE  LET t == Others(rows, row)
           IN  /\ IsProfileTable(t) /\ DOMAIN t = DOMAIN rows /\ Len(t) = Len(rows)
               /\ row.default => \A p \in DOMAIN rows : ~ t[p].default
    BY UnflaggedIs DEF Others, IsProfileRow

LEMMA InsertIsTable ==
    ASSUME NEW rows, NEW row, IsProfileTable(rows), IsProfileRow(row)
    PROVE  /\ IsProfileTable(InsertProfile(rows, row))
           /\ Len(rows) \in Nat /\ DOMAIN rows = 1..Len(rows)
           /\ DOMAIN InsertProfile(rows, row) = 1..(Len(rows) + 1)
<1> DEFINE t == Others(rows, row)
<1>1. /\ IsProfileTable(t) /\ DOMAIN t = DOMAIN rows /\ Len(t) = Len(rows)
      /\ row.default => \A p \in DOMAIN rows : ~ t[p].default
    BY OthersAre
<1>2. InsertProfile(rows, row) = Append(t, row)
    BY DEF InsertProfile, Others
<1> HIDE DEF t
<1> DEFINE u == Append(t, row)
<1>3. /\ IsTable(u) /\ Len(t) \in Nat /\ DOMAIN t = 1..Len(t) /\ DOMAIN u = 1..(Len(t) + 1)
      /\ \A i \in DOMAIN t : u[i] = t[i]
      /\ u[Len(t) + 1] = row
    BY <1>1, TableAppend DEF IsProfileTable
<1> HIDE DEF u
<1>4. \A p \in DOMAIN u : p \in DOMAIN t \/ p = Len(t) + 1
    BY <1>3
<1>5. \A p \in DOMAIN u : IsProfileRow(u[p])
    BY <1>1, <1>3, <1>4 DEF IsProfileTable
<1>6. OneFlagged(u)
    BY <1>1, <1>3, <1>4 DEF IsProfileTable, OneFlagged
<1> QED
    BY <1>1, <1>2, <1>3, <1>5, <1>6 DEF IsProfileTable, u

LEMMA UpdatedIsTable ==
    ASSUME NEW rows, NEW p \in DOMAIN rows, NEW row, IsProfileTable(rows), IsProfileRow(row)
    PROVE  IsProfileTable(Updated(rows, p, row)) /\ DOMAIN Updated(rows, p, row) = DOMAIN rows
<1> DEFINE t == Others(rows, row)
<1>1. /\ IsProfileTable(t) /\ DOMAIN t = DOMAIN rows
      /\ row.default => \A q \in DOMAIN rows : ~ t[q].default
    BY OthersAre
<1>2. Updated(rows, p, row) = [t EXCEPT ![p] = row]
    BY DEF Updated, Others
<1> HIDE DEF t
<1> DEFINE u == [t EXCEPT ![p] = row]
<1>3. IsTable(u) /\ DOMAIN u = DOMAIN t
    BY <1>1, TableExcept DEF IsProfileTable
<1>4. u[p] = row /\ \A q \in DOMAIN u : q # p => u[q] = t[q]
    BY <1>1
<1> HIDE DEF u
<1>5. (\A q \in DOMAIN u : IsProfileRow(u[q])) /\ OneFlagged(u)
    BY <1>1, <1>3, <1>4 DEF IsProfileTable, OneFlagged
<1> QED
    BY <1>1, <1>2, <1>3, <1>5 DEF IsProfileTable, u

LEMMA ReflaggedRow ==
    ASSUME NEW k, NEW s, NEW d, NEW e
    PROVE  [[key |-> k, status |-> s, default |-> d] EXCEPT !.default = e]
             = [key |-> k, status |-> s, default |-> e]
    OBVIOUS

LEMMA FlaggedIsTable ==
    ASSUME NEW rows, NEW p \in DOMAIN rows, IsProfileTable(rows)
    PROVE  /\ IsProfileTable(Flagged(rows, p)) /\ DOMAIN Flagged(rows, p) = DOMAIN rows
           /\ Len(Flagged(rows, p)) = Len(rows)
           /\ Flagged(rows, p)[p].default /\ Flagged(rows, p)[p].status = rows[p].status
<1> DEFINE t == Unflagged(rows)
           row == ProfileRow(rows[p].key, rows[p].status, TRUE)
<1>1. /\ IsProfileTable(t) /\ DOMAIN t = DOMAIN rows /\ Len(t) = Len(rows)
      /\ \A q \in DOMAIN rows : t[q].default = FALSE
      /\ t[p].key = rows[p].key /\ t[p].status = rows[p].status
    BY UnflaggedIs
<1> HIDE DEF t
<1>2. t[p] = [key |-> rows[p].key, status |-> rows[p].status, default |-> FALSE]
    BY <1>1 DEF IsProfileTable, IsProfileRow, ProfileRow
<1>3. [t[p] EXCEPT !.default = TRUE] = row
    <2> DEFINE r == [key |-> rows[p].key, status |-> rows[p].status, default |-> FALSE]
    <2>1. [t[p] EXCEPT !.default = TRUE] = [r EXCEPT !.default = TRUE]
        BY <1>2
    <2>2. [r EXCEPT !.default = TRUE]
            = [key |-> rows[p].key, status |-> rows[p].status, default |-> TRUE]
        BY ReflaggedRow
    <2> HIDE DEF r
    <2> QED
        BY <2>1, <2>2 DEF ProfileRow
<1> DEFINE u == [t EXCEPT ![p] = row]
<1>4. Flagged(rows, p) = u
    BY <1>3 DEF Flagged, t
<1>5. IsTable(u) /\ DOMAIN u = DOMAIN t
    BY <1>1, TableExcept DEF IsProfileTable
<1>6. u[p] = row /\ \A q \in DOMAIN u : q # p => u[q] = t[q]
    BY <1>1
<1>7. Len(u) = Len(t)
    <2>1. (\E S : u \in Seq(S)) /\ \E S : t \in Seq(S)
        BY <1>1, <1>5 DEF IsTable, IsProfileTable
    <2> HIDE DEF u
    <2> QED
        BY <1>5, <2>1
<1> HIDE DEF u
<1>8. IsProfileRow(row)
    <2>1. rows[p].status \in ProfileStatuses
        BY DEF IsProfileTable, IsProfileRow
    <2> QED
        BY <2>1 DEF IsProfileRow, ProfileRow
<1> HIDE DEF row
<1>10. (\A q \in DOMAIN u : IsProfileRow(u[q])) /\ OneFlagged(u)
    BY <1>1, <1>5, <1>6, <1>8 DEF IsProfileTable, OneFlagged
<1>9. u[p].default /\ u[p].status = rows[p].status
    BY <1>6 DEF ProfileRow, row
<1> QED
    BY <1>1, <1>4, <1>5, <1>7, <1>9, <1>10 DEF IsProfileTable

\* What is installed for a key that is missing, and for one that is there.
Missing(rows, order, key) ==
  IF Carrier(rows, order, key) # NoProfile THEN << >> ELSE <<ProfileRow(key, "enabled", FALSE)>>
With(t, rows, order, key) == t \o Missing(rows, order, key)

\* The rows of t, and after them at most what is installed for the key.
Extension(t, u, key) ==
  /\ IsProfileTable(u) /\ Len(t) \in Nat /\ DOMAIN t = 1..Len(t)
  /\ Len(u) \in Nat /\ DOMAIN u = 1..Len(u) /\ Len(t) =< Len(u)
  /\ \A p \in DOMAIN t : u[p] = t[p]
  /\ \A p \in DOMAIN u : p \notin DOMAIN t => u[p] = ProfileRow(key, "enabled", FALSE)

LEMMA MissingIs ==
    ASSUME NEW rows, NEW t, NEW order, NEW key, IsProfileTable(t)
    PROVE  /\ Extension(t, With(t, rows, order, key), key)
           /\ Carrier(rows, order, key) = NoProfile =>
                Len(t) + 1 \in DOMAIN With(t, rows, order, key)
<1> DEFINE row == ProfileRow(key, "enabled", FALSE)
           u == With(t, rows, order, key)
<1>1. PICK S : t \in Seq(S)
    BY DEF IsProfileTable, IsTable
<1>2. Len(t) \in Nat /\ DOMAIN t = 1..Len(t)
    BY <1>1
<1>3. CASE Carrier(rows, order, key) # NoProfile
    <2>1. u = t
        BY <1>1, <1>3, ConcatEmptySeq DEF With, Missing
    <2> HIDE DEF u
    <2>2. /\ IsProfileTable(u) /\ Len(u) \in Nat /\ DOMAIN u = 1..Len(u) /\ Len(t) =< Len(u)
          /\ \A p \in DOMAIN t : u[p] = t[p]
          /\ \A p \in DOMAIN u : p \notin DOMAIN t => u[p] = ProfileRow(key, "enabled", FALSE)
        <3>1. IsProfileTable(u) /\ Len(u) = Len(t) /\ DOMAIN u = DOMAIN t
            BY <2>1
        <3>2. \A p \in DOMAIN t : u[p] = t[p]
            BY <2>1
        <3>3. Len(u) \in Nat /\ DOMAIN u = 1..Len(u) /\ Len(t) =< Len(u)
            BY <1>2, <3>1
        <3>4. \A p \in DOMAIN u : p \in DOMAIN t
            BY <3>1
        <3> QED
            BY <3>1, <3>2, <3>3, <3>4
    <2> QED
        BY <1>2, <1>3, <2>2 DEF u, Extension
<1>4. CASE Carrier(rows, order, key) = NoProfile
    <2>1. IsProfileRow(row) /\ ~ row.default
        BY DEF IsProfileRow, ProfileRow, ProfileStatuses
    <2> HIDE DEF row
    <2>2. u = Append(t, row)
        <3>1. t \in Seq(S \union {row}) /\ row \in S \union {row}
            BY <1>1
        <3>2. Append(t, row) = t \o <<row>>
            BY <3>1, AppendIsConcat
        <3> QED
            BY <1>4, <3>2 DEF With, Missing, row
    <2>3. InsertProfile(t, row) = Append(t, row)
        BY <2>1 DEF InsertProfile
    <2>4. IsProfileTable(Append(t, row)) /\ DOMAIN Append(t, row) = 1..(Len(t) + 1)
        BY <2>1, <2>3, InsertIsTable
    <2>5. /\ Len(Append(t, row)) = Len(t) + 1
          /\ \A i \in DOMAIN t : Append(t, row)[i] = t[i]
          /\ Append(t, row)[Len(t) + 1] = row
        <3>1. t \in Seq(S \union {row}) /\ row \in S \union {row}
            BY <1>1
        <3> QED
            BY <3>1, <1>2, AppendProperties
    <2> HIDE DEF u
    <2>6. /\ DOMAIN u = 1..(Len(t) + 1) /\ Len(u) = Len(t) + 1 /\ IsProfileTable(u)
          /\ DOMAIN u = 1..Len(u) /\ Len(u) \in Nat /\ Len(t) =< Len(u) /\ Len(t) + 1 \in DOMAIN u
        BY <1>2, <2>2, <2>4, <2>5
    <2>7. \A p \in DOMAIN u : p \notin DOMAIN t => p = Len(t) + 1
        BY <1>2, <2>6
    <2>8. /\ \A p \in DOMAIN t : u[p] = t[p]
          /\ \A p \in DOMAIN u : p \notin DOMAIN t => u[p] = row
        BY <2>2, <2>5, <2>7
    <2> QED
        BY <1>2, <2>6, <2>8 DEF u, row, Extension
<1> QED
    BY <1>3, <1>4

LEMMA AtMostOne ==
    ASSUME NEW S, \A x, y \in S : x = y
    PROVE  Cardinality(S) =< 1
<1>1. CASE S = {}
    BY <1>1, FS_EmptySet
<1>2. CASE S # {}
    <2>1. PICK x : x \in S
        BY <1>2
    <2>2. S = {x}
        BY <2>1
    <2>3. Cardinality({x}) = 1
        BY FS_Singleton
    <2> QED
        BY <2>2, <2>3
<1> QED
    BY <1>1, <1>2

LEMMA ThreeIs ==
    ASSUME NEW a, NEW b, NEW c
    PROVE  LET e == <<a, b, c>> IN
           (\A n \in DOMAIN e : e[n] \in {a, b, c}) /\ 4 \notin DOMAIN e /\ Last(e) = c
<1>1. DOMAIN <<a, b, c>> = 1..3 /\ Last(<<a, b, c>>) = c
    BY DEF Last
<1>2. <<a, b, c>> \in Seq({a, b, c})
    OBVIOUS
<1>3. \A n \in DOMAIN <<a, b, c>> : <<a, b, c>>[n] \in {a, b, c}
    BY <1>2
<1> QED
    BY <1>1, <1>3

LEMMA FourIs ==
    ASSUME NEW a, NEW b, NEW c, NEW d
    PROVE  LET e == Append(<<a, b, c>>, d) IN
           (\A n \in DOMAIN e : e[n] \in {a, b, c, d}) /\ e[4] = d /\ Last(e) = d
<1>1. <<a, b, c>> \in Seq({a, b, c, d}) /\ Len(<<a, b, c>>) = 3
    OBVIOUS
<1> DEFINE e == Append(<<a, b, c>>, d)
<1>2. e \in Seq({a, b, c, d}) /\ Len(e) = 4 /\ e[4] = d
    BY <1>1, AppendProperties
<1> HIDE DEF e
<1>3. Last(e) = d
    BY <1>2 DEF Last
<1>4. \A n \in DOMAIN e : e[n] \in {a, b, c, d}
    BY <1>2
<1> QED
    BY <1>2, <1>3, <1>4 DEF e

\* What ensuring the built-in profiles leaves after each of its commits.
EnsuredAll(rows, order) ==
  LET commits == EnsureProfiles(rows, order)
      is == Default(rows, order)
      ensured == {p \in DOMAIN Last(commits) : Last(commits)[p].default}
      disabled == \E p \in DOMAIN rows : rows[p].key = LocalKey /\ rows[p].status = "disabled"
  IN  /\ \A n \in DOMAIN commits :
           Cardinality({p \in DOMAIN commits[n] : commits[n][p].default}) =< 1
      /\ is # NoProfile => ensured = {is}
      /\ is = NoProfile /\ ~disabled => \E p \in ensured : Last(commits)[p].status = "enabled"

LEMMA EnsureIs ==
    ASSUME NEW rows, NEW order, IsProfileTable(rows), Lists(order, DOMAIN rows)
    PROVE  LET e == EnsureProfiles(rows, order)
           IN  /\ \A n \in DOMAIN e : /\ IsProfileTable(e[n]) /\ Len(e[n]) \in Nat
                                      /\ DOMAIN e[n] = 1..Len(e[n]) /\ Len(rows) =< Len(e[n])
               /\ 4 \in DOMAIN e => \E q \in DOMAIN e[4] : e[4][q].default /\ e[4][q].status = "enabled"
               /\ Len(rows) \in Nat /\ DOMAIN rows = 1..Len(rows)
               /\ EnsuredAll(rows, order)
<1> DEFINE a == With(rows, rows, order, FakeKey)
           b == With(a, rows, order, LocalKey)
           w == WithBuiltins(rows, order)
           e == EnsureProfiles(rows, order)
           ord == Order(order, rows, b)
           local == Carrier(b, ord, LocalKey)
           f == Flagged(b, local)
           Good(t, p) == t[p].default /\ t[p].status = "enabled"
           is == Default(rows, order)
           was == Default(b, order)
<1>1. w = <<rows, a, b>>
    BY DEF WithBuiltins, With, Missing
<1>2. e = IF was = NoProfile /\ b[local].status = "enabled" THEN Append(w, f) ELSE w
    <2>1. w[3] = b
        BY <1>1
    <2> HIDE DEF w, b
    <2> QED
        BY <2>1 DEF EnsureProfiles, w
<1>3. /\ IsProfileTable(a) /\ Len(rows) \in Nat /\ DOMAIN rows = 1..Len(rows)
      /\ Len(a) \in Nat /\ DOMAIN a = 1..Len(a) /\ Len(rows) =< Len(a)
      /\ \A p \in DOMAIN rows : a[p] = rows[p]
      /\ \A p \in DOMAIN a : p \notin DOMAIN rows => a[p] = ProfileRow(FakeKey, "enabled", FALSE)
    <2>1. Extension(rows, a, FakeKey)
        BY MissingIs
    <2> HIDE DEF a
    <2> QED
        BY <2>1 DEF Extension
<1>4. /\ IsProfileTable(b) /\ Len(b) \in Nat /\ DOMAIN b = 1..Len(b) /\ Len(a) =< Len(b)
      /\ \A p \in DOMAIN a : b[p] = a[p]
      /\ \A p \in DOMAIN b : p \notin DOMAIN a => b[p] = ProfileRow(LocalKey, "enabled", FALSE)
      /\ Carrier(rows, order, LocalKey) = NoProfile => Len(a) + 1 \in DOMAIN b
    <2>1. Extension(a, b, LocalKey)
          /\ (Carrier(rows, order, LocalKey) = NoProfile => Len(a) + 1 \in DOMAIN b)
        BY <1>3, MissingIs
    <2> HIDE DEF a, b
    <2> QED
        BY <2>1 DEF Extension
<1> HIDE DEF a, b, w, e
<1>5. /\ Len(rows) =< Len(b) /\ \A p \in DOMAIN rows : p \in DOMAIN b /\ b[p] = rows[p]
      /\ \A p \in DOMAIN b : p \notin DOMAIN rows => b[p].default = FALSE /\ b[p].status = "enabled"
    <2>1. Len(rows) =< Len(b) /\ \A p \in DOMAIN rows : p \in DOMAIN b /\ p \in DOMAIN a /\ b[p] = rows[p]
        BY <1>3, <1>4
    <2>2. ASSUME NEW p \in DOMAIN b, p \notin DOMAIN rows
          PROVE  b[p].default = FALSE /\ b[p].status = "enabled"
        <3>1. CASE p \in DOMAIN a
            BY <1>3, <1>4, <2>2, <3>1 DEF ProfileRow
        <3>2. CASE p \notin DOMAIN a
            BY <1>4, <2>2, <3>2 DEF ProfileRow
        <3> QED
            BY <3>1, <3>2
    <2> QED
        BY <2>1, <2>2
<1>6. Lists(ord, DOMAIN b)
    BY <1>3, <1>4, <1>5, OrderLists
<1> HIDE DEF ord
<1>7. /\ local = NoProfile => \A p \in DOMAIN b : ~ (b[p].key = LocalKey /\ b[p].status # "archived")
      /\ local # NoProfile => local \in DOMAIN b /\ b[local].key = LocalKey /\ b[local].status # "archived"
    <2>1. DOMAIN b \in SUBSET (Nat \ {0})
        BY <1>4
    <2> QED
        BY <1>6, <2>1, CarrierIs
<1>8. /\ is = NoProfile => \A p \in DOMAIN rows : ~ Good(rows, p)
      /\ is # NoProfile => is \in DOMAIN rows /\ Good(rows, is)
      /\ was = NoProfile => \A p \in DOMAIN rows : ~ Good(b, p)
      /\ was # NoProfile => was \in DOMAIN rows /\ Good(b, was)
    <2>1. DOMAIN rows \in SUBSET (Nat \ {0})
        BY <1>3
    <2> QED
        BY <2>1, DefaultIs
<1>9. local \in DOMAIN b /\ b[local].key = LocalKey /\ b[local].status # "archived"
    <2> DEFINE carrier == Carrier(rows, order, LocalKey)
    <2>1. CASE carrier = NoProfile
        <3>1. Len(a) + 1 \in DOMAIN b /\ Len(a) + 1 \notin DOMAIN a
            BY <1>3, <1>4, <2>1
        <3>2. b[Len(a) + 1] = ProfileRow(LocalKey, "enabled", FALSE)
            BY <1>4, <3>1
        <3>3. b[Len(a) + 1].key = LocalKey /\ b[Len(a) + 1].status # "archived"
            BY <3>2 DEF ProfileRow
        <3> QED
            BY <1>7, <3>1, <3>3
    <2>2. CASE carrier # NoProfile
        <3>1. DOMAIN rows \in SUBSET (Nat \ {0})
            BY <1>3
        <3>2. carrier \in DOMAIN rows /\ rows[carrier].key = LocalKey /\ rows[carrier].status # "archived"
            BY <2>2, <3>1, CarrierIs
        <3> QED
            BY <1>5, <1>7, <3>2
    <2> QED
        BY <2>1, <2>2
<1> HIDE DEF local, is, was
<1>10. /\ IsProfileTable(f) /\ DOMAIN f = DOMAIN b /\ Len(f) = Len(b)
       /\ f[local].default /\ f[local].status = b[local].status
    BY <1>4, <1>9, FlaggedIsTable
<1> HIDE DEF f
<1> DEFINE flags == was = NoProfile /\ b[local].status = "enabled"
<1>11. /\ \A n \in DOMAIN e : e[n] \in {rows, a, b, f}
       /\ 4 \in DOMAIN e => e[4] = f /\ flags
       /\ Last(e) = IF flags THEN f ELSE b
    <2>1. CASE flags
        <3>1. e = Append(<<rows, a, b>>, f)
            BY <1>1, <1>2, <2>1
        <3> HIDE DEF flags
        <3> QED
            BY <2>1, <3>1, FourIs
    <2>2. CASE ~ flags
        <3>1. e = <<rows, a, b>>
            BY <1>1, <1>2, <2>2
        <3> HIDE DEF flags
        <3> QED
            BY <2>2, <3>1, ThreeIs
    <2> QED
        BY <2>1, <2>2
<1>12. \A n \in DOMAIN e : /\ IsProfileTable(e[n]) /\ Len(e[n]) \in Nat
                           /\ DOMAIN e[n] = 1..Len(e[n]) /\ Len(rows) =< Len(e[n])
    <2>1. Len(f) \in Nat /\ DOMAIN f = 1..Len(f) /\ Len(rows) =< Len(f)
        BY <1>4, <1>5, <1>10
    <2> QED
        BY <1>3, <1>4, <1>5, <1>10, <1>11, <2>1
<1>14. 4 \in DOMAIN e => \E q \in DOMAIN e[4] : e[4][q].default /\ e[4][q].status = "enabled"
    BY <1>9, <1>10, <1>11
<1>15. Last(e) = IF was = NoProfile /\ b[local].status = "enabled" THEN f ELSE b
    BY <1>11
<1>16. \A n \in DOMAIN e : Cardinality({p \in DOMAIN e[n] : e[n][p].default}) =< 1
    <2>1. ASSUME NEW n \in DOMAIN e
          PROVE  \A x, y \in {p \in DOMAIN e[n] : e[n][p].default} : x = y
        BY <1>12, <2>1 DEF IsProfileTable, OneFlagged
    <2> QED
        BY <2>1, AtMostOne
<1> DEFINE ensured == {p \in DOMAIN Last(e) : Last(e)[p].default}
           disabled == \E p \in DOMAIN rows : rows[p].key = LocalKey /\ rows[p].status = "disabled"
<1>17. is # NoProfile => ensured = {is}
    <2>1. ASSUME is # NoProfile PROVE was # NoProfile /\ is \in DOMAIN b /\ b[is].default
        BY <1>5, <1>8, <2>1
    <2>2. ASSUME is # NoProfile PROVE Last(e) = b
        BY <1>15, <2>1, <2>2
    <2> QED
        BY <1>4, <2>1, <2>2 DEF IsProfileTable, OneFlagged
<1>18. is = NoProfile /\ ~disabled => \E p \in ensured : Last(e)[p].status = "enabled"
    <2> SUFFICES ASSUME is = NoProfile, ~disabled
                 PROVE  \E p \in ensured : Last(e)[p].status = "enabled"
        OBVIOUS
    <2>1. was = NoProfile
        BY <1>5, <1>8
    <2>2. b[local].status = "enabled"
        <3>1. CASE local \in DOMAIN rows
            <4>1. b[local] = rows[local] /\ rows[local].key = LocalKey
                BY <1>5, <1>9, <3>1
            <4>2. rows[local].status \in ProfileStatuses
                BY <3>1 DEF IsProfileTable, IsProfileRow
            <4> QED
                BY <1>9, <3>1, <4>1, <4>2 DEF ProfileStatuses
        <3>2. CASE local \notin DOMAIN rows
            BY <1>5, <1>9, <3>2
        <3> QED
            BY <3>1, <3>2
    <2>3. Last(e) = f
        BY <1>15, <2>1, <2>2
    <2> QED
        BY <1>9, <1>10, <2>2, <2>3
<1>19. EnsuredAll(rows, order)
    BY <1>16, <1>17, <1>18 DEF EnsuredAll, e, is
<1> QED
    BY <1>3, <1>12, <1>14, <1>19 DEF e

LEMMA RenewedLists ==
    ASSUME ProfileInv, NEW p \in Nat, Renewed(p)
    PROVE  Lists(renewed', DOMAIN profile \union {p})
<1>1. DOMAIN profile \in SUBSET Nat
    BY DEF ProfileInv, IsProfileTable, IsTable
<1> QED
    BY <1>1, MovedLists DEF ProfileInv, Renewed

LEMMA ProfileStepKeeps ==
    ASSUME ProfileInv, ProfileNext
    PROVE  ProfileInv'
<1>1. IsProfileTable(profile) /\ Lists(renewed, DOMAIN profile)
    BY DEF ProfileInv
<1>2. Len(profile) \in Nat /\ DOMAIN profile = 1..Len(profile)
    BY <1>1, EnsureIs
<1>3. ASSUME NEW status \in ProfileStatuses, NEW key, NEW default \in BOOLEAN
      PROVE  IsProfileRow(ProfileRow(key, status, default))
    BY <1>3 DEF IsProfileRow, ProfileRow
<1>4. ASSUME NEW status \in ProfileStatuses, NEW key, NEW default \in BOOLEAN,
             CreateProfile(status, key, default)
      PROVE  ProfileInv'
    <2> DEFINE row == ProfileRow(key, status, default)
    <2>1. IsProfileRow(row)
        BY <1>3
    <2>2. profile' = InsertProfile(profile, row) /\ Renewed(Len(profile) + 1)
        BY <1>4 DEF CreateProfile
    <2> HIDE DEF row
    <2>3. IsProfileTable(profile') /\ DOMAIN profile' = 1..(Len(profile) + 1)
        BY <1>1, <2>1, <2>2, InsertIsTable
    <2>4. Lists(renewed', DOMAIN profile \union {Len(profile) + 1})
        BY <1>2, <2>2, RenewedLists
    <2>5. DOMAIN profile' = DOMAIN profile \union {Len(profile) + 1}
        BY <1>2, <2>3
    <2> QED
        BY <2>3, <2>4, <2>5 DEF ProfileInv
<1>5. ASSUME NEW p \in DOMAIN profile, NEW status \in ProfileStatuses, NEW key,
             NEW default \in BOOLEAN, UpdateProfile(p, status, key, default)
      PROVE  ProfileInv'
    <2> DEFINE row == ProfileRow(key, status, default)
    <2>1. IsProfileRow(row)
        BY <1>3
    <2>2. profile' = Updated(profile, p, row) /\ Renewed(p)
        BY <1>5 DEF UpdateProfile
    <2> HIDE DEF row
    <2>3. IsProfileTable(profile') /\ DOMAIN profile' = DOMAIN profile
        BY <1>1, <2>1, <2>2, UpdatedIsTable
    <2>4. p \in Nat /\ DOMAIN profile \union {p} = DOMAIN profile
        BY <1>2
    <2>5. Lists(renewed', DOMAIN profile \union {p})
        BY <2>2, <2>4, RenewedLists
    <2> QED
        BY <2>3, <2>4, <2>5 DEF ProfileInv
<1>6. ASSUME NEW p \in DOMAIN profile, ArchiveProfile(p) PROVE ProfileInv'
    <2>1. UpdateProfile(p, "archived", profile[p].key, FALSE)
        BY <1>6 DEF ArchiveProfile
    <2>2. "archived" \in ProfileStatuses
        BY DEF ProfileStatuses
    <2> QED
        BY <1>5, <2>1, <2>2
<1>7. ASSUME NEW p \in DOMAIN profile, SetDefaultProfile(p) PROVE ProfileInv'
    <2>1. profile' = Flagged(profile, p) /\ Renewed(p)
        BY <1>7 DEF SetDefaultProfile
    <2>2. IsProfileTable(profile') /\ DOMAIN profile' = DOMAIN profile
        BY <1>1, <2>1, FlaggedIsTable
    <2>3. p \in Nat /\ DOMAIN profile \union {p} = DOMAIN profile
        BY <1>2
    <2>4. Lists(renewed', DOMAIN profile \union {p})
        BY <2>1, <2>3, RenewedLists
    <2> QED
        BY <2>2, <2>3, <2>4 DEF ProfileInv
<1>8. CASE EnsureBuiltinProfiles
    <2> DEFINE e == EnsureProfiles(profile, renewed)
    <2>1. PICK n \in DOMAIN e :
             /\ profile' = e[n]
             /\ renewed' = IF n = 4 THEN Moved(Order(renewed, profile, e[n]),
                                               Default(e[n], Order(renewed, profile, e[n])))
                           ELSE Order(renewed, profile, e[n])
        BY <1>8 DEF EnsureBuiltinProfiles
    <2>2. /\ IsProfileTable(e[n]) /\ Len(e[n]) \in Nat
          /\ DOMAIN e[n] = 1..Len(e[n]) /\ Len(profile) =< Len(e[n])
          /\ n = 4 => \E q \in DOMAIN e[n] : e[n][q].default /\ e[n][q].status = "enabled"
        BY <1>1, <2>1, EnsureIs
    <2> DEFINE rows == e[n]
               order == Order(renewed, profile, rows)
               is == Default(rows, order)
    <2> HIDE DEF e
    <2>3. Lists(order, DOMAIN rows)
        BY <1>1, <1>2, <2>2, OrderLists
    <2>4. CASE n # 4
        BY <2>1, <2>2, <2>3, <2>4 DEF ProfileInv
    <2>5. CASE n = 4
        <3> HIDE DEF order, rows
        <3>1. DOMAIN rows \in SUBSET (Nat \ {0}) /\ DOMAIN rows \in SUBSET Nat
            BY <2>2 DEF rows
        <3>2. /\ is = NoProfile => \A p \in DOMAIN rows : ~ (rows[p].default /\ rows[p].status = "enabled")
              /\ is # NoProfile => is \in DOMAIN rows
            BY <2>3, <3>1, DefaultIs
        <3>3. is \in DOMAIN rows
            BY <2>2, <2>5, <3>2 DEF rows
        <3> HIDE DEF is
        <3>4. is \in Nat /\ DOMAIN rows \union {is} = DOMAIN rows
            BY <3>1, <3>3
        <3>5. Lists(Moved(order, is), DOMAIN rows \union {is})
            BY <2>3, <3>1, <3>4, MovedLists
        <3>6. profile' = rows /\ renewed' = Moved(order, is)
            BY <2>1, <2>5 DEF rows, order, is
        <3>7. IsProfileTable(rows)
            BY <2>2 DEF rows
        <3> QED
            BY <3>4, <3>5, <3>6, <3>7 DEF ProfileInv
    <2> QED
        BY <2>4, <2>5
<1> QED
    BY <1>4, <1>5, <1>6, <1>7, <1>8 DEF ProfileNext

\* Of any number of profiles at most one is flagged as the default, and ensuring the
\* built-in ones keeps an enabled default and gives one where there is none, unless the
\* local profile is disabled, wherever a call of several commits was cut off.
THEOREM OneDefaultProfile == ProfileSpec => []OneDefault
<1>1. ProfileInit => ProfileInv
    <2> SUFFICES ASSUME ProfileInit PROVE ProfileInv
        OBVIOUS
    <2>1. profile = << >> /\ renewed = << >>
        BY DEF ProfileInit
    <2>2. DOMAIN << >> = {} /\ << >> \in Seq({})
        OBVIOUS
    <2>3. IsTable(profile) /\ DOMAIN profile = {} /\ renewed \in Seq(DOMAIN profile)
        BY <2>1, <2>2 DEF IsTable
    <2> QED
        BY <2>3 DEF ProfileInv, IsProfileTable, OneFlagged, Lists
<1>2. ProfileInv /\ [ProfileNext]_profileVars => ProfileInv'
    <2> SUFFICES ASSUME ProfileInv, [ProfileNext]_profileVars PROVE ProfileInv'
        OBVIOUS
    <2>1. CASE UNCHANGED profileVars
        BY <2>1 DEF profileVars, ProfileInv
    <2> QED
        BY <2>1, ProfileStepKeeps
<1>3. ProfileInv => OneDefault
    <2> SUFFICES ASSUME ProfileInv PROVE OneDefault
        OBVIOUS
    <2>1. EnsuredAll(profile, renewed)
        BY EnsureIs DEF ProfileInv
    <2> QED
        BY <2>1 DEF EnsuredAll, OneDefault
<1> QED
    BY <1>1, <1>2, <1>3, PTL DEF ProfileSpec

-----------------------------------------------------------------------------
(* Revisions: what a diff stands for                                       *)

\* What a recursion over 0..n computes from the first value and the step.
Iterates(f, X, first, n, step) ==
  f \in [0..n -> X] /\ f[0] = first /\ \A k \in 1..n : f[k] = step[<<k, f[k - 1]>>]

LEMMA IterationExists ==
    ASSUME NEW X, NEW first \in X, NEW n \in Nat, NEW step \in [(1..n) \X X -> X]
    PROVE  \E f : Iterates(f, X, first, n, step)
<1> DEFINE Goes(f, m) == f[0] = first /\ \A k \in 1..m : f[k] = step[<<k, f[k - 1]>>]
           Reached == {m \in Nat : m =< n => \E f \in [0..m -> X] : Goes(f, m)}
<1>1. 0 \in Reached
    <2>1. [k \in 0..0 |-> first] \in [0..0 -> X] /\ Goes([k \in 0..0 |-> first], 0)
        OBVIOUS
    <2> QED
        BY <2>1
<1>2. ASSUME NEW m \in Reached PROVE m + 1 \in Reached
    <2> SUFFICES ASSUME m + 1 =< n PROVE \E f \in [0..(m + 1) -> X] : Goes(f, m + 1)
        OBVIOUS
    <2>1. PICK f \in [0..m -> X] : Goes(f, m)
        OBVIOUS
    <2> DEFINE last == step[<<m + 1, f[m]>>]
               g == [k \in 0..(m + 1) |-> IF k = m + 1 THEN last ELSE f[k]]
    <2>2. m \in Nat /\ f[m] \in X /\ m + 1 \in 1..n
        BY <2>1
    <2>3. last \in X
        BY <2>2
    <2> HIDE DEF last
    <2>4. g \in [0..(m + 1) -> X]
        <3>1. \A k \in 0..(m + 1) : k # m + 1 => k \in 0..m
            BY <2>2
        <3> QED
            BY <2>1, <2>3, <3>1
    <2>5. g[m + 1] = last /\ \A k \in 0..m : g[k] = f[k]
        BY <2>2
    <2> HIDE DEF g
    <2>6. g[0] = first
        BY <2>1, <2>2, <2>5
    <2>7. ASSUME NEW k \in 1..(m + 1) PROVE g[k] = step[<<k, g[k - 1]>>]
        <3>1. CASE k = m + 1
            <4>1. k - 1 = m /\ g[k - 1] = f[m]
                BY <2>2, <2>5, <3>1
            <4> QED
                BY <2>5, <3>1, <4>1 DEF last
        <3>2. CASE k # m + 1
            <4>1. k \in 1..m /\ k \in 0..m /\ k - 1 \in 0..m
                BY <2>2, <3>2
            <4> QED
                BY <2>1, <2>5, <4>1
        <3> QED
            BY <3>1, <3>2
    <2> QED
        BY <2>4, <2>6, <2>7
<1>3. Reached \in SUBSET Nat
    OBVIOUS
<1>4. n \in Reached
    <2> HIDE DEF Reached
    <2> QED
        BY <1>1, <1>2, <1>3, AllNumbers
<1>5. PICK f \in [0..n -> X] : Goes(f, n)
    BY <1>4
<1> QED
    BY <1>5 DEF Iterates

OpsOf(S) == [type : {"equal", "delete", "insert"}, text : Seq(S)]

\* Does an operation of this type belong to the side?
On(type, side) == type \in {"equal", side}

LEMMA SideGoesOn ==
    ASSUME NEW S, NEW ops \in Seq(OpsOf(S)), NEW side
    PROVE  LET f == SideUpTo(ops, side) IN
           /\ f \in [0..Len(ops) -> Seq(S)]
           /\ f[0] = << >>
           /\ \A n \in 1..Len(ops) :
                f[n] = IF On(ops[n].type, side) THEN f[n - 1] \o ops[n].text ELSE f[n - 1]
<1> DEFINE X == Seq(S)
           N == Len(ops)
           step == [k \in (1..N) \X X |->
                      IF On(ops[k[1]].type, side) THEN k[2] \o ops[k[1]].text ELSE k[2]]
           Is(f) == f = [n \in 0..N |-> IF n = 0 THEN << >>
                                        ELSE IF ops[n].type \in {"equal", side}
                                        THEN f[n - 1] \o ops[n].text
                                        ELSE f[n - 1]]
<1>1. N \in Nat /\ << >> \in X
    OBVIOUS
<1>2. \A k \in 1..N : ops[k].text \in Seq(S)
    <2>1. ASSUME NEW k \in 1..N PROVE ops[k] \in OpsOf(S)
        OBVIOUS
    <2> QED
        BY <2>1 DEF OpsOf
<1>3. step \in [(1..N) \X X -> X]
    <2>1. ASSUME NEW k \in (1..N) \X X
          PROVE  (IF On(ops[k[1]].type, side) THEN k[2] \o ops[k[1]].text ELSE k[2]) \in X
        <3>1. k[1] \in 1..N /\ k[2] \in Seq(S)
            OBVIOUS
        <3>2. ops[k[1]].text \in Seq(S)
            BY <1>2, <3>1
        <3>3. k[2] \o ops[k[1]].text \in Seq(S)
            BY <3>1, <3>2, ConcatProperties
        <3> QED
            BY <3>1, <3>3
    <2> QED
        BY <2>1
<1>4. \A k \in 1..N, x \in X :
        step[<<k, x>>] = IF On(ops[k].type, side) THEN x \o ops[k].text ELSE x
    OBVIOUS
<1> HIDE DEF X, step, N
<1>p. PICK f : Iterates(f, X, << >>, N, step)
    BY <1>1, <1>3, IterationExists
<1>5. f \in [0..N -> X] /\ f[0] = << >> /\ \A k \in 1..N : f[k] = step[<<k, f[k - 1]>>]
    BY <1>p DEF Iterates
<1>6. \A k \in 1..N : f[k] = IF On(ops[k].type, side) THEN f[k - 1] \o ops[k].text ELSE f[k - 1]
    <2>1. \A k \in 1..N : f[k - 1] \in X
        BY <1>1, <1>5
    <2> QED
        BY <1>4, <1>5, <2>1
<1>7. Is(f)
    <2> DEFINE t == [n \in 0..N |-> IF n = 0 THEN << >>
                                    ELSE IF ops[n].type \in {"equal", side}
                                    THEN f[n - 1] \o ops[n].text
                                    ELSE f[n - 1]]
    <2>1. \A n \in 0..N : n # 0 => n \in 1..N
        BY <1>1
    <2>2. \A n \in 0..N : f[n] = t[n]
        BY <1>5, <1>6, <2>1 DEF On
    <2>3. f = [n \in 0..N |-> f[n]] /\ t = [n \in 0..N |-> t[n]]
        BY <1>5
    <2> HIDE DEF t
    <2>4. f = t
        BY <2>2, <2>3
    <2> QED
        BY <2>4 DEF t
<1> DEFINE u == SideUpTo(ops, side)
<1>8. u = CHOOSE g : Is(g)
    BY DEF SideUpTo, N
<1>9. Is(u)
    <2> HIDE DEF Is, u
    <2> QED
        BY <1>7, <1>8
<1>10. u[0] = << >> /\ \A n \in 1..N : u[n] = IF On(ops[n].type, side) THEN u[n - 1] \o ops[n].text ELSE u[n - 1]
    <2> HIDE DEF u
    <2>1. \A n \in 1..N : n # 0 /\ n \in 0..N
        BY <1>1
    <2>2. 0 \in 0..N
        BY <1>1
    <2>3. u[0] = << >>
        BY <1>9, <2>2
    <2>4. ASSUME NEW n \in 1..N
          PROVE  u[n] = IF On(ops[n].type, side) THEN u[n - 1] \o ops[n].text ELSE u[n - 1]
        BY <1>9, <2>1 DEF On
    <2> QED
        BY <2>3, <2>4
<1>11. u \in [0..N -> X]
    <2> DEFINE Typed == {n \in Nat : n =< N => u[n] \in X}
    <2>1. 0 \in Typed
        BY <1>1, <1>10
    <2>2. ASSUME NEW n \in Typed PROVE n + 1 \in Typed
        <3> SUFFICES ASSUME n + 1 =< N PROVE u[n + 1] \in X
            OBVIOUS
        <3>1. n \in Nat /\ n + 1 \in 1..N /\ (n + 1) - 1 = n /\ u[n] \in X
            BY <1>1
        <3>2. u[n + 1] = IF On(ops[n + 1].type, side) THEN u[n] \o ops[n + 1].text ELSE u[n]
            BY <1>10, <3>1
        <3>3. u[n] \o ops[n + 1].text \in Seq(S)
            BY <1>2, <3>1, ConcatProperties DEF X
        <3> QED
            BY <3>1, <3>2, <3>3 DEF X
    <2>3. Typed \in SUBSET Nat
        OBVIOUS
    <2>4. \A n \in Nat : n \in Typed
        <3> HIDE DEF Typed
        <3> QED
            BY <2>1, <2>2, <2>3, AllNumbers
    <2>5. \A n \in 0..N : u[n] \in X
        BY <1>1, <2>4
    <2> HIDE DEF u
    <2> QED
        BY <1>9, <2>5
<1> QED
    BY <1>10, <1>11 DEF X, N, u

\* One more operation adds its text to the sides it belongs to.
LEMMA SideOfAppend ==
    ASSUME NEW S, NEW ops \in Seq(OpsOf(S)), NEW op \in OpsOf(S), NEW side
    PROVE  Side(Append(ops, op), side) =
             IF On(op.type, side) THEN Side(ops, side) \o op.text ELSE Side(ops, side)
<1> DEFINE more == Append(ops, op)
           N == Len(ops)
           f == SideUpTo(ops, side)
           g == SideUpTo(more, side)
           Same == {n \in Nat : n =< N => g[n] = f[n]}
<1>1. /\ more \in Seq(OpsOf(S)) /\ Len(more) = N + 1 /\ N \in Nat
      /\ \A i \in 1..N : more[i] = ops[i]
      /\ more[N + 1] = op
    BY AppendProperties
<1>2. f[0] = << >> /\ \A n \in 1..N :
         f[n] = IF On(ops[n].type, side) THEN f[n - 1] \o ops[n].text ELSE f[n - 1]
    BY SideGoesOn
<1> HIDE DEF more
<1>3. g[0] = << >> /\ \A n \in 1..(N + 1) :
         g[n] = IF On(more[n].type, side) THEN g[n - 1] \o more[n].text ELSE g[n - 1]
    <2>1. g[0] = << >> /\ \A n \in 1..Len(more) :
             g[n] = IF On(more[n].type, side) THEN g[n - 1] \o more[n].text ELSE g[n - 1]
        BY <1>1, SideGoesOn
    <2> QED
        BY <1>1, <2>1
<1> HIDE DEF f, g, N
<1>4. 0 \in Same
    BY <1>2, <1>3
<1>5. ASSUME NEW n \in Same PROVE n + 1 \in Same
    <2> SUFFICES ASSUME n + 1 =< N PROVE g[n + 1] = f[n + 1]
        OBVIOUS
    <2>1. n \in Nat /\ n + 1 \in 1..N /\ n + 1 \in 1..(N + 1) /\ (n + 1) - 1 = n /\ g[n] = f[n]
        BY <1>1
    <2>2. more[n + 1] = ops[n + 1]
        BY <1>1, <2>1
    <2>3. f[n + 1] = IF On(ops[n + 1].type, side) THEN f[n] \o ops[n + 1].text ELSE f[n]
        BY <1>2, <2>1
    <2>4. g[n + 1] = IF On(more[n + 1].type, side) THEN g[n] \o more[n + 1].text ELSE g[n]
        BY <1>3, <2>1
    <2> QED
        BY <2>1, <2>2, <2>3, <2>4
<1>6. Same \in SUBSET Nat
    OBVIOUS
<1>7. g[N] = f[N]
    <2>1. N \in Same
        <3> HIDE DEF Same
        <3> QED
            BY <1>1, <1>4, <1>5, <1>6, AllNumbers
    <2> QED
        BY <1>1, <2>1
<1>8. g[N + 1] = IF On(op.type, side) THEN f[N] \o op.text ELSE f[N]
    <2>1. N + 1 \in 1..(N + 1) /\ (N + 1) - 1 = N
        BY <1>1
    <2>2. g[N + 1] = IF On(more[N + 1].type, side) THEN g[N] \o more[N + 1].text ELSE g[N]
        BY <1>3, <2>1
    <2> QED
        BY <1>1, <1>7, <2>2
<1>9. Side(more, side) = g[N + 1] /\ Side(ops, side) = f[N]
    BY <1>1 DEF Side, f, g, N
<1> QED
    BY <1>8, <1>9 DEF more

LEMMA SideIsText ==
    ASSUME NEW S, NEW ops \in Seq(OpsOf(S)), NEW side
    PROVE  Side(ops, side) \in Seq(S)
<1>1. SideUpTo(ops, side) \in [0..Len(ops) -> Seq(S)]
    BY SideGoesOn
<1>2. Len(ops) \in 0..Len(ops)
    OBVIOUS
<1> QED
    BY <1>1, <1>2 DEF Side

\* Putting texts together in one order, whichever two first.
LEMMA JoinsTogether ==
    ASSUME NEW S, NEW a \in Seq(S), NEW b \in Seq(S), NEW c \in Seq(S)
    PROVE  a \o (b \o c) = (a \o b) \o c
    BY ConcatAssociative

\* It does not matter which of three texts are joined first.
Associates(S) == \A a, b, c \in Seq(S) : (a \o b) \o c = a \o (b \o c)

LEMMA JoinsAlways ==
    ASSUME NEW S
    PROVE  Associates(S)
<1> SUFFICES ASSUME NEW a \in Seq(S), NEW b \in Seq(S), NEW c \in Seq(S)
             PROVE  (a \o b) \o c = a \o (b \o c)
    BY DEF Associates
<1> QED
    BY JoinsTogether

\* A diff whose side has the text of one more operation.
Widens(new, ops, type, text, side) ==
  Side(new, side) = IF On(type, side) THEN Side(ops, side) \o text ELSE Side(ops, side)

\* Appending an operation, merged with the one before it or not, adds its text to the
\* sides it belongs to and to no other.
LEMMA AppendOpSides ==
    ASSUME NEW S, NEW ops \in Seq(OpsOf(S)), NEW type \in {"equal", "delete", "insert"},
           NEW text \in Seq(S), NEW side
    PROVE  /\ AppendOp(ops, type, text) \in Seq(OpsOf(S))
           /\ Widens(AppendOp(ops, type, text), ops, type, text, side)
<1> DEFINE op == [type |-> type, text |-> text]
           new == AppendOp(ops, type, text)
<1>0. Side(ops, side) \in Seq(S)
    BY SideIsText
<1>1. CASE text = << >>
    <2>1. new = ops
        BY <1>1 DEF AppendOp
    <2>2. Side(ops, side) \o text = Side(ops, side)
        BY <1>0, <1>1, ConcatEmptySeq
    <2> HIDE DEF new, Widens
    <2> QED
        BY <2>1, <2>2 DEF new, Widens
<1>2. CASE text # << >> /\ ops # << >> /\ Last(ops).type = type
    <2>1. PICK rest \in Seq(OpsOf(S)), last \in OpsOf(S) : ops = Append(rest, last)
        BY <1>2, SequenceEmptyOrAppend
    <2>2. /\ Len(ops) = Len(rest) + 1 /\ Len(rest) \in Nat /\ ops[Len(rest) + 1] = last
          /\ \A i \in 1..Len(rest) : ops[i] = rest[i]
        BY <2>1, AppendProperties
    <2>3. Last(ops) = last
        BY <2>2 DEF Last
    <2>4. Front(ops) = rest
        <3> DEFINE r == SubSeq(ops, 1, Len(ops) - 1)
        <3>1. Len(ops) - 1 = Len(rest) /\ Len(rest) \in Int
            BY <2>2
        <3>2. \A i \in 1..Len(rest) : ops[i] \in OpsOf(S)
            BY <2>2
        <3>3. /\ SubSeq(ops, 1, Len(rest)) \in Seq(OpsOf(S))
              /\ Len(SubSeq(ops, 1, Len(rest))) = IF 1 =< Len(rest) THEN Len(rest) - 1 + 1 ELSE 0
              /\ \A i \in 1..(Len(rest) - 1 + 1) : SubSeq(ops, 1, Len(rest))[i] = ops[1 + i - 1]
            BY <3>1, <3>2, SubSeqProperties
        <3>4. r = SubSeq(ops, 1, Len(rest))
            BY <3>1
        <3> HIDE DEF r
        <3>5. r \in Seq(OpsOf(S)) /\ Len(r) = Len(rest)
            BY <2>2, <3>3, <3>4
        <3>6. ASSUME NEW i \in 1..Len(rest) PROVE r[i] = rest[i]
            <4>1. i \in 1..(Len(rest) - 1 + 1) /\ 1 + i - 1 = i
                BY <2>2
            <4> QED
                BY <2>2, <3>3, <3>4, <4>1
        <3>7. r = rest
            BY <3>5, <3>6, SeqEqual
        <3> QED
            BY <3>7 DEF Front, r
    <2> DEFINE merged == [type |-> type, text |-> last.text \o text]
    <2>5. last.text \in Seq(S) /\ last.type = type
        BY <1>2, <2>3 DEF OpsOf
    <2>6. last.text \o text \in Seq(S)
        BY <2>5, ConcatProperties
    <2>7. merged \in OpsOf(S)
        BY <2>6 DEF OpsOf
    <2>8. new = Append(rest, merged)
        BY <1>2, <2>3, <2>4 DEF AppendOp
    <2>9. merged.type = type /\ merged.text = last.text \o text
        OBVIOUS
    <2> HIDE DEF merged
    <2>10. Append(rest, merged) \in Seq(OpsOf(S))
        BY <2>7, AppendProperties
    <2>11. Side(Append(rest, merged), side) =
             IF On(type, side) THEN Side(rest, side) \o (last.text \o text) ELSE Side(rest, side)
        BY <2>7, <2>9, SideOfAppend
    <2>12. Side(ops, side) = IF On(type, side) THEN Side(rest, side) \o last.text ELSE Side(rest, side)
        BY <2>1, <2>5, SideOfAppend
    <2>13. Side(rest, side) \o (last.text \o text) = (Side(rest, side) \o last.text) \o text
        <3> DEFINE a == Side(rest, side)
                   b == last.text
        <3>1. a \in Seq(S) /\ b \in Seq(S)
            BY <2>5, SideIsText
        <3> HIDE DEF a, b
        <3>2. a \o (b \o text) = (a \o b) \o text
            BY <3>1, JoinsTogether
        <3> QED
            BY <3>2 DEF a, b
    <2> HIDE DEF new, Widens
    <2> QED
        BY <2>8, <2>10, <2>11, <2>12, <2>13 DEF new, Widens
<1>3. CASE text # << >> /\ ~ (ops # << >> /\ Last(ops).type = type)
    <2>1. new = Append(ops, op)
        BY <1>3 DEF AppendOp
    <2>2. op \in OpsOf(S) /\ op.type = type /\ op.text = text
        BY DEF OpsOf
    <2> HIDE DEF op, new
    <2>3. Append(ops, op) \in Seq(OpsOf(S))
        BY <2>2, AppendProperties
    <2>4. Side(Append(ops, op), side) = IF On(type, side) THEN Side(ops, side) \o text ELSE Side(ops, side)
        BY <2>2, SideOfAppend
    <2> QED
        BY <2>1, <2>3, <2>4 DEF new, Widens
<1> QED
    BY <1>1, <1>2, <1>3

\* Putting the gap before a position after the text before the gap gives the text before the
\* position, and one word more the text up to it.
LEMMA GapCloses ==
    ASSUME NEW S, NEW s \in Seq(S), NEW a \in 0..Len(s), NEW b \in (a + 1)..(Len(s) + 1)
    PROVE  /\ SubSeq(s, a + 1, b - 1) \in Seq(S)
           /\ SubSeq(s, 1, a) \o SubSeq(s, a + 1, b - 1) = SubSeq(s, 1, b - 1)
<1>1. Len(s) \in Nat /\ a \in Nat /\ b \in Nat
    OBVIOUS
<1>2. 1 \in 1..(Len(s) + 1) /\ a \in (1 - 1)..Len(s) /\ b - 1 \in a..Len(s)
    BY <1>1
<1>3. \A i \in (a + 1)..(b - 1) : s[i] \in S
    <2>1. \A i \in (a + 1)..(b - 1) : i \in 1..Len(s)
        BY <1>1
    <2> QED
        BY <2>1
<1>4. a + 1 \in Int /\ b - 1 \in Int
    BY <1>1
<1>5. SubSeq(s, a + 1, b - 1) \in Seq(S)
    BY <1>3, <1>4, SubSeqProperties
<1> QED
    BY <1>2, <1>5, ConcatAdjacentSubSeq

LEMMA WordJoins ==
    ASSUME NEW S, NEW s \in Seq(S), NEW b \in 1..Len(s)
    PROVE  /\ << s[b] >> \in Seq(S)
           /\ SubSeq(s, 1, b - 1) \o << s[b] >> = SubSeq(s, 1, b)
<1>1. 1 \in 1..Len(s) /\ b \in 1..Len(s) /\ s[b] \in S
    OBVIOUS
<1> QED
    BY <1>1, SubSeqRecursiveSecond

\* A diff that adds these texts to the two sides of the one before.
Adds(new, ops, S, gone, come) ==
  /\ new \in Seq(OpsOf(S))
  /\ Side(new, "delete") = Side(ops, "delete") \o gone
  /\ Side(new, "insert") = Side(ops, "insert") \o come

LEMMA SidesWiden ==
    ASSUME NEW S, NEW ops \in Seq(OpsOf(S)), NEW text \in Seq(S)
    PROVE  /\ Adds(AppendOp(ops, "delete", text), ops, S, text, << >>)
           /\ Adds(AppendOp(ops, "insert", text), ops, S, << >>, text)
           /\ Adds(AppendOp(ops, "equal", text), ops, S, text, text)
<1>1. /\ Side(ops, "delete") \o << >> = Side(ops, "delete")
      /\ Side(ops, "insert") \o << >> = Side(ops, "insert")
    BY SideIsText, ConcatEmptySeq
<1>2. ASSUME NEW type \in {"equal", "delete", "insert"}
      PROVE  /\ AppendOp(ops, type, text) \in Seq(OpsOf(S))
             /\ On(type, "delete") => Side(AppendOp(ops, type, text), "delete") = Side(ops, "delete") \o text
             /\ ~ On(type, "delete") => Side(AppendOp(ops, type, text), "delete") = Side(ops, "delete")
             /\ On(type, "insert") => Side(AppendOp(ops, type, text), "insert") = Side(ops, "insert") \o text
             /\ ~ On(type, "insert") => Side(AppendOp(ops, type, text), "insert") = Side(ops, "insert")
    <2> DEFINE new == AppendOp(ops, type, text)
    <2>1. new \in Seq(OpsOf(S)) /\ Widens(new, ops, type, text, "delete")
        BY AppendOpSides
    <2>2. Widens(new, ops, type, text, "insert")
        BY AppendOpSides
    <2> HIDE DEF new
    <2> QED
        BY <2>1, <2>2 DEF new, Widens
<1>3. /\ On("delete", "delete") /\ ~ On("delete", "insert")
      /\ On("insert", "insert") /\ ~ On("insert", "delete")
      /\ On("equal", "delete") /\ On("equal", "insert")
    BY DEF On
<1> QED
    BY <1>1, <1>2, <1>3 DEF Adds

\* Three operations appended one after the other.
LEMMA ThreeOps ==
    ASSUME NEW S, NEW ops \in Seq(OpsOf(S)), NEW gone \in Seq(S), NEW come \in Seq(S),
           NEW same \in Seq(S)
    PROVE  Adds(AppendOp(AppendOp(AppendOp(ops, "delete", gone), "insert", come), "equal", same),
                ops, S, gone \o same, come \o same)
<1> DEFINE one == AppendOp(ops, "delete", gone)
           two == AppendOp(one, "insert", come)
           three == AppendOp(two, "equal", same)
           d == Side(ops, "delete")
           i == Side(ops, "insert")
<1>0. d \in Seq(S) /\ i \in Seq(S)
    BY SideIsText
<1>1. Adds(one, ops, S, gone, << >>)
    BY SidesWiden
<1>2. one \in Seq(OpsOf(S))
    BY <1>1 DEF Adds
<1> HIDE DEF one
<1>3. Adds(two, one, S, << >>, come)
    BY <1>2, SidesWiden
<1>4. two \in Seq(OpsOf(S))
    BY <1>3 DEF Adds
<1> HIDE DEF two
<1>5. Adds(three, two, S, same, same)
    BY <1>4, SidesWiden
<1> HIDE DEF three, d, i
<1>6. d \o gone \in Seq(S) /\ i \o come \in Seq(S)
    BY <1>0, ConcatProperties
<1>7. (d \o gone) \o << >> = d \o gone /\ i \o << >> = i
    BY <1>0, <1>6, ConcatEmptySeq
<1>8. /\ (d \o gone) \o same = d \o (gone \o same)
      /\ (i \o come) \o same = i \o (come \o same)
    <2>0. Associates(S)
        BY JoinsAlways
    <2>1. (d \o gone) \o same = d \o (gone \o same)
        BY <1>0, <2>0, Zenon DEF Associates
    <2>2. (i \o come) \o same = i \o (come \o same)
        BY <1>0, <2>0, Zenon DEF Associates
    <2> QED
        BY <2>1, <2>2
<1>9. Side(three, "delete") = d \o (gone \o same)
    <2>1. /\ Side(one, "delete") = d \o gone
          /\ Side(two, "delete") = Side(one, "delete") \o << >>
          /\ Side(three, "delete") = Side(two, "delete") \o same
        BY <1>1, <1>3, <1>5 DEF Adds, d
    <2> QED
        BY <2>1, <1>7, <1>8
<1>10. Side(three, "insert") = i \o (come \o same)
    <2>1. /\ Side(one, "insert") = i \o << >>
          /\ Side(two, "insert") = Side(one, "insert") \o come
          /\ Side(three, "insert") = Side(two, "insert") \o same
        BY <1>1, <1>3, <1>5 DEF Adds, i
    <2> QED
        BY <2>1, <1>7, <1>8
<1>11. three \in Seq(OpsOf(S))
    BY <1>5 DEF Adds
<1>12. Adds(three, ops, S, gone \o same, come \o same)
    BY <1>9, <1>10, <1>11 DEF Adds, d, i
<1> QED
    BY <1>12 DEF three, two, one

\* A state of the diff that stands for the texts up to where it is.
StandsAt(was, S, o, e) ==
  /\ was.ops \in Seq(OpsOf(S))
  /\ was.at[1] \in 0..Len(o) /\ was.at[2] \in 0..Len(e)
  /\ Side(was.ops, "delete") = SubSeq(o, 1, was.at[1])
  /\ Side(was.ops, "insert") = SubSeq(e, 1, was.at[2])

\* Two texts one after the other.
Joins(a, b, c) == a \o b = c

LEMMA JoinsInTurn ==
    ASSUME NEW S, NEW a \in Seq(S), NEW b \in Seq(S), NEW c \in Seq(S)
    PROVE  \A u, v : Joins(a, b, u) /\ Joins(u, c, v) => Joins(a, b \o c, v)
<1>1. a \o (b \o c) = (a \o b) \o c
    BY JoinsTogether
<1> QED
    BY <1>1 DEF Joins

\* What a match adds: the gaps before it and its word.
LEMMA MatchedStands ==
    ASSUME NEW S, NEW o \in Seq(S), NEW e \in Seq(S), NEW was, StandsAt(was, S, o, e),
           NEW i \in 1..Len(o), NEW j \in 1..Len(e), o[i] = e[j],
           was.at[1] < i, was.at[2] < j
    PROVE  /\ StandsAt(Matched(was, <<i, j>>, o, e), S, o, e)
           /\ Matched(was, <<i, j>>, o, e).at = <<i, j>>
<1> DEFINE gone == SubSeq(o, was.at[1] + 1, i - 1)
           come == SubSeq(e, was.at[2] + 1, j - 1)
           same == << o[i] >>
           ops == was.ops
           new == AppendOp(AppendOp(AppendOp(ops, "delete", gone), "insert", come), "equal", same)
<1>0. Len(o) \in Nat /\ Len(e) \in Nat /\ DOMAIN o = 1..Len(o)
    OBVIOUS
<1>1. Matched(was, <<i, j>>, o, e) = [ops |-> new, at |-> <<i, j>>]
    BY <1>0 DEF Matched
<1>2. /\ gone \in Seq(S)
      /\ SubSeq(o, 1, was.at[1]) \o gone = SubSeq(o, 1, i - 1)
    <2>1. was.at[1] \in 0..Len(o) /\ i \in (was.at[1] + 1)..(Len(o) + 1)
        BY <1>0 DEF StandsAt
    <2> QED
        BY <2>1, GapCloses
<1>3. /\ come \in Seq(S)
      /\ SubSeq(e, 1, was.at[2]) \o come = SubSeq(e, 1, j - 1)
    <2>1. was.at[2] \in 0..Len(e) /\ j \in (was.at[2] + 1)..(Len(e) + 1)
        BY <1>0 DEF StandsAt
    <2> QED
        BY <2>1, GapCloses
<1>4. /\ same \in Seq(S)
      /\ SubSeq(o, 1, i - 1) \o same = SubSeq(o, 1, i)
    BY WordJoins
<1>5. SubSeq(e, 1, j - 1) \o same = SubSeq(e, 1, j)
    BY WordJoins
<1>6. /\ ops \in Seq(OpsOf(S))
      /\ Side(ops, "delete") = SubSeq(o, 1, was.at[1])
      /\ Side(ops, "insert") = SubSeq(e, 1, was.at[2])
    BY DEF StandsAt
<1> HIDE DEF gone, come, same, ops
<1>7. Adds(new, ops, S, gone \o same, come \o same)
    BY <1>2, <1>3, <1>4, <1>6, ThreeOps
<1> HIDE DEF new
<1>8. /\ Side(new, "delete") = SubSeq(o, 1, i)
      /\ Side(new, "insert") = SubSeq(e, 1, j)
    <2>1. Side(ops, "delete") \in Seq(S) /\ Side(ops, "insert") \in Seq(S)
        BY <1>6, SideIsText
    <2>2. gone \in Seq(S) /\ come \in Seq(S) /\ same \in Seq(S)
        BY <1>2, <1>3, <1>4
    <2>3. Side(ops, "delete") \o (gone \o same) = SubSeq(o, 1, i)
        <3>1. /\ Joins(Side(ops, "delete"), gone, SubSeq(o, 1, i - 1))
              /\ Joins(SubSeq(o, 1, i - 1), same, SubSeq(o, 1, i))
            BY <1>2, <1>4, <1>6 DEF Joins
        <3>2. Joins(Side(ops, "delete"), gone \o same, SubSeq(o, 1, i))
            BY <2>1, <2>2, <3>1, JoinsInTurn
        <3> QED
            BY <3>2 DEF Joins
    <2>4. Side(ops, "insert") \o (come \o same) = SubSeq(e, 1, j)
        <3>1. /\ Joins(Side(ops, "insert"), come, SubSeq(e, 1, j - 1))
              /\ Joins(SubSeq(e, 1, j - 1), same, SubSeq(e, 1, j))
            BY <1>3, <1>5, <1>6 DEF Joins
        <3>2. Joins(Side(ops, "insert"), come \o same, SubSeq(e, 1, j))
            BY <2>1, <2>2, <3>1, JoinsInTurn
        <3> QED
            BY <3>2 DEF Joins
    <2>5. /\ Side(new, "delete") = Side(ops, "delete") \o (gone \o same)
          /\ Side(new, "insert") = Side(ops, "insert") \o (come \o same)
        BY <1>7 DEF Adds
    <2> QED
        BY <2>3, <2>4, <2>5
<1>9. i \in 0..Len(o) /\ j \in 0..Len(e)
    BY <1>0
<1>10. new \in Seq(OpsOf(S))
    BY <1>7 DEF Adds
<1> DEFINE met == Matched(was, <<i, j>>, o, e)
<1>11. met.ops = new /\ met.at = <<i, j>> /\ met.at[1] = i /\ met.at[2] = j
    <2> HIDE DEF met
    <2>1. met = [ops |-> new, at |-> <<i, j>>]
        BY <1>1 DEF met
    <2> QED
        BY <2>1
<1> HIDE DEF met
<1>12. StandsAt(met, S, o, e) /\ met.at = <<i, j>>
    BY <1>8, <1>9, <1>10, <1>11 DEF StandsAt
<1> QED
    BY <1>12 DEF met

\* The end of both texts closes the last gaps.
LEMMA EndStands ==
    ASSUME NEW S, NEW o \in Seq(S), NEW e \in Seq(S), NEW was, StandsAt(was, S, o, e)
    PROVE  LET new == Matched(was, <<Len(o) + 1, Len(e) + 1>>, o, e).ops
           IN  Side(new, "delete") = o /\ Side(new, "insert") = e
<1> DEFINE i == Len(o) + 1
           j == Len(e) + 1
           gone == SubSeq(o, was.at[1] + 1, i - 1)
           come == SubSeq(e, was.at[2] + 1, j - 1)
           ops == was.ops
           new == AppendOp(AppendOp(AppendOp(ops, "delete", gone), "insert", come), "equal", << >>)
<1>0. Len(o) \in Nat /\ Len(e) \in Nat /\ DOMAIN o = 1..Len(o) /\ i \notin DOMAIN o
      /\ i - 1 = Len(o) /\ j - 1 = Len(e)
    OBVIOUS
<1>1. Matched(was, <<i, j>>, o, e).ops = new
    BY <1>0 DEF Matched
<1>2. /\ gone \in Seq(S)
      /\ SubSeq(o, 1, was.at[1]) \o gone = SubSeq(o, 1, i - 1)
    <2>1. was.at[1] \in 0..Len(o) /\ i \in (was.at[1] + 1)..(Len(o) + 1)
        BY <1>0 DEF StandsAt
    <2> QED
        BY <2>1, GapCloses
<1>3. /\ come \in Seq(S)
      /\ SubSeq(e, 1, was.at[2]) \o come = SubSeq(e, 1, j - 1)
    <2>1. was.at[2] \in 0..Len(e) /\ j \in (was.at[2] + 1)..(Len(e) + 1)
        BY <1>0 DEF StandsAt
    <2> QED
        BY <2>1, GapCloses
<1>4. SubSeq(o, 1, i - 1) = o /\ SubSeq(e, 1, j - 1) = e
    BY <1>0, SubSeqFull
<1>5. << >> \in Seq(S) /\ o \o << >> = o /\ e \o << >> = e
    BY ConcatEmptySeq
<1>6. /\ ops \in Seq(OpsOf(S))
      /\ Side(ops, "delete") = SubSeq(o, 1, was.at[1])
      /\ Side(ops, "insert") = SubSeq(e, 1, was.at[2])
    BY DEF StandsAt
<1> HIDE DEF gone, come, ops
<1>7. Adds(new, ops, S, gone \o << >>, come \o << >>)
    BY <1>2, <1>3, <1>5, <1>6, ThreeOps
<1> HIDE DEF new
<1>8. Side(new, "delete") = o /\ Side(new, "insert") = e
    <2>1. gone \o << >> = gone /\ come \o << >> = come
        BY <1>2, <1>3, ConcatEmptySeq
    <2>2. Side(new, "delete") = Side(ops, "delete") \o gone /\ Side(new, "insert") = Side(ops, "insert") \o come
        BY <1>7, <2>1 DEF Adds
    <2> QED
        BY <1>2, <1>3, <1>4, <1>6, <2>2
<1> QED
    BY <1>1, <1>8

\* What difflib may match: positions of the two texts that hold the same word and grow
\* together.
LEMMA AlignmentPairs ==
    ASSUME NEW S, NEW o \in Seq(S), NEW e \in Seq(S), NEW m \in Alignments(o, e)
    PROVE  /\ \A x \in m : /\ x = <<x[1], x[2]>> /\ x[1] \in 1..Len(o) /\ x[2] \in 1..Len(e)
                           /\ o[x[1]] = e[x[2]]
           /\ \A x, y \in m : x[1] < y[1] => x[2] < y[2]
<1>1. DOMAIN o = 1..Len(o) /\ DOMAIN e = 1..Len(e)
    OBVIOUS
<1>2. \A x \in m : x \in (DOMAIN o) \X (DOMAIN e) /\ o[x[1]] = e[x[2]]
    BY DEF Alignments
<1>3. \A x, y \in m : x[1] < y[1] => x[2] < y[2]
    BY DEF Alignments
<1>4. ASSUME NEW x \in m
      PROVE  x = <<x[1], x[2]>> /\ x[1] \in 1..Len(o) /\ x[2] \in 1..Len(e) /\ o[x[1]] = e[x[2]]
    <2>1. x \in (1..Len(o)) \X (1..Len(e)) /\ o[x[1]] = e[x[2]]
        BY <1>1, <1>2
    <2> QED
        BY <2>1
<1> QED
    BY <1>3, <1>4

Meets(m, k) == \E x \in m : x[1] = k
Met(m, k) == CHOOSE x \in m : x[1] = k

DiffStates(S, o, e) == [ops : Seq(OpsOf(S)), at : (0..Len(o)) \X (0..Len(e))]

LEMMA MatchedTyped ==
    ASSUME NEW S, NEW o \in Seq(S), NEW e \in Seq(S), NEW was \in DiffStates(S, o, e),
           NEW i \in 1..Len(o), NEW j \in 1..Len(e)
    PROVE  Matched(was, <<i, j>>, o, e) \in DiffStates(S, o, e)
<1> DEFINE gone == SubSeq(o, was.at[1] + 1, i - 1)
           come == SubSeq(e, was.at[2] + 1, j - 1)
           same == << o[i] >>
           ops == was.ops
           new == AppendOp(AppendOp(AppendOp(ops, "delete", gone), "insert", come), "equal", same)
<1>0. Len(o) \in Nat /\ Len(e) \in Nat /\ DOMAIN o = 1..Len(o)
    OBVIOUS
<1>1. Matched(was, <<i, j>>, o, e) = [ops |-> new, at |-> <<i, j>>]
    BY <1>0 DEF Matched
<1>2. ops \in Seq(OpsOf(S)) /\ was.at[1] \in 0..Len(o) /\ was.at[2] \in 0..Len(e)
    BY DEF DiffStates
<1>3. gone \in Seq(S)
    <2>1. \A k \in (was.at[1] + 1)..(i - 1) : k \in 1..Len(o)
        BY <1>0, <1>2
    <2>2. \A k \in (was.at[1] + 1)..(i - 1) : o[k] \in S
        BY <2>1
    <2>3. was.at[1] + 1 \in Int /\ i - 1 \in Int
        BY <1>0, <1>2
    <2> QED
        BY <2>2, <2>3, SubSeqProperties
<1>4. come \in Seq(S)
    <2>1. \A k \in (was.at[2] + 1)..(j - 1) : k \in 1..Len(e)
        BY <1>0, <1>2
    <2>2. \A k \in (was.at[2] + 1)..(j - 1) : e[k] \in S
        BY <2>1
    <2>3. was.at[2] + 1 \in Int /\ j - 1 \in Int
        BY <1>0, <1>2
    <2> QED
        BY <2>2, <2>3, SubSeqProperties
<1>5. same \in Seq(S)
    BY WordJoins
<1> HIDE DEF gone, come, same, ops
<1>6. Adds(new, ops, S, gone \o same, come \o same)
    BY <1>2, <1>3, <1>4, <1>5, ThreeOps
<1>7. new \in Seq(OpsOf(S))
    BY <1>6 DEF Adds
<1> HIDE DEF new
<1>8. <<i, j>> \in (0..Len(o)) \X (0..Len(e))
    BY <1>0
<1>9. [ops |-> new, at |-> <<i, j>>] \in DiffStates(S, o, e)
    BY <1>7, <1>8 DEF DiffStates
<1> QED
    BY <1>1, <1>9

\* The recursion over the positions of the original exists.
LEMMA DiffGoesOn ==
    ASSUME NEW S, NEW o \in Seq(S), NEW e \in Seq(S), NEW m \in Alignments(o, e)
    PROVE  LET u == DiffUpTo(o, e, m) IN
           /\ u[0] = [ops |-> << >>, at |-> <<0, 0>>]
           /\ \A k \in 1..Len(o) :
                u[k] = IF Meets(m, k) THEN Matched(u[k - 1], Met(m, k), o, e) ELSE u[k - 1]
<1> DEFINE X == DiffStates(S, o, e)
           N == Len(o)
           first == [ops |-> << >>, at |-> <<0, 0>>]
           Go(k, w) == IF Meets(m, k) THEN Matched(w, Met(m, k), o, e) ELSE w
           step == [k \in (1..N) \X X |-> Go(k[1], k[2])]
           Is(f) == f = [i \in 0..N |-> IF i = 0 THEN first ELSE Go(i, f[i - 1])]
<1>1. N \in Nat /\ first \in X
    BY DEF DiffStates
<1>2. ASSUME NEW k \in 1..N, NEW w \in X PROVE Go(k, w) \in X
    <2>1. CASE Meets(m, k)
        <3>1. Met(m, k) \in m
            BY <2>1 DEF Meets, Met
        <3> DEFINE x == Met(m, k)
        <3>2. x = <<x[1], x[2]>> /\ x[1] \in 1..Len(o) /\ x[2] \in 1..Len(e)
            BY <3>1, AlignmentPairs
        <3> HIDE DEF x
        <3>3. Matched(w, <<x[1], x[2]>>, o, e) \in X
            BY <3>2, MatchedTyped
        <3>4. Matched(w, x, o, e) \in X
            BY <3>2, <3>3
        <3> QED
            BY <2>1, <3>4 DEF x
    <2>2. CASE ~ Meets(m, k)
        BY <2>2
    <2> QED
        BY <2>1, <2>2
<1> HIDE DEF X, first, Go
<1>3. step \in [(1..N) \X X -> X]
    <2>1. ASSUME NEW k \in (1..N) \X X PROVE Go(k[1], k[2]) \in X
        <3>1. k[1] \in 1..N /\ k[2] \in X
            OBVIOUS
        <3> QED
            BY <1>2, <3>1
    <2> QED
        BY <2>1
<1>4. \A k \in 1..N, w \in X : step[<<k, w>>] = Go(k, w)
    OBVIOUS
<1> HIDE DEF step, N
<1>p. PICK f : Iterates(f, X, first, N, step)
    BY <1>1, <1>3, IterationExists
<1>5. f \in [0..N -> X] /\ f[0] = first /\ \A k \in 1..N : f[k] = step[<<k, f[k - 1]>>]
    BY <1>p DEF Iterates
<1>6. \A k \in 1..N : f[k] = Go(k, f[k - 1])
    <2>1. \A k \in 1..N : f[k - 1] \in X
        BY <1>1, <1>5
    <2> QED
        BY <1>4, <1>5, <2>1
<1>7. Is(f)
    <2> DEFINE t == [i \in 0..N |-> IF i = 0 THEN first ELSE Go(i, f[i - 1])]
    <2>1. \A n \in 0..N : n # 0 => n \in 1..N
        BY <1>1
    <2>2. \A n \in 0..N : f[n] = t[n]
        BY <1>5, <1>6, <2>1
    <2>3. f = [n \in 0..N |-> f[n]] /\ t = [n \in 0..N |-> t[n]]
        BY <1>5
    <2> HIDE DEF t
    <2>4. f = t
        BY <2>2, <2>3
    <2> QED
        BY <2>4 DEF t
<1> DEFINE u == DiffUpTo(o, e, m)
<1>8. u = CHOOSE g : Is(g)
    BY DEF DiffUpTo, N, Go, first, Meets, Met
<1>9. Is(u)
    <2> HIDE DEF Is, u
    <2> QED
        BY <1>7, <1>8
<1>10. u[0] = first /\ \A n \in 1..N : u[n] = Go(n, u[n - 1])
    <2> HIDE DEF u
    <2>1. \A n \in 1..N : n # 0 /\ n \in 0..N
        BY <1>1
    <2>2. 0 \in 0..N
        BY <1>1
    <2>3. u[0] = first
        BY <1>9, <2>2
    <2>4. ASSUME NEW n \in 1..N PROVE u[n] = Go(n, u[n - 1])
        BY <1>9, <2>1
    <2> QED
        BY <2>3, <2>4
<1> QED
    BY <1>10 DEF N, u, first, Go

\* Wherever the walk along the original is, the diff so far stands for the texts up to the
\* last match, and every later match lies behind it in both.
Walked(was, n, S, o, e, m) ==
  /\ StandsAt(was, S, o, e)
  /\ was.at[1] =< n
  /\ \A x \in m : x[1] > n => x[2] > was.at[2]

LEMMA DiffStands ==
    ASSUME NEW S, NEW o \in Seq(S), NEW e \in Seq(S), NEW m \in Alignments(o, e)
    PROVE  StandsAt(DiffUpTo(o, e, m)[Len(o)], S, o, e)
<1> DEFINE u == DiffUpTo(o, e, m)
           N == Len(o)
           Good == {n \in Nat : n =< N => Walked(u[n], n, S, o, e, m)}
<1>0. N \in Nat /\ Len(e) \in Nat
    OBVIOUS
<1>1. /\ u[0] = [ops |-> << >>, at |-> <<0, 0>>]
      /\ \A k \in 1..N : u[k] = IF Meets(m, k) THEN Matched(u[k - 1], Met(m, k), o, e) ELSE u[k - 1]
    BY DiffGoesOn
<1> HIDE DEF u
<1>2. 0 \in Good
    <2>1. u[0].ops = << >> /\ u[0].at[1] = 0 /\ u[0].at[2] = 0
        BY <1>1
    <2>2. << >> \in Seq(OpsOf(S))
        OBVIOUS
    <2>3. \A side : Side(<< >>, side) = << >>
        <3> SUFFICES ASSUME NEW side PROVE Side(<< >>, side) = << >>
            OBVIOUS
        <3>1. SideUpTo(<< >>, side)[0] = << >>
            BY <2>2, SideGoesOn
        <3>2. Len(<< >>) = 0
            OBVIOUS
        <3> QED
            BY <3>1, <3>2 DEF Side
    <2>4. SubSeq(o, 1, 0) = << >> /\ SubSeq(e, 1, 0) = << >>
        BY SubSeqEmpty
    <2>5. 0 \in 0..Len(o) /\ 0 \in 0..Len(e)
        BY <1>0
    <2>6. StandsAt(u[0], S, o, e)
        BY <2>1, <2>2, <2>3, <2>4, <2>5 DEF StandsAt
    <2>7. \A x \in m : x[2] > 0
        <3> SUFFICES ASSUME NEW x \in m PROVE x[2] > 0
            OBVIOUS
        <3>1. x[2] \in 1..Len(e)
            BY AlignmentPairs
        <3> QED
            BY <1>0, <3>1
    <2> QED
        BY <2>1, <2>6, <2>7 DEF Walked
<1>3. ASSUME NEW n \in Good PROVE n + 1 \in Good
    <2> SUFFICES ASSUME n + 1 =< N PROVE Walked(u[n + 1], n + 1, S, o, e, m)
        OBVIOUS
    <2> DEFINE was == u[n]
               new == u[n + 1]
    <2>1. n \in Nat /\ n + 1 \in 1..N /\ (n + 1) - 1 = n /\ Walked(was, n, S, o, e, m)
        BY <1>0
    <2>2. new = IF Meets(m, n + 1) THEN Matched(was, Met(m, n + 1), o, e) ELSE was
        BY <1>1, <2>1
    <2> HIDE DEF was, new
    <2>3. was.at[1] \in Nat /\ was.at[2] \in Nat /\ was.at[1] =< n
        BY <1>0, <2>1 DEF Walked, StandsAt
    <2>4. CASE Meets(m, n + 1)
        <3>1. Met(m, n + 1) \in m /\ Met(m, n + 1)[1] = n + 1
            BY <2>4 DEF Meets, Met
        <3> DEFINE i == Met(m, n + 1)[1]
                   j == Met(m, n + 1)[2]
        <3>2. /\ Met(m, n + 1) = <<i, j>> /\ i \in 1..Len(o) /\ j \in 1..Len(e)
              /\ o[i] = e[j]
            BY <3>1, AlignmentPairs
        <3>3. j > was.at[2]
            BY <2>1, <3>1 DEF Walked
        <3>4. ASSUME NEW y \in m, y[1] > n + 1 PROVE y[2] > j
            <4>1. y[1] \in 1..Len(o) /\ y[2] \in 1..Len(e)
                BY AlignmentPairs
            <4>2. Met(m, n + 1)[1] < y[1] => Met(m, n + 1)[2] < y[2]
                BY <3>1, AlignmentPairs
            <4> QED
                BY <1>0, <2>1, <3>1, <3>2, <3>4, <4>1, <4>2
        <3> HIDE DEF i, j
        <3>5. i = n + 1
            BY <3>1 DEF i
        <3>6. was.at[1] < i /\ was.at[2] < j
            BY <1>0, <2>1, <2>3, <3>2, <3>3, <3>5
        <3>7. StandsAt(was, S, o, e)
            BY <2>1 DEF Walked
        <3>8. /\ StandsAt(Matched(was, <<i, j>>, o, e), S, o, e)
              /\ Matched(was, <<i, j>>, o, e).at = <<i, j>>
            BY <3>2, <3>6, <3>7, MatchedStands
        <3>9. StandsAt(new, S, o, e) /\ new.at = <<i, j>>
            BY <2>2, <2>4, <3>2, <3>8
        <3>10. new.at[1] = n + 1 /\ new.at[2] = j
            BY <3>5, <3>9
        <3>11. Walked(new, n + 1, S, o, e, m)
            BY <2>1, <3>4, <3>9, <3>10 DEF Walked
        <3> QED
            BY <3>11 DEF new
    <2>5. CASE ~ Meets(m, n + 1)
        <3>1. new = was
            BY <2>2, <2>5
        <3>2. ASSUME NEW x \in m, x[1] > n + 1 PROVE x[2] > was.at[2]
            <4>1. x[1] \in 1..Len(o)
                BY AlignmentPairs
            <4>2. x[1] > n
                BY <1>0, <2>1, <3>2, <4>1
            <4> QED
                BY <2>1, <4>2 DEF Walked
        <3>3. was.at[1] =< n + 1 /\ StandsAt(was, S, o, e)
            BY <2>1, <2>3 DEF Walked
        <3>4. Walked(was, n + 1, S, o, e, m)
            BY <3>2, <3>3 DEF Walked
        <3> QED
            BY <3>1, <3>4 DEF new
    <2> QED
        BY <2>4, <2>5
<1>4. Good \in SUBSET Nat
    OBVIOUS
<1>5. N \in Good
    <2> HIDE DEF Good
    <2> QED
        BY <1>0, <1>2, <1>3, <1>4, AllNumbers
<1>6. Walked(u[N], N, S, o, e, m)
    BY <1>0, <1>5
<1> QED
    BY <1>6 DEF Walked, u

\* The diff of two texts gives back both of them, whatever difflib matched.
LEMMA BuildDiffSides ==
    ASSUME NEW S, NEW o \in Seq(S), NEW e \in Seq(S), NEW m \in Alignments(o, e)
    PROVE  /\ Side(BuildDiff(o, e, m), "delete") = o
           /\ Side(BuildDiff(o, e, m), "insert") = e
<1> DEFINE was == DiffUpTo(o, e, m)[Len(o)]
<1>1. StandsAt(was, S, o, e)
    BY DiffStands
<1>2. BuildDiff(o, e, m) = Matched(was, <<Len(o) + 1, Len(e) + 1>>, o, e).ops
    BY DEF BuildDiff
<1> HIDE DEF was
<1>3. LET new == Matched(was, <<Len(o) + 1, Len(e) + 1>>, o, e).ops
      IN  Side(new, "delete") = o /\ Side(new, "insert") = e
    BY <1>1, EndStands
<1> QED
    BY <1>2, <1>3

-----------------------------------------------------------------------------
(* The rows of the library keep their project.                             *)

\* A step of the library adds a row, or writes columns that are not the project.
LEMMA NovelStepKind ==
    ASSUME NovelNext
    PROVE  \/ \E row : Insert(row)
           \/ \E i \in DOMAIN novel : \E changes : Write(i, changes) /\ "project" \notin DOMAIN changes
<1> DEFINE Writes == \E i \in DOMAIN novel : \E changes :
                       Write(i, changes) /\ "project" \notin DOMAIN changes
           Inserts == \E row : Insert(row)
<1>1. ASSUME NEW i \in DOMAIN novel, NEW s, NEW text, NEW k,
             \/ UpdateProject(i, s)
             \/ UpdateCharacter(i, text, s) \/ UpdateWorldEntry(i, text, s)
             \/ UpdatePlotThread(i, text, s) \/ SummarizeChapter(i, text)
             \/ SoftDelete(k, i)
      PROVE  Writes
    <2>1. PICK changes \in {[status |-> s], [draft |-> text, status |-> s], [summary |-> text],
                            [status |-> "deleted"]} : Write(i, changes)
        BY <1>1 DEF UpdateProject, UpdateCharacter, UpdateWorldEntry, UpdatePlotThread,
           SummarizeChapter, SoftDelete
    <2>2. "project" \notin DOMAIN changes
        OBVIOUS
    <2> QED
        BY <2>1, <2>2
<1>2. ASSUME NEW i \in DOMAIN novel, NEW v, MoveChapter(i, v) PROVE Writes
    <2>1. Write(i, [parent |-> v])
        BY <1>2 DEF MoveChapter
    <2>2. "project" \notin DOMAIN [parent |-> v]
        OBVIOUS
    <2> QED
        BY <2>1, <2>2
<1>3. ASSUME NEW i \in DOMAIN novel, NEW draft, NEW final, WriteChapter(i, draft, final) PROVE Writes
    <2>1. Write(i, TextChanges(novel[i], draft, final))
        BY <1>3 DEF WriteChapter
    <2>2. "project" \notin DOMAIN TextChanges(novel[i], draft, final)
        BY DEF TextChanges
    <2> QED
        BY <2>1, <2>2
<1>4. ASSUME NEW i \in DOMAIN novel, NEW number, NEW text, NEW s,
             \/ UpdateVolume(i, number, s) \/ UpdateChapter(i, number, s)
             \/ UpdateScene(i, number, text, s) \/ UpdateTimelineEvent(i, number, text, s)
      PROVE  Writes
    <2>1. PICK changes \in {[status |-> s], [draft |-> text, status |-> s]} :
            Write(i, Joined(changes, Renumbered(i, number)))
        BY <1>4 DEF UpdateVolume, UpdateChapter, UpdateScene, UpdateTimelineEvent
    <2>2. DOMAIN changes \in SUBSET {"draft", "status"} /\ DOMAIN Renumbered(i, number) = {"index", "auto"}
        BY DEF Renumbered
    <2>3. "project" \notin DOMAIN Joined(changes, Renumbered(i, number))
        BY <2>2 DEF Joined
    <2> QED
        BY <2>1, <2>3
<1>5. ASSUME NEW slug, CreateProject(slug) PROVE Inserts
    BY <1>5 DEF CreateProject
<1>6. ASSUME NEW p, NEW n, NEW s, NEW v, NEW t, NEW f,
             \/ CreateVolume(p, n, s) \/ CreateScene(p, n, t, s) \/ CreateTimelineEvent(p, n, t, s)
             \/ CreateChapter(p, v, n, t, f, s)
             \/ CreateCharacter(p, t, s) \/ CreateWorldEntry(p, t, s) \/ CreatePlotThread(p, t, s)
      PROVE  Inserts
    BY <1>6 DEF CreateVolume, CreateScene, CreateTimelineEvent, CreateChapter, CreateCharacter,
       CreateWorldEntry, CreatePlotThread
<1>6a. ASSUME NEW c, NEW number, NEW t, NEW s, CreateScene(c, number, t, s) PROVE Inserts
    BY <1>6a DEF CreateScene
<1> HIDE DEF Writes, Inserts
<1>7. Writes \/ Inserts
    <2>1. CASE \E slug \in Slugs : CreateProject(slug)
        BY <2>1, <1>5
    <2>2. CASE \E p \in DOMAIN novel, n \in Indexes \union {None}, s \in {"live", "archived"} :
                 \/ CreateVolume(p, n, s)
                 \/ \E t \in Drafts : CreateScene(p, n, t, s) \/ CreateTimelineEvent(p, n, t, s)
                 \/ \E v \in DOMAIN novel \union {None}, t, f \in Drafts :
                      CreateChapter(p, v, n, t, f, s)
        BY <2>2, <1>6
    <2>3. CASE \E p \in DOMAIN novel, t \in Drafts, s \in {"live", "archived"} :
                 CreateCharacter(p, t, s) \/ CreateWorldEntry(p, t, s) \/ CreatePlotThread(p, t, s)
        BY <2>3, <1>6
    <2>4. CASE \E i \in DOMAIN novel, v \in DOMAIN novel \union {None} : MoveChapter(i, v)
        BY <2>4, <1>2
    <2>5. CASE \E i \in DOMAIN novel, n \in Indexes \union {None}, s \in Statuses :
                 \/ UpdateVolume(i, n, s) \/ UpdateChapter(i, n, s)
                 \/ \E t \in Drafts : UpdateScene(i, n, t, s) \/ UpdateTimelineEvent(i, n, t, s)
        BY <2>5, <1>4
    <2>6. CASE \E i \in DOMAIN novel, t \in Drafts, s \in Statuses :
                 UpdateCharacter(i, t, s) \/ UpdateWorldEntry(i, t, s) \/ UpdatePlotThread(i, t, s)
        BY <2>6, <1>1
    <2>7. CASE \/ \E i \in DOMAIN novel, s \in Statuses : UpdateProject(i, s)
               \/ \E i \in DOMAIN novel, t \in Drafts : SummarizeChapter(i, t)
        BY <2>7, <1>1
    <2>8. CASE \E i \in DOMAIN novel, draft, final \in Drafts : WriteChapter(i, draft, final)
        BY <2>8, <1>3
    <2>9. CASE \E i \in DOMAIN novel :
                 \/ DeleteProject(i) \/ DeleteVolume(i) \/ DeleteChapter(i) \/ DeleteScene(i)
                 \/ DeleteCharacter(i) \/ DeleteWorldEntry(i) \/ DeletePlotThread(i)
                 \/ DeleteTimelineEvent(i)
        BY <2>9, <1>1 DEF DeleteProject, DeleteVolume, DeleteChapter, DeleteScene,
           DeleteCharacter, DeleteWorldEntry, DeletePlotThread, DeleteTimelineEvent
    <2> QED
        BY <2>1, <2>2, <2>3, <2>4, <2>5, <2>6, <2>7, <2>8, <2>9 DEF NovelNext
<1> QED
    BY <1>7 DEF Writes, Inserts

LEMMA ProjectsStay ==
    ASSUME NovelInv, NovelNext
    PROVE  \A i \in DOMAIN novel : i \in DOMAIN novel' /\ novel'[i].project = novel[i].project
<1>1. CASE \E row : Insert(row)
    <2>1. PICK row : Insert(row)
        BY <1>1
    <2>2. IsTable(novel) /\ novel' = Append(novel, row)
        BY <2>1 DEF Insert, NovelInv, NovelShape
    <2>3. /\ Len(novel) \in Nat /\ DOMAIN novel = 1..Len(novel)
          /\ DOMAIN novel' = 1..(Len(novel) + 1)
          /\ \A i \in DOMAIN novel : novel'[i] = novel[i]
        BY <2>2, TableAppend
    <2> QED
        BY <2>3
<1>2. CASE \E i \in DOMAIN novel : \E changes : Write(i, changes) /\ "project" \notin DOMAIN changes
    <2>1. PICK i \in DOMAIN novel : \E changes : Write(i, changes) /\ "project" \notin DOMAIN changes
        BY <1>2
    <2>5. PICK changes : Write(i, changes) /\ "project" \notin DOMAIN changes
        BY <2>1
    <2> DEFINE row == Joined(changes, novel[i])
    <2>2. "project" \in DOMAIN novel[i]
        BY DEF NovelInv, NovelShape, IsNovelRow, NovelFields
    <2>3. row.project = novel[i].project
        BY <2>5, <2>2 DEF Joined
    <2>4. novel' = [novel EXCEPT ![i] = row]
        BY <2>5 DEF Write
    <2> HIDE DEF row
    <2> QED
        BY <2>3, <2>4
<1> QED
    BY <1>1, <1>2, NovelStepKind

-----------------------------------------------------------------------------
(* The rows of the revisions                                               *)

RevisionFields == {"source", "project", "chapter", "original", "edited", "ops", "hash", "score",
                   "accepted", "status", "stamp"}

\* A row stores the diff and the hash of its own two texts.
IsRevisionRow(row) ==
  /\ DOMAIN row = RevisionFields
  /\ row.original \in Texts /\ row.edited \in Texts
  /\ Side(row.ops, "delete") = row.original
  /\ Side(row.ops, "insert") = row.edited
  /\ row.hash = row.edited

\* Its chapter is a row of its project.
InItsProject(row) ==
  row.chapter # None => row.chapter \in DOMAIN novel /\ novel[row.chapter].project = row.project

RowsInv == IsTable(revision) /\ \A r \in DOMAIN revision :
             IsRevisionRow(revision[r]) /\ InItsProject(revision[r])

\* The diff of two of the texts.
LEMMA DiffOfTexts ==
    ASSUME NEW o \in Texts, NEW e \in Texts, NEW m \in Alignments(o, e)
    PROVE  /\ Side(BuildDiff(o, e, m), "delete") = o
           /\ Side(BuildDiff(o, e, m), "insert") = e
<1>1. o \in Seq(Range(o)) /\ e \in Seq(Range(e))
    BY RevisionAssumption
<1> DEFINE A == Range(o)
           B == Range(e)
<1>2. o \in Seq(A) /\ e \in Seq(B)
    BY <1>1
<1> HIDE DEF A, B
<1>3. o \in Seq(A \cup B) /\ e \in Seq(A \cup B)
    BY <1>2
<1> QED
    BY <1>3, BuildDiffSides

LEMMA CreateKeepsRows ==
    ASSUME RowsInv, NEW source, NEW p, NEW c, NEW o \in Texts, NEW e \in Texts,
           NEW m \in Alignments(o, e), NEW mark, NEW accepted, NEW s,
           Related(p, c), Create(source, p, c, o, e, m, mark, accepted, s), UNCHANGED novel
    PROVE  RowsInv'
<1> DEFINE ops == BuildDiff(o, e, m)
<1>1. Side(ops, "delete") = o /\ Side(ops, "insert") = e
    BY DiffOfTexts
<1>d. revision' = Append(revision,
        [source |-> source, project |-> p, chapter |-> c, original |-> o, edited |-> e,
         ops |-> ops, hash |-> e, score |-> mark, accepted |-> accepted, status |-> s,
         stamp |-> 1])
    BY DEF Create
<1> HIDE DEF ops
<1> DEFINE row == [source |-> source, project |-> p, chapter |-> c, original |-> o, edited |-> e,
                   ops |-> ops, hash |-> e, score |-> mark, accepted |-> accepted, status |-> s,
                   stamp |-> 1]
<1>2. /\ DOMAIN row = RevisionFields
      /\ row.original = o /\ row.edited = e /\ row.ops = ops /\ row.hash = e
      /\ row.chapter = c /\ row.project = p
    BY DEF RevisionFields
<1>3. revision' = Append(revision, row)
    BY <1>d
<1> HIDE DEF row
<1>4. IsRevisionRow(row)
    BY <1>1, <1>2 DEF IsRevisionRow
<1>5. InItsProject(row)
    BY <1>2 DEF InItsProject, Related, Live, HasRow
<1>6. /\ IsTable(revision') /\ Len(revision) \in Nat /\ DOMAIN revision = 1..Len(revision)
      /\ DOMAIN revision' = 1..(Len(revision) + 1)
      /\ \A i \in DOMAIN revision : revision'[i] = revision[i]
      /\ revision'[Len(revision) + 1] = row
    BY <1>3, TableAppend DEF RowsInv
<1>7. ASSUME NEW r \in DOMAIN revision'
      PROVE  IsRevisionRow(revision'[r]) /\ InItsProject(revision'[r])
    <2>1. r \in DOMAIN revision \/ r = Len(revision) + 1
        BY <1>6
    <2> QED
        BY <1>4, <1>5, <1>6, <2>1 DEF RowsInv
<1> QED
    BY <1>6, <1>7 DEF RowsInv, IsRevisionRow, InItsProject

\* An edit brings its text and the diff of it; any other write leaves both alone.
LEMMA UpdateKeepsRows ==
    ASSUME RowsInv, NEW r \in DOMAIN revision, NEW expected, NEW changes,
           UpdateRecord(r, expected, changes), UNCHANGED novel,
           DOMAIN changes \in SUBSET {"edited", "ops", "score", "accepted", "status"},
           "edited" \in DOMAIN changes <=> "ops" \in DOMAIN changes,
           "edited" \in DOMAIN changes =>
             /\ changes.edited \in Texts
             /\ Side(changes.ops, "delete") = revision[r].original
             /\ Side(changes.ops, "insert") = changes.edited
    PROVE  RowsInv'
<1> DEFINE was == revision[r]
           stamped == [was EXCEPT !.stamp = @ + 1]
           first == Joined(changes, stamped)
           hashed == IF "edited" \in DOMAIN changes THEN [hash |-> changes.edited] ELSE << >>
           row == Joined(hashed, first)
<1>0. row = Rewritten(was, changes)
    BY DEF Rewritten
<1>1. revision' = [revision EXCEPT ![r] = row]
    BY <1>0 DEF UpdateRecord
<1>2. IsRevisionRow(was) /\ InItsProject(was) /\ IsTable(revision)
    BY DEF RowsInv
<1> HIDE DEF was
<1>3. DOMAIN stamped = RevisionFields /\ \A x \in RevisionFields \ {"stamp"} : stamped[x] = was[x]
    BY <1>2 DEF IsRevisionRow
<1> HIDE DEF stamped
<1>4. /\ DOMAIN first = RevisionFields
      /\ \A x \in RevisionFields \ {"stamp"} :
           first[x] = IF x \in DOMAIN changes THEN changes[x] ELSE was[x]
    BY <1>3 DEF Joined, RevisionFields
<1> HIDE DEF first
<1>5. /\ "edited" \in DOMAIN changes => DOMAIN hashed = {"hash"} /\ hashed["hash"] = changes.edited
      /\ "edited" \notin DOMAIN changes => DOMAIN hashed = {}
    OBVIOUS
<1> HIDE DEF hashed
<1>6. /\ DOMAIN row = RevisionFields
      /\ \A x \in RevisionFields \ {"hash"} : row[x] = first[x]
      /\ "edited" \in DOMAIN changes => row["hash"] = changes.edited
      /\ "edited" \notin DOMAIN changes => row["hash"] = first["hash"]
    BY <1>4, <1>5 DEF Joined, RevisionFields
<1> HIDE DEF row
<1>7. /\ row.original = was.original /\ row.chapter = was.chapter /\ row.project = was.project
      /\ "edited" \in DOMAIN changes =>
           row.edited = changes.edited /\ row.ops = changes.ops /\ row.hash = changes.edited
      /\ "edited" \notin DOMAIN changes =>
           row.edited = was.edited /\ row.ops = was.ops /\ row.hash = was.hash
    BY <1>4, <1>6 DEF RevisionFields
<1>8. IsRevisionRow(row) /\ InItsProject(row)
    BY <1>2, <1>6, <1>7 DEF IsRevisionRow, InItsProject, was
<1>9. /\ IsTable(revision') /\ DOMAIN revision' = DOMAIN revision
      /\ revision'[r] = row
      /\ \A q \in DOMAIN revision : q # r => revision'[q] = revision[q]
    BY <1>1, <1>2, TableExcept
<1>10. ASSUME NEW q \in DOMAIN revision'
       PROVE  IsRevisionRow(revision'[q]) /\ InItsProject(revision'[q])
    BY <1>8, <1>9 DEF RowsInv
<1> QED
    BY <1>9, <1>10 DEF RowsInv, IsRevisionRow, InItsProject

LEMMA EditKeepsRows ==
    ASSUME RowsInv, NEW r \in DOMAIN revision, NEW expected, NEW e \in Texts,
           NEW m \in Alignments(revision[r].original, e),
           UpdateText(r, expected, e, m), UNCHANGED novel
    PROVE  RowsInv'
<1> DEFINE changes == [edited |-> e, ops |-> BuildDiff(revision[r].original, e, m)]
<1>1. revision[r].original \in Texts
    BY DEF RowsInv, IsRevisionRow
<1>2. /\ Side(BuildDiff(revision[r].original, e, m), "delete") = revision[r].original
      /\ Side(BuildDiff(revision[r].original, e, m), "insert") = e
    BY <1>1, DiffOfTexts
<1>3. UpdateRecord(r, expected, changes)
    BY DEF UpdateText
<1>4. /\ DOMAIN changes = {"edited", "ops"} /\ changes.edited = e
      /\ changes.ops = BuildDiff(revision[r].original, e, m)
    OBVIOUS
<1> HIDE DEF changes
<1> QED
    BY <1>2, <1>3, <1>4, UpdateKeepsRows

LEMMA ReviewKeepsRows ==
    ASSUME RowsInv, NEW r \in DOMAIN revision, NEW expected, NEW mark, NEW accepted, NEW s,
           \/ UpdateReview(r, expected, mark, accepted, s)
           \/ ApproveRevision(r) \/ RejectRevision(r) \/ ArchiveRevision(r)
           \/ MarkDatasetCandidate(r, accepted),
           UNCHANGED novel
    PROVE  RowsInv'
<1>1. PICK changes \in {[score |-> mark, accepted |-> accepted, status |-> s],
                        [status |-> "approved"], [status |-> "rejected"], [status |-> "archived"],
                        [accepted |-> accepted]} : \E x : UpdateRecord(r, x, changes)
    BY DEF UpdateReview, ApproveRevision, RejectRevision, ArchiveRevision, MarkDatasetCandidate
<1>2. /\ DOMAIN changes \in SUBSET {"edited", "ops", "score", "accepted", "status"}
      /\ "edited" \notin DOMAIN changes /\ "ops" \notin DOMAIN changes
    OBVIOUS
<1> QED
    BY <1>1, <1>2, UpdateKeepsRows

-----------------------------------------------------------------------------
(* The drafts kept of a revision                                           *)

Later(i) == {j \in DOMAIN autosave : j > i /\ autosave[j].revision = autosave[i].revision}

DraftsInv == /\ IsTable(autosave) /\ kept \in SUBSET DOMAIN autosave
             /\ NewestDraftsKept

\* The later drafts of one revision, numbered and finitely many.
LEMMA LaterFinite ==
    ASSUME DraftsInv, NEW i \in DOMAIN autosave
    PROVE  /\ IsFiniteSet(Later(i)) /\ Cardinality(Later(i)) \in Nat
           /\ \A j \in Later(i) : Later(j) \in SUBSET Later(i) /\ Cardinality(Later(j)) =< Cardinality(Later(i))
<1>1. DOMAIN autosave = 1..Len(autosave) /\ Len(autosave) \in Nat
    BY TableAppend DEF DraftsInv
<1>2. IsFiniteSet(1..Len(autosave))
    BY <1>1, FS_Interval
<1>3. Later(i) \in SUBSET (1..Len(autosave))
    BY <1>1 DEF Later
<1>4. IsFiniteSet(Later(i))
    BY <1>2, <1>3, FS_Subset
<1>5. Cardinality(Later(i)) \in Nat
    BY <1>4, FS_CardinalityType
<1>6. ASSUME NEW j \in Later(i)
      PROVE  Later(j) \in SUBSET Later(i) /\ Cardinality(Later(j)) =< Cardinality(Later(i))
    <2>1. j \in Nat /\ i \in Nat /\ j > i /\ autosave[j].revision = autosave[i].revision
        BY <1>1 DEF Later
    <2>2. \A x \in Later(j) : x \in Later(i)
        BY <1>1, <2>1 DEF Later
    <2>3. Later(j) \in SUBSET Later(i)
        BY <2>2
    <2> QED
        BY <1>4, <2>3, FS_Subset
<1> QED
    BY <1>4, <1>5, <1>6

LEMMA KeptByLater ==
    ASSUME DraftsInv, NEW i \in DOMAIN autosave, autosave[i].revision # None
    PROVE  i \in kept <=> Cardinality(Later(i)) < Retention
BY DEF DraftsInv, NewestDraftsKept, Later

\* The drafts after a kept one of the same revision are kept as well.
LEMMA LaterAreKept ==
    ASSUME DraftsInv, NEW i \in DOMAIN autosave, autosave[i].revision # None, i \in kept
    PROVE  Later(i) \in SUBSET kept
<1> SUFFICES ASSUME NEW j \in Later(i) PROVE j \in kept
    OBVIOUS
<1>1. j \in DOMAIN autosave /\ autosave[j].revision # None
    BY DEF Later
<1>2. Cardinality(Later(i)) \in Nat /\ Cardinality(Later(j)) =< Cardinality(Later(i))
    BY LaterFinite
<1>3. Cardinality(Later(j)) \in Nat
    BY <1>1, LaterFinite
<1>4. Cardinality(Later(i)) < Retention
    BY KeptByLater
<1>5. Cardinality(Later(j)) < Retention
    BY <1>2, <1>3, <1>4, RevisionAssumption
<1> QED
    BY <1>1, <1>5, KeptByLater

LEMMA AutosaveKeepsDrafts ==
    ASSUME DraftsInv, NEW row, InsertAutosave(row)
    PROVE  DraftsInv'
<1> DEFINE id == Len(autosave) + 1
           r == row.revision
           mine == {i \in kept : autosave[i].revision = row.revision} \union {id}
           After(i) == {j \in DOMAIN autosave' : j > i /\ autosave'[j].revision = autosave'[i].revision}
<1>1. /\ IsTable(autosave') /\ Len(autosave) \in Nat /\ DOMAIN autosave = 1..Len(autosave)
      /\ DOMAIN autosave' = 1..(Len(autosave) + 1)
      /\ \A i \in DOMAIN autosave : autosave'[i] = autosave[i]
      /\ autosave'[Len(autosave) + 1] = row
    BY TableAppend DEF DraftsInv, InsertAutosave
<1>2. kept' = IF r = None THEN kept \union {id} ELSE (kept \ mine) \union Newest(mine)
    BY DEF InsertAutosave
<1>3. kept \in SUBSET DOMAIN autosave
    BY DEF DraftsInv
<1> HIDE DEF r
<1>4. /\ id \in DOMAIN autosave' /\ id \notin DOMAIN autosave /\ autosave'[id].revision = r
      /\ DOMAIN autosave' = DOMAIN autosave \union {id}
      /\ \A i \in DOMAIN autosave : i \in Nat /\ id > i
      /\ id \in Nat
    BY <1>1 DEF r
<1>5. mine = {i \in kept : autosave[i].revision = r} \union {id}
    BY DEF r
<1> HIDE DEF id, mine
<1>6. Newest(mine) \in SUBSET mine /\ mine \in SUBSET DOMAIN autosave'
    BY <1>3, <1>4, <1>5 DEF Newest
<1>7. kept' \in SUBSET DOMAIN autosave'
    BY <1>2, <1>3, <1>4, <1>6
<1>8. \A i \in DOMAIN autosave : autosave[i].revision # r => After(i) = Later(i)
    <2> SUFFICES ASSUME NEW i \in DOMAIN autosave, autosave[i].revision # r PROVE After(i) = Later(i)
        OBVIOUS
    <2>1. \A j : j \in After(i) <=> j \in Later(i)
        BY <1>1, <1>4 DEF Later
    <2> QED
        BY <2>1
<1>9. \A i \in DOMAIN autosave : autosave[i].revision = r => After(i) = Later(i) \union {id}
    <2> SUFFICES ASSUME NEW i \in DOMAIN autosave, autosave[i].revision = r
                 PROVE  After(i) = Later(i) \union {id}
        OBVIOUS
    <2>1. \A j : j \in After(i) <=> j \in Later(i) \union {id}
        BY <1>1, <1>4 DEF Later
    <2> QED
        BY <2>1
<1>10. After(id) = {}
    <2>1. \A j \in DOMAIN autosave' : ~ (j > id)
        BY <1>1, <1>4
    <2> QED
        BY <2>1
<1>11. ASSUME NEW i \in DOMAIN autosave', autosave'[i].revision # None
       PROVE  i \in kept' <=> Cardinality(After(i)) < Retention
    <2>1. CASE i # id /\ autosave'[i].revision # r
        <3>1. i \in DOMAIN autosave /\ autosave[i].revision = autosave'[i].revision
            BY <1>1, <1>4, <2>1
        <3>2. After(i) = Later(i)
            BY <1>8, <2>1, <3>1
        <3>3. i \in kept' <=> i \in kept
            BY <1>2, <1>5, <1>6, <2>1, <3>1
        <3>4. i \in kept <=> Cardinality(Later(i)) < Retention
            BY <1>11, <3>1, KeptByLater
        <3> QED
            BY <3>2, <3>3, <3>4
    <2>2. CASE i = id
        <3>1. r # None
            BY <1>4, <1>11, <2>2
        <3> DEFINE behind == {j \in mine : j > i}
        <3>2. behind = {}
            BY <1>4, <1>6, <1>1, <2>2
        <3>3. i \in mine
            BY <1>5, <2>2
        <3>4. i \in Newest(mine) <=> Cardinality(behind) < Retention
            BY <3>3 DEF Newest
        <3>5. i \in kept' <=> i \in Newest(mine)
            BY <1>2, <3>1, <3>3
        <3>6. After(i) = behind
            BY <1>10, <2>2, <3>2
        <3> HIDE DEF behind, After
        <3> QED
            BY <3>4, <3>5, <3>6
    <2>3. CASE i # id /\ autosave'[i].revision = r
        <3>1. i \in DOMAIN autosave /\ autosave[i].revision = r /\ r # None
            BY <1>1, <1>4, <1>11, <2>3
        <3>2. After(i) = Later(i) \union {id}
            BY <1>9, <3>1
        <3>3. i \in kept <=> Cardinality(Later(i)) < Retention
            BY <3>1, KeptByLater
        <3>4. i \in mine <=> i \in kept
            BY <1>5, <2>3, <3>1
        <3>5. CASE i \in kept
            <4> DEFINE behind == {j \in mine : j > i}
            <4>1. Later(i) \in SUBSET kept
                BY <3>1, <3>5, LaterAreKept
            <4>2. \A j : j \in behind <=> j \in Later(i) \union {id}
                <5>1. \A j \in Later(i) : j \in behind
                    BY <1>5, <3>1, <4>1 DEF Later
                <5>2. id \in behind
                    BY <1>4, <1>5, <3>1
                <5>3. \A j \in behind : j \in Later(i) \union {id}
                    BY <1>3, <1>5, <3>1 DEF Later
                <5> QED
                    BY <5>1, <5>2, <5>3
            <4>3. behind = After(i)
                BY <3>2, <4>2
            <4>4. i \in Newest(mine) <=> Cardinality(behind) < Retention
                BY <3>4, <3>5 DEF Newest
            <4>5. i \in kept' <=> i \in Newest(mine)
                BY <1>2, <3>1, <3>4, <3>5
            <4> HIDE DEF behind, After
            <4> QED
                BY <4>3, <4>4, <4>5
        <3>6. CASE i \notin kept
            <4>1. i \notin kept'
                BY <1>2, <1>6, <3>1, <3>4, <3>6
            <4> DEFINE wide == After(i)
            <4>2. Later(i) \in SUBSET wide
                BY <3>2
            <4>3. IsFiniteSet(wide)
                <5>1. wide \in SUBSET (1..(Len(autosave) + 1))
                    BY <1>1
                <5>2. IsFiniteSet(1..(Len(autosave) + 1))
                    BY <1>1, FS_Interval
                <5> HIDE DEF wide
                <5> QED
                    BY <5>1, <5>2, FS_Subset
            <4> HIDE DEF wide
            <4>4. Cardinality(Later(i)) =< Cardinality(wide) /\ Cardinality(wide) \in Nat
                BY <4>2, <4>3, FS_Subset, FS_CardinalityType
            <4>5. Cardinality(Later(i)) \in Nat
                BY <3>1, LaterFinite
            <4>6. ~ (Cardinality(wide) < Retention)
                BY <3>3, <3>6, <4>4, <4>5, RevisionAssumption
            <4> QED
                BY <4>1, <4>6 DEF wide
        <3> QED
            BY <3>5, <3>6
    <2> QED
        BY <2>1, <2>2, <2>3
<1>12. NewestDraftsKept'
    BY <1>11 DEF NewestDraftsKept
<1> QED
    BY <1>1, <1>7, <1>12 DEF DraftsInv

-----------------------------------------------------------------------------
RevisionInv == NovelInv /\ RowsInv /\ DraftsInv

\* Every call on the revisions keeps their rows and their drafts.
LEMMA RevisionStepKeeps ==
    ASSUME RevisionInv, RevisionNext, UNCHANGED novel
    PROVE  RowsInv' /\ DraftsInv'
<1>1. ASSUME NEW r \in DOMAIN revision, NEW x, NEW changes, UpdateRecord(r, x, changes)
      PROVE  UNCHANGED <<autosave, kept>>
    BY <1>1 DEF UpdateRecord
<1>2. ASSUME UNCHANGED <<autosave, kept>> PROVE DraftsInv'
    BY <1>2 DEF RevisionInv, DraftsInv, NewestDraftsKept
<1>3. RowsInv /\ DraftsInv
    BY DEF RevisionInv
<1>4. CASE \E p \in DOMAIN novel, c \in DOMAIN novel \union {None}, o, e \in Texts, review \in Reviews :
             \E m \in Alignments(o, e) :
               \/ CreateFromGeneration(p, c, o, e, m, review[1], review[2])
               \/ CreateFromChapterDraft(p, c, o, e, m, review[1], review[2])
               \/ CreateManual(p, c, o, e, m, review[1], review[2])
               \/ CreateFromAdapterEvaluation(p, c, o, e, m, review[1])
    <2>0. PICK p \in DOMAIN novel, c \in DOMAIN novel \union {None}, o \in Texts, e \in Texts,
               review \in Reviews :
            \E m \in Alignments(o, e) :
              \/ CreateFromGeneration(p, c, o, e, m, review[1], review[2])
              \/ CreateFromChapterDraft(p, c, o, e, m, review[1], review[2])
              \/ CreateManual(p, c, o, e, m, review[1], review[2])
              \/ CreateFromAdapterEvaluation(p, c, o, e, m, review[1])
        BY <1>4
    <2>1. PICK m \in Alignments(o, e) : \E source, mark, accepted, s :
            Related(p, c) /\ Create(source, p, c, o, e, m, mark, accepted, s)
        BY <2>0 DEF CreateFromGeneration, CreateFromChapterDraft, CreateManual,
           CreateFromAdapterEvaluation
    <2>2. RowsInv'
        BY <1>3, <2>1, CreateKeepsRows
    <2>3. UNCHANGED <<autosave, kept>>
        BY <2>1 DEF Create
    <2> QED
        BY <1>2, <2>2, <2>3
<1>5. ASSUME NEW r \in DOMAIN revision, NEW x, NEW e \in Texts,
             NEW m \in Alignments(revision[r].original, e), UpdateText(r, x, e, m)
      PROVE  RowsInv' /\ DraftsInv'
    <2>1. RowsInv'
        BY <1>3, <1>5, EditKeepsRows
    <2>2. UNCHANGED <<autosave, kept>>
        BY <1>5 DEF UpdateText, UpdateRecord
    <2> QED
        BY <1>2, <2>1, <2>2
<1>6. ASSUME NEW r \in DOMAIN revision, NEW x, NEW mark, NEW accepted, NEW s,
             \/ UpdateReview(r, x, mark, accepted, s)
             \/ ApproveRevision(r) \/ RejectRevision(r) \/ ArchiveRevision(r)
             \/ MarkDatasetCandidate(r, accepted)
      PROVE  RowsInv' /\ DraftsInv'
    <2>1. RowsInv'
        BY <1>3, <1>6, ReviewKeepsRows
    <2>2. UNCHANGED <<autosave, kept>>
        BY <1>6 DEF UpdateReview, ApproveRevision, RejectRevision, ArchiveRevision,
           MarkDatasetCandidate, UpdateRecord
    <2> QED
        BY <1>2, <2>1, <2>2
<1>7. ASSUME NEW row, InsertAutosave(row) PROVE RowsInv' /\ DraftsInv'
    <2>1. UNCHANGED revision
        BY <1>7 DEF InsertAutosave
    <2>2. RowsInv'
        BY <1>3, <2>1 DEF RowsInv, IsRevisionRow, InItsProject
    <2> QED
        BY <1>3, <1>7, <2>2, AutosaveKeepsDrafts
<1>8. CASE \E r \in DOMAIN revision : \E expected \in {None, revision[r].stamp, revision[r].stamp - 1} :
             \/ \E e \in Texts : \E m \in Alignments(revision[r].original, e) : UpdateText(r, expected, e, m)
             \/ \E review \in Reviews, s \in {"reviewing", "archived"} :
                  UpdateReview(r, expected, review[1], review[2], s)
    BY <1>5, <1>6, <1>8
<1>9. CASE \E r \in DOMAIN revision :
             \/ ApproveRevision(r) \/ RejectRevision(r) \/ ArchiveRevision(r)
             \/ \E accepted \in BOOLEAN : MarkDatasetCandidate(r, accepted)
    BY <1>6, <1>9
<1>10. CASE \E r \in DOMAIN revision \union {None}, p \in DOMAIN novel,
               c \in DOMAIN novel \union {None}, t \in Texts : AutosaveRevision(r, p, c, t)
    BY <1>7, <1>10 DEF AutosaveRevision
<1> QED
    BY <1>4, <1>8, <1>9, <1>10 DEF RevisionNext

\* Whatever was created, edited, reviewed, autosaved, deleted or moved: the diff and the
\* hash a revision stores are those of its own two texts, its chapter is a row of its
\* project, and the drafts kept for it are its newest, as many as the retention allows.
THEOREM RevisionsStaySound == RevisionSpec => []RevisionSound
<1>1. NovelInit /\ RevisionInit => RevisionInv
    <2> SUFFICES ASSUME NovelInit, RevisionInit PROVE RevisionInv
        OBVIOUS
    <2>1. NovelInv
        <3>1. DOMAIN novel = {} /\ IsTable(novel)
            BY DEF NovelInit, IsTable
        <3> QED
            BY <3>1 DEF NovelInv, NovelShape, LibrarySound, NovelTree, AutoNumbersDiffer
    <2>2. RowsInv
        <3>1. DOMAIN revision = {} /\ IsTable(revision)
            BY DEF RevisionInit, IsTable
        <3> QED
            BY <3>1 DEF RowsInv
    <2>3. DraftsInv
        <3>1. DOMAIN autosave = {} /\ IsTable(autosave) /\ kept = {}
            BY DEF RevisionInit, IsTable
        <3> QED
            BY <3>1 DEF DraftsInv, NewestDraftsKept
    <2> QED
        BY <2>1, <2>2, <2>3 DEF RevisionInv
<1>2. RevisionInv /\ [\/ NovelNext /\ UNCHANGED revisionVars
                      \/ RevisionNext /\ UNCHANGED novel]_<<novel, revisionVars>> => RevisionInv'
    <2> SUFFICES ASSUME RevisionInv,
                        \/ NovelNext /\ UNCHANGED revisionVars
                        \/ RevisionNext /\ UNCHANGED novel
                        \/ UNCHANGED <<novel, revisionVars>>
                 PROVE  RevisionInv'
        OBVIOUS
    <2>1. CASE NovelNext /\ UNCHANGED revisionVars
        <3>1. NovelInv /\ RowsInv /\ DraftsInv
            BY DEF RevisionInv
        <3>2. NovelInv'
            BY <2>1, <3>1, NovelStepKeeps
        <3>3. \A i \in DOMAIN novel : i \in DOMAIN novel' /\ novel'[i].project = novel[i].project
            BY <2>1, <3>1, ProjectsStay
        <3>4. UNCHANGED revision /\ UNCHANGED autosave /\ UNCHANGED kept
            BY <2>1 DEF revisionVars
        <3>5. RowsInv'
            BY <3>1, <3>3, <3>4 DEF RowsInv, IsRevisionRow, InItsProject
        <3>6. DraftsInv'
            BY <3>1, <3>4 DEF DraftsInv, NewestDraftsKept
        <3> QED
            BY <3>2, <3>5, <3>6 DEF RevisionInv
    <2>2. CASE RevisionNext /\ UNCHANGED novel
        <3>1. NovelInv'
            BY <2>2, NovelStepKeeps DEF RevisionInv
        <3> QED
            BY <2>2, <3>1, RevisionStepKeeps DEF RevisionInv
    <2>3. CASE UNCHANGED <<novel, revisionVars>>
        <3>1. UNCHANGED novel /\ UNCHANGED revision /\ UNCHANGED autosave /\ UNCHANGED kept
            BY <2>3 DEF revisionVars
        <3>2. NovelInv'
            BY <3>1, NovelStepKeeps DEF RevisionInv
        <3> QED
            BY <3>1, <3>2 DEF RevisionInv, RowsInv, IsRevisionRow, InItsProject, DraftsInv, NewestDraftsKept
    <2> QED
        BY <2>1, <2>2, <2>3
<1>3. RevisionInv => RevisionSound
    BY DEF RevisionInv, RowsInv, IsRevisionRow, InItsProject, DraftsInv, RevisionSound,
       RevisionConsistent
<1> QED
    BY <1>1, <1>2, <1>3, PTL DEF RevisionSpec

LEMMA TableLen ==
    ASSUME NEW s, NEW e, IsTable(s)
    PROVE  Len(Append(s, e)) = Len(s) + 1
<1>1. PICK S : s \in Seq(S)
    BY DEF IsTable
<1>2. s \in Seq(S \cup {e})
    BY <1>1
<1> QED
    BY <1>2


-----------------------------------------------------------------------------
(* The order of a list, and what a comprehension keeps of it.              *)

\* x is one of the entries of s.
Among(x, s) == \E n \in DOMAIN s : s[n] = x

\* No two entries of s are the same.
Differ(s) == \A m, n \in DOMAIN s : s[m] = s[n] => m = n

\* Of the entries of s that are in M, x is the first.
Leads(s, M, x) ==
  x \in M /\ \E n \in DOMAIN s : s[n] = x /\ \A k \in 1..(n - 1) : s[k] \notin M

\* Each item of a comprehension is appended to those before, or left out.
LEMMA ThoseStep ==
    ASSUME NEW T, NEW items \in Seq(T), NEW S
    PROVE  LET f == FirstOfThose(items, S) IN
           /\ f \in [0..Len(items) -> Seq(T)]
           /\ f[0] = << >>
           /\ \A k \in 1..Len(items) :
                f[k] = IF k \in S THEN Append(f[k - 1], items[k]) ELSE f[k - 1]
<1> DEFINE N == Len(items)
           X == Seq(T)
           More(k, x) == IF k \in S THEN Append(x, items[k]) ELSE x
           u == FirstOfThose(items, S)
           Is(f) == f = [k \in 0..N |-> IF k = 0 THEN << >> ELSE More(k, f[k - 1])]
           step == [q \in (1..N) \X X |-> More(q[1], q[2])]
<1>1. N \in Nat /\ << >> \in X
    OBVIOUS
<1>2. \A k \in 1..N, x \in X : More(k, x) \in X
    OBVIOUS
<1>3. u = CHOOSE f : Is(f)
    BY DEF FirstOfThose
<1>a. \A k, x : More(k, x) = IF k \in S THEN Append(x, items[k]) ELSE x
    OBVIOUS
<1> HIDE DEF More, X, N
<1>4. step \in [(1..N) \X X -> X] /\ \A k \in 1..N, x \in X : step[<<k, x>>] = More(k, x)
    BY <1>2
<1>5. \E f : Is(f) /\ f \in [0..N -> X]
    <2> HIDE DEF step
    <2>1. PICK f : Iterates(f, X, << >>, N, step)
        BY <1>1, <1>4, IterationExists
    <2>2. f \in [0..N -> X] /\ \A k \in 1..N : f[k - 1] \in X
        BY <1>1, <2>1 DEF Iterates
    <2>3. ASSUME NEW k \in 0..N PROVE f[k] = IF k = 0 THEN << >> ELSE More(k, f[k - 1])
        <3>1. CASE k = 0
            BY <2>1, <3>1 DEF Iterates
        <3>2. CASE k # 0
            <4>1. k \in 1..N
                BY <1>1, <3>2
            <4>2. f[k] = step[<<k, f[k - 1]>>]
                BY <2>1, <4>1 DEF Iterates
            <4> QED
                BY <1>4, <2>2, <3>2, <4>1, <4>2
        <3> QED
            BY <3>1, <3>2
    <2>4. Is(f)
        BY <2>2, <2>3
    <2> QED
        BY <2>2, <2>4
<1>6. Is(u)
    BY <1>3, <1>5
<1> HIDE DEF u, step
<1>7. u[0] = << >> /\ \A k \in 1..N : u[k] = More(k, u[k - 1])
    BY <1>1, <1>6
<1>8. \A k \in Nat : k =< N => u[k] \in X
    <2> DEFINE Typed == {k \in Nat : k =< N => u[k] \in X}
    <2>1. 0 \in Typed /\ Typed \in SUBSET Nat
        BY <1>1, <1>7
    <2>2. ASSUME NEW k \in Typed PROVE k + 1 \in Typed
        <3>1. k \in Nat /\ (k + 1 =< N => u[k + 1] = More(k + 1, u[k]) /\ k + 1 \in 1..N)
            BY <1>1, <1>7
        <3> QED
            BY <1>1, <1>2, <3>1
    <2> HIDE DEF Typed
    <2>3. \A k \in Nat : k \in Typed
        BY <2>1, <2>2, AllNumbers
    <2> QED
        BY <2>3 DEF Typed
<1>9. u \in [0..N -> X]
    BY <1>1, <1>6, <1>8
<1> QED
    BY <1>7, <1>9, <1>a DEF u, N, X

\* The list r is s with one more entry.
Longer(s, r, e, M) ==
  /\ \A x : Among(x, r) <=> Among(x, s) \/ x = e
  /\ \A x : Leads(r, M, x) <=>
       Leads(s, M, x) \/ (x = e /\ e \in M /\ \A k \in DOMAIN s : s[k] \notin M)
  /\ Differ(s) /\ ~ Among(e, s) => Differ(r)

LEMMA AppendLeads ==
    ASSUME NEW T, NEW s \in Seq(T), NEW e \in T, NEW M
    PROVE  Longer(s, Append(s, e), e, M)
<1> DEFINE r == Append(s, e)
           m == Len(s)
<1>1. m \in Nat /\ DOMAIN s = 1..m
    OBVIOUS
<1>2. DOMAIN r = 1..(m + 1) /\ r[m + 1] = e /\ \A k \in 1..m : r[k] = s[k]
    OBVIOUS
<1>3. \A k : k \in 1..(m + 1) <=> k \in 1..m \/ k = m + 1
    BY <1>1
<1> HIDE DEF r, m
<1>4. \A x : Among(x, r) <=> Among(x, s) \/ x = e
    BY <1>1, <1>2, <1>3 DEF Among
<1>5. Differ(s) /\ ~ Among(e, s) => Differ(r)
    BY <1>1, <1>2, <1>3 DEF Among, Differ
<1>6. ASSUME NEW x
      PROVE  Leads(r, M, x) <=>
               Leads(s, M, x) \/ (x = e /\ e \in M /\ \A k \in DOMAIN s : s[k] \notin M)
    <2> DEFINE FirstIs(w, n) == w[n] = x /\ \A k \in 1..(n - 1) : w[k] \notin M
    <2>1. \A n \in 1..m : FirstIs(r, n) <=> FirstIs(s, n)
        <3> SUFFICES ASSUME NEW n \in 1..m PROVE FirstIs(r, n) <=> FirstIs(s, n)
            OBVIOUS
        <3>1. r[n] = s[n] /\ \A k \in 1..(n - 1) : k \in 1..m /\ r[k] = s[k]
            BY <1>1, <1>2
        <3> QED
            BY <3>1
    <2>2. FirstIs(r, m + 1) <=> (x = e /\ \A k \in DOMAIN s : s[k] \notin M)
        <3>1. 1..((m + 1) - 1) = DOMAIN s
            BY <1>1
        <3> QED
            BY <1>1, <1>2, <3>1
    <2>3. Leads(r, M, x) <=> x \in M /\ \E n \in 1..(m + 1) : FirstIs(r, n)
        BY <1>2 DEF Leads
    <2>4. Leads(s, M, x) <=> x \in M /\ \E n \in 1..m : FirstIs(s, n)
        BY <1>1 DEF Leads
    <2> HIDE DEF FirstIs
    <2> QED
        BY <1>3, <2>1, <2>2, <2>3, <2>4
<1> QED
    BY <1>4, <1>5, <1>6 DEF r, Longer

\* Up to the n-th entry of s, x is the first in M.
LeadsUpTo(s, n, M, x) ==
  x \in M /\ \E i \in 1..n : s[i] = x /\ \A k \in 1..(i - 1) : s[k] \notin M

\* The next entry leads those up to it if none before it does.
LEMMA LeadsOn ==
    ASSUME NEW s, NEW n \in Nat, NEW M, NEW x
    PROVE  LeadsUpTo(s, n + 1, M, x) <=>
             \/ LeadsUpTo(s, n, M, x)
             \/ x = s[n + 1] /\ x \in M /\ \A k \in 1..n : s[k] \notin M
<1>1. \A k : k \in 1..(n + 1) <=> k \in 1..n \/ k = n + 1
    OBVIOUS
<1>2. 1..((n + 1) - 1) = 1..n
    OBVIOUS
<1> DEFINE FirstIs(i) == s[i] = x /\ \A k \in 1..(i - 1) : s[k] \notin M
<1>3. LeadsUpTo(s, n + 1, M, x) <=> x \in M /\ \E i \in 1..(n + 1) : FirstIs(i)
    BY DEF LeadsUpTo
<1>4. LeadsUpTo(s, n, M, x) <=> x \in M /\ \E i \in 1..n : FirstIs(i)
    BY DEF LeadsUpTo
<1>5. FirstIs(n + 1) <=> s[n + 1] = x /\ \A k \in 1..n : s[k] \notin M
    BY <1>2
<1> HIDE DEF FirstIs
<1> QED
    BY <1>1, <1>3, <1>4, <1>5

\* A comprehension keeps the order: what leads in it is what led among what it keeps.
LEMMA ThoseLead ==
    ASSUME NEW T, NEW s \in Seq(T), NEW G, NEW M
    PROVE  LET r == Those(s, {n \in DOMAIN s : s[n] \in G}) IN
           /\ r \in Seq(T \cap G)
           /\ Differ(s) => Differ(r)
           /\ \A x : Leads(r, M, x) <=> Leads(s, M \cap G, x)
<1> DEFINE S == {n \in DOMAIN s : s[n] \in G}
           u == FirstOfThose(s, S)
           N == Len(s)
           K == M \cap G
           Is(n) == /\ u[n] \in Seq(T \cap G)
                    /\ \A x : Among(x, u[n]) <=> \E i \in 1..n : s[i] = x /\ x \in G
                    /\ Differ(s) => Differ(u[n])
                    /\ \A x : Leads(u[n], M, x) <=> LeadsUpTo(s, n, K, x)
           Reached == {n \in Nat : n =< N => Is(n)}
<1>1. N \in Nat /\ DOMAIN s = 1..N
    OBVIOUS
<1>2. u[0] = << >> /\ \A n \in 1..N : u[n] = IF n \in S THEN Append(u[n - 1], s[n]) ELSE u[n - 1]
    BY ThoseStep
<1>a. \A n \in 1..N : (n \in S <=> s[n] \in G) /\ s[n] \in T
    BY <1>1
<1> HIDE DEF u, N, S
<1>3. 0 \in Reached /\ Reached \in SUBSET Nat
    <2>1. << >> \in Seq(T \cap G) /\ DOMAIN << >> = {} /\ 1..0 = {}
        OBVIOUS
    <2> QED
        BY <1>2, <2>1 DEF Among, Differ, Leads, LeadsUpTo
<1> HIDE DEF Is
<1>4. ASSUME NEW n \in Reached PROVE n + 1 \in Reached
    <2>1. SUFFICES ASSUME n + 1 =< N PROVE Is(n + 1)
        OBVIOUS
    <2>2. n \in Nat /\ n + 1 \in 1..N /\ (n + 1) - 1 = n /\ n =< N
        BY <1>1, <2>1
    <2>3. /\ u[n] \in Seq(T \cap G)
          /\ \A x : Among(x, u[n]) <=> \E i \in 1..n : s[i] = x /\ x \in G
          /\ Differ(s) => Differ(u[n])
          /\ \A x : Leads(u[n], M, x) <=> LeadsUpTo(s, n, K, x)
        BY <2>2 DEF Is
    <2> DEFINE v == u[n]
               e == s[n + 1]
    <2>4. \A i : i \in 1..(n + 1) <=> i \in 1..n \/ i = n + 1
        BY <2>2
    <2>5. \A x : LeadsUpTo(s, n + 1, K, x) <=>
                   LeadsUpTo(s, n, K, x) \/ (x = e /\ x \in K /\ \A k \in 1..n : s[k] \notin K)
        BY <2>2, LeadsOn
    <2>b. v = u[n] /\ e = s[n + 1]
        OBVIOUS
    <2> HIDE DEF v, e, K
    <2>6. CASE e \in G
        <3>1. u[n + 1] = Append(v, e) /\ e \in T \cap G
            BY <1>2, <1>a, <2>2, <2>6, <2>b
        <3>2. v \in Seq(T \cap G)
            BY <2>3, <2>b
        <3> DEFINE w == Append(v, e)
        <3>a. Longer(v, w, e, M)
            BY <3>1, <3>2, AppendLeads
        <3>4. w \in Seq(T \cap G) /\ u[n + 1] = w
            BY <3>1, <3>2
        <3> HIDE DEF w
        <3>3. /\ \A x : Among(x, u[n + 1]) <=> Among(x, v) \/ x = e
              /\ \A x : Leads(u[n + 1], M, x) <=>
                   Leads(v, M, x) \/ (x = e /\ e \in M /\ \A k \in DOMAIN v : v[k] \notin M)
              /\ Differ(v) /\ ~ Among(e, v) => Differ(u[n + 1])
            BY <3>a, <3>4 DEF Longer
        <3>5. \A x : Among(x, u[n + 1]) <=> \E i \in 1..(n + 1) : s[i] = x /\ x \in G
            BY <2>3, <2>4, <2>6, <2>b, <3>3
        <3>6. Differ(s) => Differ(u[n + 1])
            <4> SUFFICES ASSUME Differ(s) PROVE ~ Among(e, v)
                BY <2>3, <2>b, <3>3
            <4>1. \A i \in 1..n : i \in DOMAIN s /\ n + 1 \in DOMAIN s /\ i # n + 1
                BY <1>1, <2>2
            <4>2. \A i \in 1..n : s[i] # e
                BY <2>b, <4>1 DEF Differ
            <4> QED
                BY <2>3, <2>b, <4>2
        <3>7. (\A k \in DOMAIN v : v[k] \notin M) <=> \A k \in 1..n : s[k] \notin K
            <4>1. \A x : Among(x, v) <=> \E k \in DOMAIN v : v[k] = x
                BY DEF Among
            <4>2. \A x : Among(x, v) <=> \E k \in 1..n : s[k] = x /\ x \in G
                BY <2>3, <2>b
            <4> QED
                BY <4>1, <4>2 DEF K
        <3>8. \A x : Leads(u[n + 1], M, x) <=> LeadsUpTo(s, n + 1, K, x)
            BY <2>3, <2>5, <2>6, <2>b, <3>3, <3>7 DEF K
        <3> QED
            BY <3>4, <3>5, <3>6, <3>8 DEF Is
    <2>7. CASE e \notin G
        <3>1. u[n + 1] = v
            BY <1>2, <1>a, <2>2, <2>7, <2>b
        <3>2. \A x : LeadsUpTo(s, n + 1, K, x) <=> LeadsUpTo(s, n, K, x)
            BY <2>5, <2>7 DEF K
        <3>3. \A x : Among(x, u[n + 1]) <=> \E i \in 1..(n + 1) : s[i] = x /\ x \in G
            BY <2>3, <2>4, <2>7, <2>b, <3>1
        <3> QED
            BY <2>3, <2>b, <3>1, <3>2, <3>3 DEF Is
    <2> QED
        BY <2>6, <2>7
<1> HIDE DEF Reached
<1>5. N \in Reached
    BY <1>1, <1>3, <1>4, AllNumbers
<1>6. Is(N)
    BY <1>1, <1>5 DEF Reached
<1>7. Those(s, S) = u[N]
    BY DEF Those, u, N
<1>8. \A x : Leads(s, K, x) <=> LeadsUpTo(s, N, K, x)
    BY <1>1 DEF Leads, LeadsUpTo
<1> QED
    BY <1>6, <1>7, <1>8 DEF S, Is

\* The list r is s with t moved to its beginning.
MovedFirst(s, r, t) ==
  \A M, x : Leads(r, M, x) <=> (t \in M /\ x = t) \/ (t \notin M /\ Leads(s, M, x))

LEMMA MovedTwice ==
    ASSUME NEW s, NEW r, NEW w, NEW t, MovedFirst(s, r, t), MovedFirst(r, w, t)
    PROVE  MovedFirst(s, w, t)
BY DEF MovedFirst

\* What leads a list that got another first entry.
LEMMA PrependLeads ==
    ASSUME NEW T, NEW s \in Seq(T), NEW t, ~ Among(t, s)
    PROVE  /\ IsTable(<<t>> \o s) /\ MovedFirst(s, <<t>> \o s, t)
           /\ Differ(s) => Differ(<<t>> \o s)
<1> DEFINE r == <<t>> \o s
           m == Len(s)
<1>1. m \in Nat /\ DOMAIN s = 1..m
    OBVIOUS
<1>2. s \in Seq(T \cup {t}) /\ <<t>> \in Seq(T \cup {t}) /\ Len(<<t>>) = 1 /\ <<t>>[1] = t
    OBVIOUS
<1>3. /\ r \in Seq(T \cup {t}) /\ Len(r) = 1 + m
      /\ \A n \in 1..(1 + m) : r[n] = IF n =< 1 THEN <<t>>[n] ELSE s[n - 1]
    BY <1>2, ConcatProperties
<1>4. DOMAIN r = 1..(m + 1)
    BY <1>1, <1>3
<1> HIDE DEF r, m
<1>5. r[1] = t /\ \A n \in 1..m : r[n + 1] = s[n]
    <2>1. 1 \in 1..(1 + m) /\ 1 =< 1
        BY <1>1
    <2>2. ASSUME NEW n \in 1..m PROVE r[n + 1] = s[n]
        <3>1. n + 1 \in 1..(1 + m) /\ ~ (n + 1 =< 1) /\ (n + 1) - 1 = n
            BY <1>1
        <3> QED
            BY <1>3, <3>1
    <2> QED
        BY <1>2, <1>3, <2>1, <2>2
<1>6. \A k : k \in 1..(m + 1) <=> k = 1 \/ \E n \in 1..m : k = n + 1
    <2> SUFFICES ASSUME NEW k PROVE k \in 1..(m + 1) <=> k = 1 \/ \E n \in 1..m : k = n + 1
        OBVIOUS
    <2>1. ASSUME k \in 1..(m + 1), k # 1 PROVE \E n \in 1..m : k = n + 1
        <3>1. k - 1 \in 1..m /\ k = (k - 1) + 1
            BY <1>1, <2>1
        <3> QED
            BY <3>1
    <2> QED
        BY <1>1, <2>1
<1>7. Differ(s) => Differ(r)
    <2> SUFFICES ASSUME Differ(s), NEW i \in 1..(m + 1), NEW j \in 1..(m + 1), r[i] = r[j]
                 PROVE  i = j
        BY <1>4 DEF Differ
    <2>1. \A n \in 1..m : s[n] # t
        BY <1>1 DEF Among
    <2>2. CASE i = 1
        BY <1>5, <1>6, <2>1, <2>2
    <2>3. CASE j = 1
        BY <1>5, <1>6, <2>1, <2>3
    <2>4. CASE i # 1 /\ j # 1
        <3>1. PICK a \in 1..m : i = a + 1
            BY <1>6, <2>4
        <3>2. PICK b \in 1..m : j = b + 1
            BY <1>6, <2>4
        <3>3. s[a] = s[b]
            BY <1>5, <3>1, <3>2
        <3>4. a = b
            BY <1>1, <3>3 DEF Differ
        <3> QED
            BY <3>1, <3>2, <3>4
    <2> QED
        BY <2>2, <2>3, <2>4
<1>8. ASSUME NEW M, NEW x
      PROVE  Leads(r, M, x) <=> (t \in M /\ x = t) \/ (t \notin M /\ Leads(s, M, x))
    <2> DEFINE Lead(w, n) == w[n] = x /\ \A k \in 1..(n - 1) : w[k] \notin M
    <2>1. Leads(r, M, x) <=> x \in M /\ \E n \in 1..(m + 1) : Lead(r, n)
        BY <1>4 DEF Leads
    <2>2. Leads(s, M, x) <=> x \in M /\ \E n \in 1..m : Lead(s, n)
        BY <1>1 DEF Leads
    <2>3. Lead(r, 1) <=> x = t
        <3>1. 1..(1 - 1) = {}
            OBVIOUS
        <3> QED
            BY <1>5, <3>1
    <2>4. ASSUME NEW n \in 1..m PROVE Lead(r, n + 1) <=> Lead(s, n) /\ t \notin M
        <3>1. 1 \in 1..((n + 1) - 1) /\ \A k \in 1..(n - 1) : k + 1 \in 1..((n + 1) - 1) /\ r[k + 1] = s[k]
            BY <1>1, <1>5
        <3>2. ASSUME NEW k \in 1..((n + 1) - 1), k # 1 PROVE k - 1 \in 1..(n - 1) /\ r[k] = s[k - 1]
            <4>1. k - 1 \in 1..(n - 1) /\ k - 1 \in 1..m /\ (k - 1) + 1 = k
                BY <1>1, <3>2
            <4> QED
                BY <1>5, <4>1
        <3>3. r[n + 1] = s[n]
            BY <1>5
        <3> QED
            BY <1>5, <3>1, <3>2, <3>3
    <2> HIDE DEF Lead
    <2>5. (\E n \in 1..(m + 1) : Lead(r, n)) <=> Lead(r, 1) \/ \E n \in 1..m : Lead(r, n + 1)
        BY <1>6
    <2>6. CASE x = t
        <3>1. Lead(r, 1)
            BY <2>3, <2>6
        <3>2. ~ (t \notin M /\ x \in M)
            BY <2>6
        <3> QED
            BY <2>1, <2>2, <2>5, <2>6, <3>1, <3>2
    <2>7. CASE x # t
        BY <2>1, <2>2, <2>3, <2>4, <2>5, <2>7
    <2> QED
        BY <2>6, <2>7
<1>9. IsTable(r)
    BY <1>3 DEF IsTable
<1> QED
    BY <1>7, <1>8, <1>9 DEF r, MovedFirst

\* A list whose t goes to the beginning keeps the order of the others.
LEMMA TouchedList ==
    ASSUME NEW s, IsTable(s), NEW t
    PROVE  LET r == <<t>> \o Those(s, {n \in DOMAIN s : s[n] # t}) IN
           IsTable(r) /\ MovedFirst(s, r, t) /\ (Differ(s) => Differ(r))
<1>1. PICK T : s \in Seq(T)
    BY DEF IsTable
<1> DEFINE G == T \ {t}
           w == Those(s, {n \in DOMAIN s : s[n] \in G})
<1>2. DOMAIN s = 1..Len(s) /\ \A n \in DOMAIN s : s[n] \in T
    BY <1>1
<1>3. {n \in DOMAIN s : s[n] # t} = {n \in DOMAIN s : s[n] \in G}
    BY <1>2
<1>4. w \in Seq(T \cap G) /\ (Differ(s) => Differ(w))
    <2> HIDE DEF G
    <2> QED
        BY <1>1, ThoseLead
<1>5. ASSUME NEW M, NEW x, t \notin M PROVE Leads(w, M, x) <=> Leads(s, M, x)
    <2>1. Leads(w, M, x) <=> Leads(s, M \cap G, x)
        <3> HIDE DEF G
        <3> QED
            BY <1>1, ThoseLead
    <2>2. \A n \in DOMAIN s : s[n] \in M <=> s[n] \in M \cap G
        BY <1>2, <1>5
    <2>3. ASSUME NEW n \in DOMAIN s, NEW k \in 1..(n - 1) PROVE k \in DOMAIN s
        BY <1>1
    <2> HIDE DEF w, G
    <2>4. Leads(s, M, x) <=> Leads(s, M \cap G, x)
        BY <2>2, <2>3 DEF Leads
    <2> QED
        BY <2>1, <2>4
<1>6. ~ Among(t, w)
    <2>1. \A n \in DOMAIN w : w[n] \in G
        BY <1>4
    <2> QED
        BY <2>1 DEF Among
<1> HIDE DEF w, G
<1>7. /\ IsTable(<<t>> \o w) /\ MovedFirst(w, <<t>> \o w, t)
      /\ Differ(w) => Differ(<<t>> \o w)
    BY <1>4, <1>6, PrependLeads
<1>8. MovedFirst(s, <<t>> \o w, t)
    BY <1>5, <1>7 DEF MovedFirst
<1> QED
    BY <1>3, <1>4, <1>7, <1>8 DEF w

-----------------------------------------------------------------------------
(* The prompt studio.  What the tables are after each commit of a call.    *)

IsShipped(text) == \E key \in DOMAIN Shipped, n \in 1..release : text = Shipped[key][n]

\* A template that says it is built in has the hash of a shipped text, or of none.
MetaKnown(meta) == meta.builtin => meta.hash = "none" \/ IsShipped(meta.hash)

TemplateFields == {"project", "active", "status", "meta"}
PromptFields == {"templates", "versions", "recent"}

Tables(p) ==
  /\ DOMAIN p = PromptFields /\ IsTable(p.templates) /\ IsTable(p.versions)
  /\ IsTable(p.recent) /\ Differ(p.recent)
  /\ \A t \in DOMAIN p.templates :
       /\ DOMAIN p.templates[t] = TemplateFields
       /\ p.templates[t].active = None \/ p.templates[t].active \in DOMAIN p.versions
       /\ MetaKnown(p.templates[t].meta)
  /\ \A v \in DOMAIN p.versions : p.versions[v].text \in DOMAIN Schemas

\* A commit only appends: the templates stay, and the versions with their texts.
Extends(p, q) ==
  /\ Tables(q)
  /\ DOMAIN p.templates \subseteq DOMAIN q.templates
  /\ DOMAIN p.versions \subseteq DOMAIN q.versions
  /\ \A v \in DOMAIN p.versions : q.versions[v] = p.versions[v]

LEMMA TouchedFacts ==
    ASSUME NEW p, Tables(p), NEW t
    PROVE  /\ Tables(Touched(p, t))
           /\ Touched(p, t).templates = p.templates /\ Touched(p, t).versions = p.versions
           /\ MovedFirst(p.recent, Touched(p, t).recent, t)
<1> DEFINE q == Touched(p, t)
           s == p.recent
           r == <<t>> \o Those(s, {n \in DOMAIN s : s[n] # t})
<1>1. /\ DOMAIN q = PromptFields /\ q.templates = p.templates /\ q.versions = p.versions
      /\ q.recent = r
    BY DEF Touched, Tables, PromptFields
<1> HIDE DEF q
<1>2. IsTable(r) /\ MovedFirst(s, r, t) /\ Differ(r)
    <2> HIDE DEF s
    <2>1. IsTable(s) /\ Differ(s)
        BY DEF Tables, s
    <2> QED
        BY <2>1, TouchedList
<1> HIDE DEF r
<1>3. Tables(q)
    BY <1>1, <1>2 DEF Tables
<1> QED
    BY <1>1, <1>2, <1>3 DEF q

LEMMA InsertVersionFacts ==
    ASSUME NEW p, Tables(p), NEW t, NEW text \in DOMAIN Schemas, NEW by
    PROVE  LET q == InsertVersion(p, t, text, by)
               v == Len(p.versions) + 1
           IN  /\ Tables(q) /\ Extends(p, q)
               /\ q.templates = p.templates /\ q.recent = p.recent
               /\ Len(q.versions) = v /\ v \in DOMAIN q.versions
               /\ q.versions[v].by = by /\ q.versions[v].text = text
<1> DEFINE number == 1 + Max({0} \union {p.versions[x].number : x \in VersionsOf(p, t)})
           row == [template |-> t, text |-> text, by |-> by, number |-> number]
           q == InsertVersion(p, t, text, by)
           v == Len(p.versions) + 1
<1>1. row.text = text /\ row.by = by
    OBVIOUS
<1>2. /\ DOMAIN q = PromptFields /\ q.templates = p.templates /\ q.versions = Append(p.versions, row)
      /\ q.recent = p.recent
    BY DEF InsertVersion, Tables, PromptFields
<1> HIDE DEF row, q
<1>3. /\ IsTable(q.versions) /\ Len(p.versions) \in Nat /\ DOMAIN p.versions = 1..Len(p.versions)
      /\ DOMAIN q.versions = 1..v
      /\ \A x \in DOMAIN p.versions : q.versions[x] = p.versions[x]
      /\ q.versions[v] = row
    BY <1>2, TableAppend DEF Tables
<1>4. Len(q.versions) = v
    BY <1>2, <1>3, TableLen DEF Tables
<1>5. \A x \in DOMAIN q.versions : q.versions[x].text \in DOMAIN Schemas
    <2>1. \A x \in DOMAIN q.versions : x \in DOMAIN p.versions \/ x = v
        BY <1>3
    <2> QED
        BY <1>1, <1>3, <2>1 DEF Tables
<1>6. DOMAIN p.versions \subseteq DOMAIN q.versions /\ v \in DOMAIN q.versions
    BY <1>3
<1>7. Tables(q)
    BY <1>2, <1>3, <1>5, <1>6 DEF Tables
<1>8. Extends(p, q)
    BY <1>2, <1>3, <1>6, <1>7 DEF Extends
<1> QED
    BY <1>1, <1>2, <1>3, <1>4, <1>6, <1>7, <1>8 DEF q

\* Two rows of a template that belongs to the same project and is as alive.
SameTemplate(x, y) == x.project = y.project /\ x.status = y.status

\* A row of the templates gets another active version or other metadata.
LEMMA RetemplatedFacts ==
    ASSUME NEW p, Tables(p), NEW t, NEW row, NEW q,
           DOMAIN q = PromptFields, q.versions = p.versions, q.recent = p.recent,
           q.templates = [p.templates EXCEPT ![t] = row],
           t \in DOMAIN p.templates =>
             /\ DOMAIN row = TemplateFields
             /\ row.active = None \/ row.active \in DOMAIN p.versions
             /\ MetaKnown(row.meta)
    PROVE  /\ Tables(q) /\ Extends(p, q)
           /\ DOMAIN q.templates = DOMAIN p.templates
           /\ \A u \in DOMAIN p.templates :
                q.templates[u] = IF u = t THEN row ELSE p.templates[u]
<1>1. DOMAIN q.templates = DOMAIN p.templates
    OBVIOUS
<1>2. \A u \in DOMAIN p.templates : q.templates[u] = IF u = t THEN row ELSE p.templates[u]
    OBVIOUS
<1>3. IsTable(q.templates)
    <2>1. CASE t \in DOMAIN p.templates
        BY <2>1, TableExcept DEF Tables
    <2>2. CASE t \notin DOMAIN p.templates
        <3>1. \A u \in DOMAIN p.templates : q.templates[u] = p.templates[u]
            BY <1>2, <2>2
        <3>2. q.templates = [u \in DOMAIN q.templates |-> q.templates[u]]
            OBVIOUS
        <3>3. q.templates = [u \in DOMAIN p.templates |-> q.templates[u]]
            BY <1>1, <3>2
        <3> QED
            BY <3>3, TableMap DEF Tables
    <2> QED
        BY <2>1, <2>2
<1>4. Tables(q)
    BY <1>1, <1>2, <1>3 DEF Tables
<1>5. Extends(p, q)
    BY <1>1, <1>4 DEF Extends
<1> QED
    BY <1>1, <1>2, <1>4, <1>5

LEMMA WithActiveFacts ==
    ASSUME NEW p, Tables(p), NEW t, NEW v \in DOMAIN p.versions
    PROVE  LET q == WithActive(p, t, v) IN
           /\ Tables(q) /\ Extends(p, q) /\ q.versions = p.versions
           /\ DOMAIN q.templates = DOMAIN p.templates
           /\ \A u \in DOMAIN p.templates :
                /\ u # t => q.templates[u] = p.templates[u]
                /\ u = t => q.templates[u].active = v /\ SameTemplate(q.templates[u], p.templates[u])
                            /\ q.templates[u].meta = p.templates[u].meta
           /\ MovedFirst(p.recent, q.recent, t)
<1> DEFINE row == [p.templates[t] EXCEPT !.active = v]
           r == [p EXCEPT !.templates[t].active = v]
           q == WithActive(p, t, v)
<1>1. DOMAIN r = PromptFields /\ r.versions = p.versions /\ r.recent = p.recent
      /\ r.templates = [p.templates EXCEPT ![t] = row]
    BY DEF Tables, PromptFields
<1>2. t \in DOMAIN p.templates =>
        /\ DOMAIN row = TemplateFields /\ row.active = v /\ row.meta = p.templates[t].meta
        /\ MetaKnown(row.meta) /\ SameTemplate(row, p.templates[t])
    BY DEF Tables, TemplateFields, SameTemplate
<1>3. q = Touched(r, t)
    BY DEF WithActive
<1> HIDE DEF row, r, q
<1>4. /\ Tables(r) /\ Extends(p, r) /\ DOMAIN r.templates = DOMAIN p.templates
      /\ \A u \in DOMAIN p.templates : r.templates[u] = IF u = t THEN row ELSE p.templates[u]
    BY <1>1, <1>2, RetemplatedFacts
<1>5. Tables(q) /\ q.templates = r.templates /\ q.versions = r.versions
    BY <1>3, <1>4, TouchedFacts
<1>6. Extends(p, q)
    BY <1>4, <1>5 DEF Extends
<1>7. \A u \in DOMAIN p.templates :
        /\ u # t => q.templates[u] = p.templates[u]
        /\ u = t => q.templates[u].active = v /\ SameTemplate(q.templates[u], p.templates[u])
                    /\ q.templates[u].meta = p.templates[u].meta
    BY <1>2, <1>4, <1>5
<1>8. MovedFirst(p.recent, q.recent, t)
    BY <1>1, <1>3, <1>4, TouchedFacts
<1> QED
    BY <1>1, <1>4, <1>5, <1>6, <1>7, <1>8 DEF q

LEMMA DescribedFacts ==
    ASSUME NEW p, Tables(p), NEW t, NEW meta, MetaKnown(meta)
    PROVE  LET q == Described(p, t, meta) IN
           /\ Tables(q) /\ Extends(p, q) /\ q.versions = p.versions
           /\ DOMAIN q.templates = DOMAIN p.templates
           /\ \A u \in DOMAIN p.templates : q.templates[u].active = p.templates[u].active
           /\ \A u \in DOMAIN p.templates :
                /\ u # t => q.templates[u] = p.templates[u]
                /\ u = t => q.templates[u].meta = meta /\ SameTemplate(q.templates[u], p.templates[u])
           /\ MovedFirst(p.recent, q.recent, t)
<1> DEFINE row == [p.templates[t] EXCEPT !.meta = meta]
           r == [p EXCEPT !.templates[t].meta = meta]
           q == Described(p, t, meta)
<1>1. DOMAIN r = PromptFields /\ r.versions = p.versions /\ r.recent = p.recent
      /\ r.templates = [p.templates EXCEPT ![t] = row]
    BY DEF Tables, PromptFields
<1>2. t \in DOMAIN p.templates =>
        /\ DOMAIN row = TemplateFields /\ row.active = p.templates[t].active /\ row.meta = meta
        /\ row.active = None \/ row.active \in DOMAIN p.versions
        /\ SameTemplate(row, p.templates[t])
    BY DEF Tables, TemplateFields, SameTemplate
<1>3. q = Touched(r, t)
    BY DEF Described
<1> HIDE DEF row, r, q
<1>4. /\ Tables(r) /\ Extends(p, r) /\ DOMAIN r.templates = DOMAIN p.templates
      /\ \A u \in DOMAIN p.templates : r.templates[u] = IF u = t THEN row ELSE p.templates[u]
    BY <1>1, <1>2, RetemplatedFacts
<1>5. Tables(q) /\ q.templates = r.templates /\ q.versions = r.versions
    BY <1>3, <1>4, TouchedFacts
<1>6. Extends(p, q)
    BY <1>4, <1>5 DEF Extends
<1>7. \A u \in DOMAIN p.templates : q.templates[u].active = p.templates[u].active
    BY <1>2, <1>4, <1>5
<1>8. \A u \in DOMAIN p.templates :
        /\ u # t => q.templates[u] = p.templates[u]
        /\ u = t => q.templates[u].meta = meta /\ SameTemplate(q.templates[u], p.templates[u])
    BY <1>2, <1>4, <1>5
<1>9. MovedFirst(p.recent, q.recent, t)
    BY <1>1, <1>3, <1>4, TouchedFacts
<1> QED
    BY <1>1, <1>4, <1>5, <1>6, <1>7, <1>8, <1>9 DEF q

\* Template t of q is new, of this project and with this metadata.
Inserted(p, q, t, project, meta) ==
  /\ DOMAIN q.templates = DOMAIN p.templates \cup {t}
  /\ q.templates[t].project = project /\ q.templates[t].status = "live" /\ q.templates[t].meta = meta
  /\ MovedFirst(p.recent, q.recent, t)

LEMMA InsertTemplateFacts ==
    ASSUME NEW p, Tables(p), NEW project, NEW meta, MetaKnown(meta)
    PROVE  LET q == InsertTemplate(p, project, meta)
               t == Len(p.templates) + 1
           IN  /\ Tables(q) /\ Extends(p, q) /\ q.versions = p.versions
               /\ Len(q.templates) = t /\ t \notin DOMAIN p.templates
               /\ \A u \in DOMAIN p.templates : q.templates[u] = p.templates[u]
               /\ Inserted(p, q, t, project, meta)
<1> DEFINE row == [project |-> project, active |-> None, status |-> "live", meta |-> meta]
           r == [p EXCEPT !.templates = Append(@, row)]
           q == InsertTemplate(p, project, meta)
           t == Len(p.templates) + 1
<1>1. /\ DOMAIN row = TemplateFields /\ row.active = None /\ row.meta = meta
      /\ row.project = project /\ row.status = "live"
    BY DEF TemplateFields
<1>2. q = Touched(r, t)
    BY DEF InsertTemplate
<1> HIDE DEF row, q
<1>3. /\ DOMAIN r = PromptFields /\ r.versions = p.versions /\ r.templates = Append(p.templates, row)
      /\ r.recent = p.recent
    BY DEF Tables, PromptFields
<1> HIDE DEF r
<1>4. /\ IsTable(r.templates) /\ Len(p.templates) \in Nat /\ DOMAIN p.templates = 1..Len(p.templates)
      /\ DOMAIN r.templates = 1..t
      /\ \A x \in DOMAIN p.templates : r.templates[x] = p.templates[x]
      /\ r.templates[t] = row
    BY <1>3, TableAppend DEF Tables
<1>5. Len(r.templates) = t
    BY <1>3, <1>4, TableLen DEF Tables
<1>6. ASSUME NEW x \in DOMAIN r.templates
      PROVE  /\ DOMAIN r.templates[x] = TemplateFields
             /\ r.templates[x].active = None \/ r.templates[x].active \in DOMAIN r.versions
             /\ MetaKnown(r.templates[x].meta)
    <2>1. x \in DOMAIN p.templates \/ x = t
        BY <1>4
    <2> QED
        BY <1>1, <1>3, <1>4, <2>1 DEF Tables
<1>7. Tables(r)
    BY <1>3, <1>4, <1>6 DEF Tables
<1>8. Tables(q) /\ q.templates = r.templates /\ q.versions = r.versions
    BY <1>2, <1>7, TouchedFacts
<1>9. DOMAIN p.templates \subseteq DOMAIN q.templates /\ t \notin DOMAIN p.templates
    BY <1>4, <1>8
<1>10. Extends(p, q)
    BY <1>3, <1>8, <1>9 DEF Extends
<1>11. DOMAIN q.templates = DOMAIN p.templates \cup {t} /\ q.templates[t] = row
    BY <1>4, <1>8
<1>12. MovedFirst(p.recent, q.recent, t)
    BY <1>2, <1>3, <1>7, TouchedFacts
<1>13. Inserted(p, q, t, project, meta)
    BY <1>1, <1>11, <1>12 DEF Inserted
<1> QED
    BY <1>3, <1>4, <1>5, <1>8, <1>9, <1>10, <1>13 DEF q

\* The entries of a sequence put together of two are theirs.
LEMMA ConcatEntries ==
    ASSUME NEW a, NEW b, IsTable(a), IsTable(b)
    PROVE  /\ IsTable(a \o b) /\ Len(a) \in Nat /\ Len(b) \in Nat
           /\ Len(a \o b) = Len(a) + Len(b)
           /\ \A n \in DOMAIN (a \o b) :
                \/ n \in DOMAIN a /\ (a \o b)[n] = a[n]
                \/ n - Len(a) \in DOMAIN b /\ (a \o b)[n] = b[n - Len(a)]
<1>1. PICK A : a \in Seq(A)
    BY DEF IsTable
<1>2. PICK B : b \in Seq(B)
    BY DEF IsTable
<1>3. a \in Seq(A \cup B) /\ b \in Seq(A \cup B)
    BY <1>1, <1>2
<1>4. /\ a \o b \in Seq(A \cup B) /\ Len(a \o b) = Len(a) + Len(b)
      /\ \A n \in 1 .. Len(a) + Len(b) :
           (a \o b)[n] = IF n <= Len(a) THEN a[n] ELSE b[n - Len(a)]
    BY <1>3, ConcatProperties
<1>5. Len(a) \in Nat /\ Len(b) \in Nat /\ DOMAIN a = 1..Len(a) /\ DOMAIN b = 1..Len(b)
    BY <1>1, <1>2
<1>6. DOMAIN (a \o b) = 1..(Len(a) + Len(b))
    BY <1>4
<1>7. ASSUME NEW n \in DOMAIN (a \o b)
      PROVE  \/ n \in DOMAIN a /\ (a \o b)[n] = a[n]
             \/ n - Len(a) \in DOMAIN b /\ (a \o b)[n] = b[n - Len(a)]
    <2>1. n \in 1..(Len(a) + Len(b))
        BY <1>6
    <2>2. CASE n =< Len(a)
        BY <2>1, <2>2, <1>4, <1>5
    <2>3. CASE ~ (n =< Len(a))
        <3>1. n - Len(a) \in 1..Len(b)
            BY <2>1, <2>3, <1>5
        <3>2. (a \o b)[n] = b[n - Len(a)]
            BY <2>1, <2>3, <1>4
        <3> QED
            BY <3>1, <3>2, <1>5
    <2> QED
        BY <2>2, <2>3
<1> QED
    BY <1>4, <1>5, <1>7 DEF IsTable

LEMMA PairEntries ==
    ASSUME NEW x, NEW y
    PROVE  /\ IsTable(<<x, y>>) /\ Len(<<x, y>>) = 2
           /\ \A n \in DOMAIN <<x, y>> : <<x, y>>[n] = x \/ <<x, y>>[n] = y
           /\ Last(<<x, y>>) = y
<1>1. <<x, y>> \in Seq({x, y})
    OBVIOUS
<1>2. Len(<<x, y>>) = 2 /\ <<x, y>>[2] = y /\ <<x, y>>[1] = x /\ DOMAIN <<x, y>> = 1..2
    OBVIOUS
<1>3. \A n \in 1..2 : n = 1 \/ n = 2
    OBVIOUS
<1>4. Last(<<x, y>>) = y
    BY <1>2 DEF Last
<1> DEFINE s == <<x, y>>
<1>5. IsTable(s)
    BY <1>1 DEF IsTable
<1>6. \A n \in DOMAIN s : s[n] = x \/ s[n] = y
    BY <1>2, <1>3
<1> QED
    BY <1>2, <1>4, <1>5, <1>6

LEMMA SingleEntry ==
    ASSUME NEW x
    PROVE  /\ IsTable(<<x>>) /\ Len(<<x>>) = 1
           /\ \A n \in DOMAIN <<x>> : <<x>>[n] = x
           /\ Last(<<x>>) = x
<1>1. <<x>> \in Seq({x})
    OBVIOUS
<1>2. Len(<<x>>) = 1 /\ <<x>>[1] = x /\ DOMAIN <<x>> = 1..1
    OBVIOUS
<1>3. \A n \in 1..1 : n = 1
    OBVIOUS
<1>4. Last(<<x>>) = x
    BY <1>2 DEF Last
<1> DEFINE s == <<x>>
<1>5. IsTable(s)
    BY <1>1 DEF IsTable
<1>6. \A n \in DOMAIN s : s[n] = x
    BY <1>2, <1>3
<1> QED
    BY <1>2, <1>4, <1>5, <1>6

\* Of the templates of p only t may have another active version, one that by wrote.
Switched(p, q, t, by) ==
  /\ Extends(p, q)
  /\ \A u \in DOMAIN p.templates :
       LET is == q.templates[u].active
       IN  \/ is = p.templates[u].active
           \/ u = t /\ is \in DOMAIN q.versions /\ q.versions[is].by = by

\* The same of each commit of a call that starts from p.
Commits(p, s, t, by) ==
  IsTable(s) /\ Len(s) > 0 /\ \A n \in DOMAIN s : Switched(p, s[n], t, by)

LEMMA NewVersionCommits ==
    ASSUME NEW p, Tables(p), NEW t, NEW text \in DOMAIN Schemas, NEW by
    PROVE  Commits(p, NewVersion(p, t, text, by), t, by)
<1> DEFINE q == InsertVersion(p, t, text, by)
           v == Len(p.versions) + 1
           r == WithActive(q, t, v)
<1>1. /\ Tables(q) /\ Extends(p, q) /\ q.templates = p.templates
      /\ Len(q.versions) = v /\ v \in DOMAIN q.versions /\ q.versions[v].by = by
    BY InsertVersionFacts
<1>2. NewVersion(p, t, text, by) = <<q, r>>
    BY <1>1 DEF NewVersion
<1> HIDE DEF q
<1>3. /\ Tables(r) /\ Extends(q, r) /\ r.versions = q.versions
      /\ DOMAIN r.templates = DOMAIN q.templates
      /\ \A u \in DOMAIN q.templates :
           /\ u # t => r.templates[u] = q.templates[u]
           /\ u = t => r.templates[u].active = v
    BY <1>1, WithActiveFacts
<1> HIDE DEF r, v
<1>4. Switched(p, q, t, by)
    BY <1>1 DEF Switched
<1>5. Extends(p, r)
    BY <1>1, <1>3 DEF Extends
<1>6. Switched(p, r, t, by)
    BY <1>1, <1>3, <1>5 DEF Switched
<1> QED
    BY <1>2, <1>4, <1>6, PairEntries DEF Commits

LEMMA NewTemplateCommits ==
    ASSUME NEW p, Tables(p), NEW project, NEW meta, MetaKnown(meta),
           NEW text \in DOMAIN Schemas, NEW by
    PROVE  /\ Len(p.templates) + 1 \notin DOMAIN p.templates
           /\ Commits(p, NewTemplate(p, project, meta, text, by), Len(p.templates) + 1, by)
<1> DEFINE q == InsertTemplate(p, project, meta)
           t == Len(p.templates) + 1
           s == NewVersion(q, t, text, by)
<1>1. /\ Tables(q) /\ Extends(p, q) /\ q.versions = p.versions
      /\ Len(q.templates) = t /\ t \notin DOMAIN p.templates
      /\ \A u \in DOMAIN p.templates : q.templates[u] = p.templates[u]
    BY InsertTemplateFacts
<1>2. NewTemplate(p, project, meta, text, by) = <<q>> \o s
    BY <1>1 DEF NewTemplate
<1> HIDE DEF q
<1>3. Commits(q, s, t, by)
    BY <1>1, NewVersionCommits
<1> HIDE DEF s, t
<1>4. Switched(p, q, t, by)
    BY <1>1 DEF Switched
<1>5. ASSUME NEW n \in DOMAIN s PROVE Switched(p, s[n], t, by)
    <2>1. Switched(q, s[n], t, by)
        BY <1>3 DEF Commits
    <2>2. Extends(p, s[n])
        BY <1>1, <2>1 DEF Extends, Switched
    <2>3. \A u \in DOMAIN p.templates : u \in DOMAIN q.templates /\ q.templates[u] = p.templates[u]
        BY <1>1 DEF Extends
    <2> QED
        BY <2>1, <2>2, <2>3 DEF Switched
<1>6. /\ IsTable(<<q>> \o s) /\ Len(s) \in Nat /\ Len(<<q>> \o s) = 1 + Len(s)
      /\ \A n \in DOMAIN (<<q>> \o s) :
           \/ n \in DOMAIN <<q>> /\ (<<q>> \o s)[n] = <<q>>[n]
           \/ n - 1 \in DOMAIN s /\ (<<q>> \o s)[n] = s[n - 1]
    BY <1>3, SingleEntry, ConcatEntries DEF Commits
<1>7. \A n \in DOMAIN (<<q>> \o s) : Switched(p, (<<q>> \o s)[n], t, by)
    BY <1>4, <1>5, <1>6, SingleEntry
<1>8. Commits(p, <<q>> \o s, t, by)
    BY <1>6, <1>7 DEF Commits
<1> QED
    BY <1>1, <1>2, <1>8 DEF t

LEMMA UpgradeCommits ==
    ASSUME NEW p, Tables(p), NEW t, NEW key,
           BuiltinText(key) \in DOMAIN Schemas, IsShipped(BuiltinText(key))
    PROVE  Commits(p, Upgrade(p, t, key), t, "program")
<1> DEFINE s == NewVersion(p, t, BuiltinText(key), "program")
           meta == BuiltinMeta(key)
           last == Last(s)
           r == Described(last, t, meta)
<1>1. Commits(p, s, t, "program")
    BY NewVersionCommits
<1>2. MetaKnown(meta)
    BY DEF MetaKnown, BuiltinMeta, BuiltinHash
<1>3. Upgrade(p, t, key) = Append(s, r)
    BY DEF Upgrade
<1> HIDE DEF s, meta
<1>4. Len(s) \in DOMAIN s
    BY <1>1, TableAppend DEF Commits
<1>5. Switched(p, last, t, "program")
    BY <1>1, <1>4 DEF Commits, Last
<1> HIDE DEF last
<1>6. /\ Tables(r) /\ Extends(last, r) /\ r.versions = last.versions
      /\ DOMAIN r.templates = DOMAIN last.templates
      /\ \A u \in DOMAIN last.templates : r.templates[u].active = last.templates[u].active
    BY <1>2, <1>5, DescribedFacts DEF Switched, Extends
<1> HIDE DEF r
<1>7. Switched(p, r, t, "program")
    BY <1>5, <1>6 DEF Switched, Extends
<1>8. /\ IsTable(Append(s, r)) /\ Len(s) \in Nat /\ DOMAIN s = 1..Len(s)
      /\ DOMAIN Append(s, r) = 1..(Len(s) + 1)
      /\ \A i \in DOMAIN s : Append(s, r)[i] = s[i]
      /\ Append(s, r)[Len(s) + 1] = r
    BY <1>1, TableAppend DEF Commits
<1>9. Len(Append(s, r)) = Len(s) + 1
    BY <1>1, TableLen DEF Commits
<1>10. \A n \in DOMAIN Append(s, r) : Switched(p, Append(s, r)[n], t, "program")
    <2>1. \A n \in DOMAIN Append(s, r) : n \in DOMAIN s \/ n = Len(s) + 1
        BY <1>8
    <2> QED
        BY <2>1, <1>1, <1>7, <1>8 DEF Commits
<1>11. Len(Append(s, r)) > 0
    BY <1>8, <1>9
<1>12. Commits(p, Append(s, r), t, "program")
    BY <1>8, <1>10, <1>11 DEF Commits
<1> QED
    BY <1>3, <1>12

\* The running release ships a text for every built-in key.
ReleaseFits ==
  /\ release \in Nat \ {0}
  /\ \A key \in DOMAIN Shipped : release =< Len(Shipped[key])

LEMMA BuiltinIsShipped ==
    ASSUME ReleaseFits, NEW key \in DOMAIN Shipped
    PROVE  BuiltinText(key) \in DOMAIN Schemas /\ IsShipped(BuiltinText(key))
<1>1. Shipped[key] \in Seq(DOMAIN Schemas)
    BY PromptAssumption
<1>2. release \in 1..Len(Shipped[key]) /\ release \in 1..release
    BY <1>1 DEF ReleaseFits
<1>3. Shipped[key][release] \in DOMAIN Schemas
    BY <1>1, <1>2
<1> QED
    BY <1>2, <1>3 DEF BuiltinText, IsShipped

\* Where q has another active version than p, the version of p is a built-in text.
ProgramKept(p, q) ==
  /\ Extends(p, q)
  /\ \A t \in DOMAIN p.templates :
       LET was == p.templates[t].active
       IN  q.templates[t].active = was \/ (was # None /\ IsShipped(p.versions[was].text))

\* The same of each of some commits, which may be none.
AllKept(p, s) == IsTable(s) /\ \A n \in DOMAIN s : ProgramKept(p, s[n])

LEMMA UpgradeKeeps ==
    ASSUME Tables(prompt), ReleaseFits, NEW q, ProgramKept(prompt, q),
           NEW key \in DOMAIN Shipped, NEW t, Pristine(q, t)
    PROVE  AllKept(prompt, Upgrade(q, t, key))
<1> DEFINE s == Upgrade(q, t, key)
<1>1. Tables(q)
    BY DEF ProgramKept, Extends
<1>2. Commits(q, s, t, "program")
    BY <1>1, BuiltinIsShipped, UpgradeCommits
<1> HIDE DEF s
<1>3. ASSUME t \in DOMAIN prompt.templates
      PROVE  LET was == prompt.templates[t].active
             IN  was # None /\ IsShipped(prompt.versions[was].text)
    <2> DEFINE is == q.templates[t].active
               was == prompt.templates[t].active
    <2>1. CASE is = was
        <3>1. is # None /\ q.templates[t].meta.builtin /\ q.templates[t].meta.hash = q.versions[is].text
            BY DEF Pristine
        <3>2. was \in DOMAIN prompt.versions
            BY <1>3, <2>1, <3>1 DEF Tables
        <3>3. q.versions[is] = prompt.versions[was] /\ prompt.versions[was].text \in DOMAIN Schemas
            BY <2>1, <3>2 DEF ProgramKept, Extends, Tables
        <3>4. MetaKnown(q.templates[t].meta)
            BY <1>1, <1>3 DEF ProgramKept, Extends, Tables
        <3>5. IsShipped(prompt.versions[was].text)
            BY <3>1, <3>3, <3>4, PromptAssumption DEF MetaKnown
        <3> QED
            BY <2>1, <3>1, <3>5
    <2>2. CASE is # was
        BY <1>3, <2>2 DEF ProgramKept
    <2> QED
        BY <2>1, <2>2
<1>4. ASSUME NEW n \in DOMAIN s PROVE ProgramKept(prompt, s[n])
    <2> DEFINE r == s[n]
    <2>1. Switched(q, r, t, "program")
        BY <1>2 DEF Commits
    <2> HIDE DEF r
    <2>2. Extends(prompt, r)
        BY <2>1 DEF Switched, Extends, ProgramKept
    <2>3. ASSUME NEW u \in DOMAIN prompt.templates
          PROVE  LET was == prompt.templates[u].active
                 IN  r.templates[u].active = was \/ (was # None /\ IsShipped(prompt.versions[was].text))
        <3>1. CASE u = t
            BY <1>3, <3>1
        <3>2. CASE u # t
            <4>1. u \in DOMAIN q.templates
                BY DEF ProgramKept, Extends
            <4>2. r.templates[u].active = q.templates[u].active
                BY <2>1, <3>2, <4>1 DEF Switched
            <4> QED
                BY <4>2 DEF ProgramKept
        <3> QED
            BY <3>1, <3>2
    <2>4. ProgramKept(prompt, r)
        BY <2>2, <2>3 DEF ProgramKept
    <2> QED
        BY <2>4 DEF r
<1> QED
    BY <1>2, <1>4 DEF AllKept, Commits, s

LEMMA InstallKeeps ==
    ASSUME Tables(prompt), ReleaseFits, NEW q, ProgramKept(prompt, q), NEW key \in DOMAIN Shipped
    PROVE  AllKept(prompt, NewTemplate(q, None, BuiltinMeta(key), BuiltinText(key), "program"))
<1> DEFINE s == NewTemplate(q, None, BuiltinMeta(key), BuiltinText(key), "program")
           t == Len(q.templates) + 1
<1>1. Tables(q)
    BY DEF ProgramKept, Extends
<1>2. MetaKnown(BuiltinMeta(key))
    BY BuiltinIsShipped DEF MetaKnown, BuiltinMeta, BuiltinHash
<1>3. t \notin DOMAIN q.templates /\ Commits(q, s, t, "program")
    BY <1>1, <1>2, BuiltinIsShipped, NewTemplateCommits
<1> HIDE DEF s, t
<1>4. ASSUME NEW n \in DOMAIN s PROVE ProgramKept(prompt, s[n])
    <2> DEFINE r == s[n]
    <2>1. Switched(q, r, t, "program")
        BY <1>3 DEF Commits
    <2> HIDE DEF r
    <2>2. Extends(prompt, r)
        BY <2>1 DEF Switched, Extends, ProgramKept
    <2>3. \A u \in DOMAIN prompt.templates : r.templates[u].active = q.templates[u].active
        BY <1>3, <2>1 DEF Switched, ProgramKept, Extends
    <2>4. ProgramKept(prompt, r)
        BY <2>2, <2>3 DEF ProgramKept
    <2> QED
        BY <2>4 DEF r
<1> QED
    BY <1>3, <1>4 DEF AllKept, Commits, s

LEMMA EnsureKeyKeeps ==
    ASSUME Tables(prompt), ReleaseFits, NEW q, ProgramKept(prompt, q),
           NEW key \in DOMAIN Shipped, NEW listed
    PROVE  AllKept(prompt, EnsureKey(q, key, listed))
<1> DEFINE carriers == {n \in DOMAIN listed : q.templates[listed[n]].meta.key = key}
           t == listed[Min(carriers)]
           install == NewTemplate(q, None, BuiltinMeta(key), BuiltinText(key), "program")
           upgrade == Upgrade(q, t, key)
           old == q.versions[q.templates[t].active].text # BuiltinText(key)
           s == EnsureKey(q, key, listed)
<1>1. s = CASE carriers = {} -> install
            [] carriers # {} /\ Pristine(q, t) /\ old -> upgrade
            [] OTHER -> << >>
    BY DEF EnsureKey
<1>2. AllKept(prompt, install)
    BY InstallKeeps
<1>3. Pristine(q, t) => AllKept(prompt, upgrade)
    <2> HIDE DEF t
    <2> QED
        BY UpgradeKeeps
<1>4. AllKept(prompt, << >>)
    <2>1. << >> \in Seq({})
        OBVIOUS
    <2> QED
        BY <2>1 DEF AllKept, IsTable
<1> HIDE DEF install, upgrade, old, t, carriers, s
<1>5. s = install \/ (Pristine(q, t) /\ s = upgrade) \/ s = << >>
    BY <1>1
<1> QED
    BY <1>2, <1>3, <1>4, <1>5 DEF s

-----------------------------------------------------------------------------
\* The recursion over the keys exists and does what it says.
LEMMA CommitsGoOn ==
    ASSUME NEW p
    PROVE  LET f == CommitsUpTo(p) IN
           /\ f[0] = <<p>>
           /\ \A n \in 1..Len(Keys) :
                f[n] = f[n - 1] \o EnsureKey(Last(f[n - 1]), Keys[n], ListGlobal(p))
<1> DEFINE N == Len(Keys)
           first == <<p>>
           listed == ListGlobal(p)
           More(n, x) == x \o EnsureKey(Last(x), Keys[n], listed)
           Is(f, m) == f = [n \in 0..m |-> IF n = 0 THEN first ELSE More(n, f[n - 1])]
           Reached == {m \in Nat : \E f : Is(f, m)}
           u == CommitsUpTo(p)
<1>1. N \in Nat
    BY PromptAssumption
<1>2. u = CHOOSE f : Is(f, N)
    BY DEF CommitsUpTo
<1>a. \A n, x : More(n, x) = x \o EnsureKey(Last(x), Keys[n], ListGlobal(p))
    OBVIOUS
<1> HIDE DEF More, first, listed, u
<1>3. 0 \in Reached
    <2> DEFINE g == [n \in 0..0 |-> first]
    <2>1. Is(g, 0)
        OBVIOUS
    <2> QED
        BY <2>1
<1>4. ASSUME NEW m \in Reached PROVE m + 1 \in Reached
    <2>1. m \in Nat
        OBVIOUS
    <2>2. PICK f : Is(f, m)
        OBVIOUS
    <2> HIDE DEF Reached
    <2> DEFINE last == More(m + 1, f[m])
               g == [k \in 0..(m + 1) |-> IF k = m + 1 THEN last ELSE f[k]]
    <2>3. \A k \in 0..m : f[k] = IF k = 0 THEN first ELSE More(k, f[k - 1])
        BY <2>2
    <2>4. g[m + 1] = last /\ \A k \in 0..m : g[k] = f[k]
        BY <2>1
    <2>5. g = [k \in 0..(m + 1) |-> g[k]]
        OBVIOUS
    <2> HIDE DEF g
    <2>6. ASSUME NEW k \in 0..(m + 1) PROVE g[k] = IF k = 0 THEN first ELSE More(k, g[k - 1])
        <3>1. CASE k = m + 1
            <4>1. k # 0 /\ k - 1 = m /\ g[k - 1] = f[m]
                BY <2>1, <2>4, <3>1
            <4> QED
                BY <2>4, <3>1, <4>1 DEF last
        <3>2. CASE k # m + 1
            <4>1. k \in 0..m /\ (k # 0 => k - 1 \in 0..m)
                BY <2>1, <3>2
            <4> QED
                BY <2>3, <2>4, <4>1
        <3> QED
            BY <3>1, <3>2
    <2>7. Is(g, m + 1)
        BY <2>5, <2>6
    <2> QED
        BY <2>1, <2>7 DEF Reached
<1>5. N \in Reached
    <2>1. Reached \in SUBSET Nat
        OBVIOUS
    <2> HIDE DEF Reached
    <2> QED
        BY <1>1, <1>3, <1>4, <2>1, AllNumbers
<1>6. Is(u, N)
    <2>1. \E f : Is(f, N)
        BY <1>5
    <2> HIDE DEF Is
    <2> QED
        BY <1>2, <2>1
<1>7. \A n \in 0..N : u[n] = IF n = 0 THEN first ELSE More(n, u[n - 1])
    BY <1>6
<1>8. u[0] = first /\ \A n \in 1..N : n \in 0..N /\ n # 0
    BY <1>1, <1>7
<1>9. \A n \in 1..N : u[n] = u[n - 1] \o EnsureKey(Last(u[n - 1]), Keys[n], ListGlobal(p))
    BY <1>7, <1>8, <1>a
<1> QED
    BY <1>8, <1>9 DEF first, u

LEMMA EnsureKeeps ==
    ASSUME Tables(prompt), ReleaseFits
    PROVE  AllKept(prompt, EnsureCommits(prompt))
<1> DEFINE f == CommitsUpTo(prompt)
           N == Len(Keys)
           Full(s) == AllKept(prompt, s) /\ Len(s) > 0
           S == {n \in Nat : n =< N => Full(f[n])}
<1>1. N \in Nat /\ \A n \in 1..N : Keys[n] \in DOMAIN Shipped
    BY PromptAssumption
<1>2. f[0] = <<prompt>>
    BY CommitsGoOn
<1>3. \A n \in 1..N : f[n] = f[n - 1] \o EnsureKey(Last(f[n - 1]), Keys[n], ListGlobal(prompt))
    BY CommitsGoOn
<1> HIDE DEF f
<1>4. ProgramKept(prompt, prompt)
    BY DEF ProgramKept, Extends
<1>5. Full(f[0])
    BY <1>2, <1>4, SingleEntry DEF AllKept
<1>6. ASSUME NEW n \in Nat, n + 1 =< N, Full(f[n]) PROVE Full(f[n + 1])
    <2> DEFINE q == Last(f[n])
               e == EnsureKey(q, Keys[n + 1], ListGlobal(prompt))
    <2>1. n + 1 \in 1..N /\ (n + 1) - 1 = n
        BY <1>1, <1>6
    <2>2. f[n + 1] = f[n] \o e
        BY <1>3, <2>1
    <2>3. Len(f[n]) \in DOMAIN f[n]
        BY <1>6, TableAppend DEF AllKept
    <2>4. ProgramKept(prompt, q)
        BY <1>6, <2>3 DEF AllKept, Last
    <2> HIDE DEF q
    <2>5. AllKept(prompt, e)
        BY <1>1, <2>1, <2>4, EnsureKeyKeeps
    <2> HIDE DEF e
    <2>6. /\ IsTable(f[n] \o e) /\ Len(f[n]) \in Nat /\ Len(e) \in Nat
          /\ Len(f[n] \o e) = Len(f[n]) + Len(e)
          /\ \A i \in DOMAIN (f[n] \o e) :
               \/ i \in DOMAIN f[n] /\ (f[n] \o e)[i] = f[n][i]
               \/ i - Len(f[n]) \in DOMAIN e /\ (f[n] \o e)[i] = e[i - Len(f[n])]
        BY <1>6, <2>5, ConcatEntries DEF AllKept
    <2>7. \A i \in DOMAIN (f[n] \o e) : ProgramKept(prompt, (f[n] \o e)[i])
        BY <1>6, <2>5, <2>6 DEF AllKept
    <2>8. Len(f[n] \o e) > 0
        BY <1>6, <2>6
    <2>9. Full(f[n] \o e)
        BY <2>6, <2>7, <2>8 DEF AllKept
    <2> QED
        BY <2>2, <2>9
<1> HIDE DEF Full
<1>7. \A n \in Nat : n \in S
    <2>1. 0 \in S
        BY <1>5
    <2>2. ASSUME NEW n \in S PROVE n + 1 \in S
        <3>1. n \in Nat /\ (n + 1 =< N => n =< N)
            BY <1>1
        <3> QED
            BY <1>6, <3>1
    <2>3. S \in SUBSET Nat
        OBVIOUS
    <2> HIDE DEF S
    <2> QED
        BY <2>1, <2>2, <2>3, AllNumbers
<1>8. Full(f[N])
    BY <1>1, <1>7
<1> QED
    BY <1>8 DEF Full, f, EnsureCommits

-----------------------------------------------------------------------------
\* What the context of a project gives is text, or nothing.
LEMMA ContextIsPlain ==
    ASSUME NEW project, NEW genre \in {"text", Absent}
    PROVE  \A name \in DOMAIN ProjectContext(project, genre) :
             ProjectContext(project, genre)[name] \in {"text", Absent, "empty"}
<1> DEFINE cards == IF Page(Of("character", project)) = << >> THEN "empty" ELSE "text"
           context == [title |-> "text", genre |-> genre, characters |-> cards]
<1>1. cards \in {"text", Absent, "empty"}
    OBVIOUS
<1> HIDE DEF cards
<1>2. CASE project = None
    BY <1>2 DEF ProjectContext
<1>3. CASE project # None
    <2>1. ProjectContext(project, genre) = context
        BY <1>3 DEF ProjectContext, cards
    <2>2. /\ DOMAIN context = {"title", "genre", "characters"}
          /\ context["title"] = "text" /\ context["genre"] = genre
          /\ context["characters"] = cards
        OBVIOUS
    <2>3. \A name \in DOMAIN context : context[name] \in {"text", Absent, "empty"}
        BY <1>1, <2>2
    <2> QED
        BY <2>1, <2>3
<1> QED
    BY <1>2, <1>3

\* EmptyIsReported, of one rendering and the schema of its version.
Reported(r, schema) ==
  LET Hollow(name) == name \in DOMAIN r.variables /\ r.variables[name] = "hollow"
  IN  \A name \in schema.uses :
        name \notin r.shown /\ ~Hollow(name) => name \in r.missing \union r.warned

\* A value of the merged variables is one that is given, in the context, or a default.
LEMMA MergedValues ==
    ASSUME NEW schema, NEW context, NEW variables,
           \A name \in DOMAIN context : context[name] \in {"text", Absent, "empty"},
           \A name \in DOMAIN variables : variables[name] \in Values
    PROVE  \A name \in DOMAIN Merged(schema, context, variables) :
             /\ Merged(schema, context, variables)[name] \in Values
             /\ Merged(schema, context, variables)[name] = "hollow" =>
                  name \in DOMAIN variables /\ variables[name] = "hollow"
<1> DEFINE defaults == [name \in schema.defaults |-> "text"]
           rest == Joined(context, defaults)
           merged == Joined(variables, rest)
<1>1. merged = Merged(schema, context, variables)
    BY DEF Merged
<1>2. \A name \in DOMAIN defaults : defaults[name] = "text"
    OBVIOUS
<1> HIDE DEF defaults
<1>3. \A name \in DOMAIN rest : rest[name] \in {"text", Absent, "empty"} /\ rest[name] # "hollow"
    BY <1>2 DEF Joined, Absent
<1> HIDE DEF rest
<1>4. /\ DOMAIN merged = DOMAIN variables \union DOMAIN rest
      /\ \A name \in DOMAIN merged :
           merged[name] = IF name \in DOMAIN variables THEN variables[name] ELSE rest[name]
    BY DEF Joined
<1> HIDE DEF merged
<1>5. \A name \in DOMAIN merged :
        /\ merged[name] \in Values
        /\ merged[name] = "hollow" => name \in DOMAIN variables /\ variables[name] = "hollow"
    BY <1>3, <1>4 DEF Values
<1> QED
    BY <1>1, <1>5

LEMMA RecordReports ==
    ASSUME NEW schema, NEW v, NEW project, NEW genre \in {"text", Absent},
           NEW variables \in [{"style"} -> Values] \union {<<>>}
    PROVE  LET r == RenderRecord(v, variables,
                      Render(schema, ProjectContext(project, genre), variables))
           IN  r.version = v /\ Reported(r, schema)
<1> DEFINE context == ProjectContext(project, genre)
           merged == Merged(schema, context, variables)
           outcome == Render(schema, context, variables)
           Void(name) == name \notin DOMAIN merged \/ merged[name] \in Emptiness
           given == [version |-> v, variables |-> variables]
           r == RenderRecord(v, variables, outcome)
<1>1. \A name \in DOMAIN variables : variables[name] \in Values
    OBVIOUS
<1>3. \A name \in DOMAIN context : context[name] \in {"text", Absent, "empty"}
    BY ContextIsPlain
<1> HIDE DEF context
<1>4. \A name \in DOMAIN merged :
        /\ merged[name] \in Values
        /\ merged[name] = "hollow" => name \in DOMAIN variables /\ variables[name] = "hollow"
    BY <1>1, <1>3, MergedValues
<1>5. /\ DOMAIN outcome = {"missing", "warned", "shown"}
      /\ outcome.missing = {name \in schema.required : Void(name)}
      /\ outcome.warned = {name \in schema.uses : Void(name) /\ name \notin schema.required}
                         \union (schema.uses \ schema.declared)
      /\ outcome.shown = {name \in schema.uses : ~Void(name) /\ merged[name] = "text"}
    BY DEF Render
<1> HIDE DEF merged, outcome
<1>6. /\ r.version = v /\ r.variables = variables /\ r.missing = outcome.missing
      /\ r.warned = outcome.warned /\ r.shown = outcome.shown
    <2>1. /\ DOMAIN given = {"version", "variables"} /\ given.version = v
          /\ given.variables = variables
        OBVIOUS
    <2>2. r = Joined(given, outcome)
        BY DEF RenderRecord
    <2> HIDE DEF given
    <2> QED
        BY <1>5, <2>1, <2>2 DEF Joined
<1> HIDE DEF r
<1>7. ASSUME NEW name \in schema.uses, name \notin r.shown,
             ~ (name \in DOMAIN r.variables /\ r.variables[name] = "hollow")
      PROVE  name \in r.missing \union r.warned
    <2>1. Void(name)
        <3>1. SUFFICES ASSUME ~ Void(name) PROVE FALSE
            OBVIOUS
        <3>2. merged[name] # "text" /\ name \in DOMAIN merged /\ merged[name] \notin Emptiness
            BY <1>5, <1>6, <1>7, <3>1
        <3>3. merged[name] = "hollow"
            BY <1>4, <3>2 DEF Values, Emptiness
        <3> QED
            BY <1>4, <1>6, <1>7, <3>2, <3>3
    <2> QED
        BY <1>5, <1>6, <2>1
<1> QED
    BY <1>6, <1>7 DEF Reported, r, outcome, context

-----------------------------------------------------------------------------
\* A rendering is of a version in the table, and reported what it left empty.
RenderedInv ==
  IsTable(rendered) /\ \A i \in DOMAIN rendered :
    LET r == rendered[i] IN
    /\ r.version \in DOMAIN prompt.versions
    /\ Reported(r, Schemas[prompt.versions[r.version].text])

PromptInv == Tables(prompt) /\ ReleaseFits /\ RenderedInv

\* What a template shows after a commit that did not before is a version there
\* was, one a user wrote, or in the place of a built-in text.
UserKept(p, q) ==
  /\ Extends(p, q)
  /\ \A t \in DOMAIN p.templates :
       LET was == p.templates[t].active
           is == q.templates[t].active
       IN  \/ is = was
           \/ is \in DOMAIN p.versions
           \/ is \in DOMAIN q.versions /\ q.versions[is].by = "user"
           \/ IsShipped(p.versions[was].text)

\* UserEditsKept, of one step.
EditsKept ==
  \A t \in Templates :
       LET was == prompt.templates[t].active
           is == prompt'.templates[t].active
       IN  is > Len(prompt.versions) /\ prompt'.versions[is].by = "program" =>
             \E key \in DOMAIN Shipped, n \in 1..release :
               prompt.versions[was].text = Shipped[key][n]

LEMMA KeptEdits ==
    ASSUME Tables(prompt), UserKept(prompt, prompt')
    PROVE  EditsKept
<1> SUFFICES ASSUME NEW t \in Templates,
                    prompt'.templates[t].active > Len(prompt.versions),
                    prompt'.versions[prompt'.templates[t].active].by = "program"
             PROVE  IsShipped(prompt.versions[prompt.templates[t].active].text)
    BY DEF EditsKept, IsShipped
<1> DEFINE was == prompt.templates[t].active
           is == prompt'.templates[t].active
           len == Len(prompt.versions)
<1>1. t \in DOMAIN prompt.templates
    BY DEF Templates
<1>2. len \in Nat /\ DOMAIN prompt.versions = 1..len
    BY TableAppend DEF Tables
<1>3. was = None \/ was \in DOMAIN prompt.versions
    BY <1>1 DEF Tables
<1>4. is > len
    OBVIOUS
<1>5. is # was
    <2> HIDE DEF is, was, len
    <2> QED
        BY <1>2, <1>3, <1>4 DEF None
<1>6. is \notin DOMAIN prompt.versions
    <2> HIDE DEF is, len
    <2> QED
        BY <1>2, <1>4
<1>7. prompt'.versions[is].by # "user"
    OBVIOUS
<1> QED
    BY <1>1, <1>5, <1>6, <1>7 DEF UserKept

LEMMA CommitKeeps ==
    ASSUME PromptInv, NEW s, Commit(s), \A n \in DOMAIN s : UserKept(prompt, s[n])
    PROVE  PromptInv' /\ EditsKept
<1>1. PICK n \in DOMAIN s : prompt' = s[n]
    BY DEF Commit
<1>2. UserKept(prompt, prompt')
    BY <1>1
<1>3. rendered' = rendered /\ release' = release
    BY DEF Commit
<1>4. Tables(prompt')
    BY <1>2 DEF UserKept, Extends
<1>5. Tables(prompt)'
    BY <1>3, <1>4 DEF Tables, MetaKnown, IsShipped
<1>6. ReleaseFits'
    BY <1>3 DEF PromptInv, ReleaseFits
<1>7. RenderedInv'
    <2>1. ASSUME NEW i \in DOMAIN rendered
          PROVE  LET r == rendered[i] IN
                 /\ r.version \in DOMAIN prompt'.versions
                 /\ Reported(r, Schemas[prompt'.versions[r.version].text])
        <3> DEFINE r == rendered[i]
        <3>1. r.version \in DOMAIN prompt.versions
              /\ Reported(r, Schemas[prompt.versions[r.version].text])
            BY DEF PromptInv, RenderedInv
        <3> HIDE DEF r
        <3>2. r.version \in DOMAIN prompt'.versions
              /\ prompt'.versions[r.version] = prompt.versions[r.version]
            BY <1>2, <3>1 DEF UserKept, Extends
        <3>3. Reported(r, Schemas[prompt'.versions[r.version].text])
            BY <3>1, <3>2
        <3> QED
            BY <3>2, <3>3 DEF r
    <2>2. IsTable(rendered)'
        BY <1>3 DEF PromptInv, RenderedInv
    <2>3. ASSUME NEW i \in DOMAIN rendered'
          PROVE  LET r == rendered'[i] IN
                 /\ r.version \in DOMAIN prompt'.versions
                 /\ Reported(r, Schemas[prompt'.versions[r.version].text])
        BY <1>3, <2>1
    <2> QED
        BY <2>2, <2>3 DEF RenderedInv
<1>8. EditsKept
    BY <1>2, KeptEdits DEF PromptInv
<1> QED
    BY <1>5, <1>6, <1>7, <1>8 DEF PromptInv

\* What a user writes is a version of a user.
LEMMA WrittenByUser ==
    ASSUME NEW p, NEW s, NEW t, Commits(p, s, t, "user")
    PROVE  \A n \in DOMAIN s : UserKept(p, s[n])
BY DEF Commits, Switched, UserKept

\* A call of one commit.
LEMMA SingleCommitKeeps ==
    ASSUME NEW p, NEW q, UserKept(p, q)
    PROVE  \A n \in DOMAIN <<q>> : UserKept(p, <<q>>[n])
BY SingleEntry

LEMMA TemplateStepKeeps ==
    ASSUME PromptInv, TemplateNext
    PROVE  PromptInv' /\ EditsKept
<1>1. Tables(prompt) /\ ReleaseFits
    BY DEF PromptInv
<1>2. OwnTexts \subseteq DOMAIN Schemas
    BY PromptAssumption
<1>3. MetaKnown(NoMeta) /\ \A meta \in Metas : MetaKnown(meta)
    BY DEF MetaKnown, NoMeta, Metas
<1>4. ASSUME NEW project, NEW text \in OwnTexts, NEW meta \in Metas,
             CreateTemplate(project, meta, text)
      PROVE  PromptInv' /\ EditsKept
    <2> DEFINE s == NewTemplate(prompt, project, meta, text, "user")
    <2>1. Commits(prompt, s, Len(prompt.templates) + 1, "user")
        BY <1>1, <1>2, <1>3, NewTemplateCommits
    <2>2. Commit(s)
        BY <1>4 DEF CreateTemplate
    <2> HIDE DEF s
    <2> QED
        BY <2>1, <2>2, WrittenByUser, CommitKeeps
<1>5. ASSUME NEW t \in Templates, NEW project, NEW status,
             NEW meta \in {NoMeta, prompt.templates[t].meta},
             UpdateTemplateMetadata(t, project, status, meta)
      PROVE  PromptInv' /\ EditsKept
    <2> DEFINE row == [prompt.templates[t] EXCEPT !.project = project, !.status = status, !.meta = meta]
               r == [prompt EXCEPT !.templates[t] = row]
               q == Touched(r, t)
    <2>1. Commit(<<q>>)
        BY <1>5 DEF UpdateTemplateMetadata
    <2>2. t \in DOMAIN prompt.templates
        BY DEF Templates
    <2>3. /\ DOMAIN row = TemplateFields /\ row.active = prompt.templates[t].active
          /\ row.meta = meta /\ MetaKnown(meta)
          /\ row.active = None \/ row.active \in DOMAIN prompt.versions
        BY <1>1, <1>3, <2>2 DEF Tables, TemplateFields
    <2>4. DOMAIN r = PromptFields /\ r.versions = prompt.versions /\ r.recent = prompt.recent
          /\ r.templates = [prompt.templates EXCEPT ![t] = row]
        BY <1>1 DEF Tables, PromptFields
    <2> HIDE DEF row, r
    <2>5. /\ Tables(r) /\ Extends(prompt, r) /\ DOMAIN r.templates = DOMAIN prompt.templates
          /\ \A u \in DOMAIN prompt.templates :
               r.templates[u] = IF u = t THEN row ELSE prompt.templates[u]
        BY <1>1, <2>3, <2>4, RetemplatedFacts
    <2>6. Tables(q) /\ q.templates = r.templates /\ q.versions = r.versions
        BY <2>5, TouchedFacts
    <2> HIDE DEF q
    <2>7. \A u \in DOMAIN prompt.templates : q.templates[u].active = prompt.templates[u].active
        BY <2>3, <2>5, <2>6
    <2>8. UserKept(prompt, q)
        BY <2>5, <2>6, <2>7 DEF UserKept, Extends
    <2> QED
        BY <2>1, <2>8, SingleCommitKeeps, CommitKeeps
<1>6. ASSUME NEW t \in Templates, SoftDeleteTemplate(t)
      PROVE  PromptInv' /\ EditsKept
    <2> DEFINE row == [prompt.templates[t] EXCEPT !.status = "deleted"]
               r == [prompt EXCEPT !.templates[t].status = "deleted"]
               q == Touched(r, t)
    <2>1. Commit(<<q>>)
        BY <1>6 DEF SoftDeleteTemplate
    <2>2. t \in DOMAIN prompt.templates
        BY DEF Templates
    <2>3. /\ DOMAIN row = TemplateFields /\ row.active = prompt.templates[t].active
          /\ row.meta = prompt.templates[t].meta /\ MetaKnown(row.meta)
          /\ row.active = None \/ row.active \in DOMAIN prompt.versions
        BY <1>1, <2>2 DEF Tables, TemplateFields
    <2>4. DOMAIN r = PromptFields /\ r.versions = prompt.versions /\ r.recent = prompt.recent
          /\ r.templates = [prompt.templates EXCEPT ![t] = row]
        BY <1>1 DEF Tables, PromptFields
    <2> HIDE DEF row, r
    <2>5. /\ Tables(r) /\ Extends(prompt, r) /\ DOMAIN r.templates = DOMAIN prompt.templates
          /\ \A u \in DOMAIN prompt.templates :
               r.templates[u] = IF u = t THEN row ELSE prompt.templates[u]
        BY <1>1, <2>3, <2>4, RetemplatedFacts
    <2>6. Tables(q) /\ q.templates = r.templates /\ q.versions = r.versions
        BY <2>5, TouchedFacts
    <2> HIDE DEF q
    <2>7. \A u \in DOMAIN prompt.templates : q.templates[u].active = prompt.templates[u].active
        BY <2>3, <2>5, <2>6
    <2>8. UserKept(prompt, q)
        BY <2>5, <2>6, <2>7 DEF UserKept, Extends
    <2> QED
        BY <2>1, <2>8, SingleCommitKeeps, CommitKeeps
<1>7. ASSUME NEW t \in Templates, NEW text \in OwnTexts, CreateVersion(t, text)
      PROVE  PromptInv' /\ EditsKept
    <2> DEFINE s == NewVersion(prompt, t, text, "user")
    <2>1. Commits(prompt, s, t, "user")
        BY <1>1, <1>2, NewVersionCommits
    <2>2. Commit(s)
        BY <1>7 DEF CreateVersion
    <2> HIDE DEF s
    <2> QED
        BY <2>1, <2>2, WrittenByUser, CommitKeeps
<1>8. ASSUME NEW t \in Templates, NEW v, ActivateVersion(t, v)
      PROVE  PromptInv' /\ EditsKept
    <2> DEFINE q == WithActive(prompt, t, v)
    <2>1. v \in DOMAIN prompt.versions /\ Commit(<<q>>)
        BY <1>8 DEF ActivateVersion, VersionsOf
    <2>2. /\ Extends(prompt, q)
          /\ \A u \in DOMAIN prompt.templates :
               /\ u # t => q.templates[u] = prompt.templates[u]
               /\ u = t => q.templates[u].active = v
        BY <1>1, <2>1, WithActiveFacts
    <2> HIDE DEF q
    <2>3. UserKept(prompt, q)
        BY <2>1, <2>2 DEF UserKept
    <2> QED
        BY <2>1, <2>3, SingleCommitKeeps, CommitKeeps
<1>9. ASSUME NEW t \in Templates, NEW project, CopyToProject(t, project)
      PROVE  PromptInv' /\ EditsKept
    <2> DEFINE row == prompt.templates[t]
               v == IF row.active # None THEN row.active ELSE Max(VersionsOf(prompt, t))
               text == prompt.versions[v].text
               s == NewTemplate(prompt, project, NoMeta, text, "user")
    <2>1. Commit(s) /\ (row.active # None \/ VersionsOf(prompt, t) # {})
        BY <1>9 DEF CopyToProject
    <2>2. v \in DOMAIN prompt.versions
        <3>1. CASE row.active # None
            BY <1>1, <3>1 DEF Tables, Templates
        <3>2. CASE row.active = None
            <4> DEFINE I == VersionsOf(prompt, t)
                       f == [x \in 1..Len(prompt.versions) |-> x]
            <4>1. I # {} /\ I \subseteq DOMAIN prompt.versions
                BY <2>1, <3>2 DEF VersionsOf
            <4>2. DOMAIN prompt.versions = 1..Len(prompt.versions) /\ Len(prompt.versions) \in Nat
                BY <1>1, TableAppend DEF Tables
            <4>3. \A i \in 1..Len(prompt.versions) : f[i] = i
                OBVIOUS
            <4> DEFINE top == Len(prompt.versions)
            <4> HIDE DEF I, f
            <4>4. \E x \in I : \A y \in I : f[x] >= f[y]
                <5>1. top \in Nat /\ I \in SUBSET (1..top) /\ I # {}
                    BY <4>1, <4>2
                <5>2. \A i \in 1..top : f[i] \in Int
                    BY <4>2, <4>3
                <5> HIDE DEF top
                <5> QED
                    BY <5>1, <5>2, GreatestRow
            <4>5. \E x \in I : \A y \in I : x >= y
                BY <4>1, <4>2, <4>3, <4>4
            <4>6. Max(I) \in I
                BY <4>5 DEF Max
            <4> QED
                BY <3>2, <4>1, <4>6 DEF I
        <3> QED
            BY <3>1, <3>2
    <2>3. text \in DOMAIN Schemas
        BY <1>1, <2>2 DEF Tables
    <2> HIDE DEF v, text
    <2>4. Commits(prompt, s, Len(prompt.templates) + 1, "user")
        BY <1>1, <1>3, <2>3, NewTemplateCommits
    <2> HIDE DEF s
    <2> QED
        BY <2>1, <2>4, WrittenByUser, CommitKeeps
<1>10. ASSUME EnsureDefaults PROVE PromptInv' /\ EditsKept
    <2> DEFINE s == EnsureCommits(prompt)
    <2>1. AllKept(prompt, s)
        BY <1>1, EnsureKeeps
    <2>2. Commit(s)
        BY <1>10 DEF EnsureDefaults
    <2> HIDE DEF s
    <2>3. \A n \in DOMAIN s : UserKept(prompt, s[n])
        BY <2>1 DEF AllKept, ProgramKept, UserKept
    <2> QED
        BY <2>2, <2>3, CommitKeeps
<1>11. ASSUME InstallRelease PROVE PromptInv' /\ EditsKept
    <2>1. prompt' = prompt /\ rendered' = rendered /\ release' = release + 1
        BY <1>11 DEF InstallRelease
    <2>2. release \in Nat \ {0} /\ 1..release \subseteq 1..(release + 1)
        BY <1>1 DEF ReleaseFits
    <2>3. \A text : IsShipped(text) => IsShipped(text)'
        BY <2>1, <2>2 DEF IsShipped
    <2>4. Tables(prompt)'
        BY <1>1, <2>1, <2>3 DEF Tables, MetaKnown
    <2>5. ReleaseFits'
        <3>1. \A key \in DOMAIN Shipped : Len(Shipped[key]) \in Nat /\ release < Len(Shipped[key])
            BY <1>11, PromptAssumption DEF InstallRelease
        <3> QED
            BY <2>1, <2>2, <3>1 DEF ReleaseFits
    <2>6. RenderedInv'
        BY <2>1 DEF PromptInv, RenderedInv
    <2>7. UserKept(prompt, prompt')
        BY <1>1, <2>1 DEF UserKept, Extends
    <2> QED
        BY <1>1, <2>4, <2>5, <2>6, <2>7, KeptEdits DEF PromptInv
<1> QED
    BY <1>4, <1>5, <1>6, <1>7, <1>8, <1>9, <1>10, <1>11 DEF TemplateNext

LEMMA RenderStepKeeps ==
    ASSUME PromptInv, NEW t, NEW wanted, NEW project, NEW genre \in {"text", Absent},
           NEW variables \in [{"style"} -> Values] \union {<<>>},
           RenderPrompt(t, wanted, project, genre, variables)
    PROVE  PromptInv' /\ EditsKept
<1> DEFINE v == IF wanted = None THEN prompt.templates[t].active ELSE wanted
           schema == Schemas[prompt.versions[v].text]
           r == RenderRecord(v, variables, Render(schema, ProjectContext(project, genre), variables))
<1>1. /\ v \in VersionsOf(prompt, t) /\ rendered' = Append(rendered, r)
      /\ prompt' = prompt /\ release' = release
    BY DEF RenderPrompt
<1>2. v \in DOMAIN prompt.versions
    BY <1>1 DEF VersionsOf
<1> HIDE DEF v
<1>3. r.version = v /\ Reported(r, schema)
    <2> HIDE DEF schema
    <2> QED
        BY RecordReports
<1> HIDE DEF r
<1>4. Tables(prompt) /\ ReleaseFits /\ RenderedInv
    BY DEF PromptInv
<1>5. Tables(prompt)'
    BY <1>1, <1>4 DEF Tables, MetaKnown, IsShipped
<1>6. ReleaseFits'
    BY <1>1, <1>4 DEF ReleaseFits
<1>7. /\ IsTable(rendered') /\ Len(rendered) \in Nat /\ DOMAIN rendered = 1..Len(rendered)
      /\ DOMAIN rendered' = 1..(Len(rendered) + 1)
      /\ \A i \in DOMAIN rendered : rendered'[i] = rendered[i]
      /\ rendered'[Len(rendered) + 1] = r
    BY <1>1, <1>4, TableAppend DEF RenderedInv
<1>8. ASSUME NEW i \in DOMAIN rendered'
      PROVE  LET x == rendered'[i] IN
             /\ x.version \in DOMAIN prompt'.versions
             /\ Reported(x, Schemas[prompt'.versions[x.version].text])
    <2>1. i \in DOMAIN rendered \/ i = Len(rendered) + 1
        BY <1>7
    <2>2. CASE i \in DOMAIN rendered
        BY <1>1, <1>4, <1>7, <2>2 DEF RenderedInv
    <2>3. CASE i = Len(rendered) + 1
        BY <1>1, <1>2, <1>3, <1>7, <2>3
    <2> QED
        BY <2>1, <2>2, <2>3
<1>9. RenderedInv'
    BY <1>7, <1>8 DEF RenderedInv
<1>10. UserKept(prompt, prompt')
    BY <1>1, <1>4 DEF UserKept, Extends
<1> QED
    BY <1>4, <1>5, <1>6, <1>9, <1>10, KeptEdits DEF PromptInv

\* The tables, the release and the renderings, in every state.
LEMMA PromptStart ==
    ASSUME PromptInit
    PROVE  PromptInv
<1>1. prompt = NoPrompts /\ rendered = << >> /\ release = 1
    BY DEF PromptInit
<1>2. << >> \in Seq({}) /\ DOMAIN << >> = {}
    OBVIOUS
<1>3. Tables(prompt)
    BY <1>1, <1>2 DEF Tables, NoPrompts, PromptFields, IsTable, Differ
<1>4. \A key \in DOMAIN Shipped : 1 =< Len(Shipped[key])
    <2> SUFFICES ASSUME NEW key \in DOMAIN Shipped PROVE 1 =< Len(Shipped[key])
        OBVIOUS
    <2>1. Shipped[key] \in Seq(DOMAIN Schemas) /\ Shipped[key] # << >>
        BY PromptAssumption
    <2> QED
        BY <2>1
<1>5. ReleaseFits
    BY <1>1, <1>4 DEF ReleaseFits
<1>6. RenderedInv
    BY <1>1, <1>2 DEF RenderedInv, IsTable
<1> QED
    BY <1>3, <1>5, <1>6 DEF PromptInv

LEMMA PromptStepKeeps ==
    ASSUME PromptInv,
           [\/ NovelNext /\ UNCHANGED promptVars
            \/ (TemplateNext \/ RenderNext) /\ UNCHANGED novel]_<<novel, promptVars>>
    PROVE  PromptInv' /\ [EditsKept]_promptVars
<1>1. CASE UNCHANGED promptVars
    <2>1. prompt' = prompt /\ rendered' = rendered /\ release' = release
        BY <1>1 DEF promptVars
    <2>2. Tables(prompt)'
        BY <2>1 DEF PromptInv, Tables, MetaKnown, IsShipped
    <2>3. ReleaseFits' /\ RenderedInv'
        BY <2>1 DEF PromptInv, ReleaseFits, RenderedInv
    <2> QED
        BY <1>1, <2>2, <2>3 DEF PromptInv
<1>2. CASE TemplateNext
    BY <1>2, TemplateStepKeeps
<1>3. CASE RenderNext
    <2>1. PICK t \in Templates, v \in DOMAIN prompt.versions \union {None},
               project \in DOMAIN novel \union {None}, genre \in {"text", Absent},
               variables \in [{"style"} -> Values] \union {<<>>} :
               RenderPrompt(t, v, project, genre, variables)
        BY <1>3 DEF RenderNext
    <2> QED
        BY <2>1, RenderStepKeeps
<1> QED
    BY <1>1, <1>2, <1>3

\* Whatever was renamed, revived, rolled back, cut off or upgraded before: a
\* built-in text only ever replaces a built-in text, never what a user wrote
\* (ensure_default_prompt_templates and the calls of PromptService).
THEOREM UserTextsStay == PromptSpec => UserEditsKept
<1>1. NovelInit /\ PromptInit => PromptInv
    BY PromptStart
<1>2. PromptInv /\ [\/ NovelNext /\ UNCHANGED promptVars
                    \/ (TemplateNext \/ RenderNext) /\ UNCHANGED novel]_<<novel, promptVars>>
      => PromptInv' /\ [EditsKept]_promptVars
    BY PromptStepKeeps
<1> QED
    BY <1>1, <1>2, PTL DEF PromptSpec, UserEditsKept, EditsKept

\* PromptRenderer.render reports, as missing or in a warning, every variable of
\* the prompt that it left out for want of a value.
THEOREM RenderingsReport == PromptSpec => []EmptyIsReported
<1>1. NovelInit /\ PromptInit => PromptInv
    BY PromptStart
<1>2. PromptInv /\ [\/ NovelNext /\ UNCHANGED promptVars
                    \/ (TemplateNext \/ RenderNext) /\ UNCHANGED novel]_<<novel, promptVars>>
      => PromptInv'
    BY PromptStepKeeps
<1>3. PromptInv => EmptyIsReported
    <2> SUFFICES ASSUME PromptInv, NEW r \in Range(rendered)
                 PROVE  Reported(r, Schemas[prompt.versions[r.version].text])
        BY DEF EmptyIsReported, Reported
    <2>1. PICK i \in DOMAIN rendered : r = rendered[i]
        BY DEF Range
    <2> QED
        BY <2>1 DEF PromptInv, RenderedInv
<1> QED
    BY <1>1, <1>2, <1>3, PTL DEF PromptSpec


-----------------------------------------------------------------------------
(* Installing the built-in prompts twice is installing them once.          *)

\* The global templates of a key, and whether one of them is to be upgraded.
Carry(p, key) == {t \in LiveGlobals(p) : p.templates[t].meta.key = key}
Outdated(p, t, key) ==
  Pristine(p, t) /\ p.versions[p.templates[t].active].text # BuiltinText(key)

\* Nothing is left to do for a key: the latest template of it needs no upgrade.
Settled(p, key) == \E t : Leads(p.recent, Carry(p, key), t) /\ ~ Outdated(p, t, key)

\* r is p after a version of this text became the active one of template t.
Reversioned(p, r, t, text) ==
  /\ Tables(r) /\ Extends(p, r) /\ MovedFirst(p.recent, r.recent, t)
  /\ DOMAIN r.templates = DOMAIN p.templates
  /\ \A u \in DOMAIN p.templates : u # t => r.templates[u] = p.templates[u]
  /\ SameTemplate(r.templates[t], p.templates[t]) /\ r.templates[t].meta = p.templates[t].meta
  /\ r.versions[r.templates[t].active].text = text

\* r is q after the key was installed, or upgraded, in template t.
RenewedKey(q, r, key, t) ==
  /\ Tables(r) /\ Extends(q, r) /\ MovedFirst(q.recent, r.recent, t)
  /\ DOMAIN r.templates = DOMAIN q.templates \cup {t}
  /\ \A u \in DOMAIN q.templates : u # t => r.templates[u] = q.templates[u]
  /\ r.templates[t].project = None /\ r.templates[t].status # "deleted"
  /\ r.templates[t].meta.key = key
  /\ r.versions[r.templates[t].active].text = BuiltinText(key)
  /\ t \in DOMAIN q.templates => t \in Carry(q, key)

\* The last of some commits.
LEMMA LastOfConcat ==
    ASSUME NEW s, IsTable(s), NEW e, IsTable(e), Len(e) > 0
    PROVE  Last(s \o e) = Last(e)
<1>1. PICK A : s \in Seq(A)
    BY DEF IsTable
<1>2. PICK B : e \in Seq(B)
    BY DEF IsTable
<1>3. s \in Seq(A \cup B) /\ e \in Seq(A \cup B) /\ Len(s) \in Nat /\ Len(e) \in Nat
    BY <1>1, <1>2
<1>4. /\ Len(s \o e) = Len(s) + Len(e)
      /\ \A n \in 1 .. Len(s) + Len(e) :
           (s \o e)[n] = IF n <= Len(s) THEN s[n] ELSE e[n - Len(s)]
    BY <1>3, ConcatProperties
<1> DEFINE n == Len(s) + Len(e)
<1>5. n \in 1..n /\ ~ (n =< Len(s)) /\ n - Len(s) = Len(e)
    BY <1>3
<1>6. (s \o e)[n] = e[Len(e)]
    BY <1>4, <1>5
<1> QED
    BY <1>4, <1>6 DEF Last

LEMMA NewVersionEnds ==
    ASSUME NEW p, Tables(p), NEW t \in DOMAIN p.templates, NEW text \in DOMAIN Schemas, NEW by
    PROVE  Reversioned(p, Last(NewVersion(p, t, text, by)), t, text)
<1> DEFINE q == InsertVersion(p, t, text, by)
           v == Len(p.versions) + 1
           r == WithActive(q, t, v)
<1>1. /\ Tables(q) /\ Extends(p, q) /\ q.templates = p.templates /\ q.recent = p.recent
      /\ Len(q.versions) = v /\ v \in DOMAIN q.versions /\ q.versions[v].text = text
    BY InsertVersionFacts
<1>2. NewVersion(p, t, text, by) = <<q, r>>
    BY <1>1 DEF NewVersion
<1> HIDE DEF q
<1>3. /\ Tables(r) /\ Extends(q, r) /\ r.versions = q.versions
      /\ DOMAIN r.templates = DOMAIN q.templates
      /\ \A u \in DOMAIN q.templates :
           /\ u # t => r.templates[u] = q.templates[u]
           /\ u = t => r.templates[u].active = v /\ SameTemplate(r.templates[u], q.templates[u])
                       /\ r.templates[u].meta = q.templates[u].meta
      /\ MovedFirst(q.recent, r.recent, t)
    BY <1>1, WithActiveFacts
<1> HIDE DEF r, v
<1>4. Extends(p, r)
    BY <1>1, <1>3 DEF Extends
<1>5. Last(<<q, r>>) = r
    BY PairEntries
<1>6. Reversioned(p, r, t, text)
    BY <1>1, <1>3, <1>4 DEF Reversioned
<1> QED
    BY <1>2, <1>5, <1>6

LEMMA InstallEnds ==
    ASSUME NEW q, Tables(q), NEW key, BuiltinText(key) \in DOMAIN Schemas, MetaKnown(BuiltinMeta(key))
    PROVE  LET s == NewTemplate(q, None, BuiltinMeta(key), BuiltinText(key), "program") IN
           /\ IsTable(s) /\ Len(s) > 0
           /\ RenewedKey(q, Last(s), key, Len(q.templates) + 1)
<1> DEFINE meta == BuiltinMeta(key)
           text == BuiltinText(key)
           p == InsertTemplate(q, None, meta)
           t == Len(q.templates) + 1
           e == NewVersion(p, t, text, "program")
           s == NewTemplate(q, None, meta, text, "program")
           r == Last(e)
<1>a. meta.key = key
    BY DEF BuiltinMeta
<1> HIDE DEF meta, text
<1>b. text \in DOMAIN Schemas /\ MetaKnown(meta)
    BY DEF text, meta
<1>1. /\ Tables(p) /\ Extends(q, p) /\ p.versions = q.versions
      /\ Len(p.templates) = t /\ t \notin DOMAIN q.templates
      /\ \A u \in DOMAIN q.templates : p.templates[u] = q.templates[u]
      /\ Inserted(q, p, t, None, meta)
    BY <1>b, InsertTemplateFacts
<1>2. s = <<p>> \o e
    BY <1>1 DEF NewTemplate
<1> HIDE DEF p, t
<1>3. t \in DOMAIN p.templates
    BY <1>1 DEF Inserted
<1>4. Reversioned(p, r, t, text)
    BY <1>b, <1>1, <1>3, NewVersionEnds
<1>5. IsTable(e) /\ Len(e) > 0
    BY <1>b, <1>1, NewVersionCommits DEF Commits
<1> HIDE DEF e, r, s
<1>6. IsTable(<<p>> \o e) /\ Len(<<p>> \o e) = 1 + Len(e) /\ Len(e) \in Nat
    BY <1>5, SingleEntry, ConcatEntries
<1>7. Last(<<p>> \o e) = r
    BY <1>5, SingleEntry, LastOfConcat DEF r
<1>8. Extends(q, r)
    BY <1>1, <1>4 DEF Extends, Reversioned
<1>9. MovedFirst(q.recent, r.recent, t)
    BY <1>1, <1>4, MovedTwice DEF Inserted, Reversioned
<1>10. DOMAIN r.templates = DOMAIN q.templates \cup {t}
    BY <1>1, <1>4 DEF Inserted, Reversioned
<1>11. \A u \in DOMAIN q.templates : u # t => r.templates[u] = q.templates[u]
    BY <1>1, <1>4 DEF Inserted, Reversioned
<1>12. r.templates[t].project = None /\ r.templates[t].status # "deleted" /\ r.templates[t].meta.key = key
    BY <1>a, <1>1, <1>4 DEF Inserted, Reversioned, SameTemplate
<1>13. r.versions[r.templates[t].active].text = text /\ Tables(r)
    BY <1>4 DEF Reversioned
<1>14. RenewedKey(q, r, key, t)
    BY <1>1, <1>8, <1>9, <1>10, <1>11, <1>12, <1>13 DEF RenewedKey, text
<1>15. Len(<<p>> \o e) > 0
    BY <1>6
<1>16. IsTable(s) /\ Len(s) > 0 /\ Last(s) = r
    BY <1>2, <1>6, <1>7, <1>15
<1>17. RenewedKey(q, Last(s), key, t)
    BY <1>14, <1>16
<1> QED
    BY <1>16, <1>17 DEF s, t, text, meta

LEMMA UpgradeEnds ==
    ASSUME NEW q, Tables(q), NEW key, BuiltinText(key) \in DOMAIN Schemas, IsShipped(BuiltinText(key)),
           NEW t \in Carry(q, key)
    PROVE  LET s == Upgrade(q, t, key) IN
           IsTable(s) /\ Len(s) > 0 /\ RenewedKey(q, Last(s), key, t)
<1> DEFINE text == BuiltinText(key)
           e == NewVersion(q, t, text, "program")
           meta == BuiltinMeta(key)
           p == Last(e)
           r == Described(p, t, meta)
           s == Upgrade(q, t, key)
<1>a. meta.key = key /\ MetaKnown(meta)
    BY DEF BuiltinMeta, MetaKnown, BuiltinHash
<1>b. text \in DOMAIN Schemas
    OBVIOUS
<1>c. /\ t \in DOMAIN q.templates /\ q.templates[t].project = None /\ q.templates[t].status # "deleted"
    BY DEF Carry, LiveGlobals, LiveTemplate
<1>1. s = Append(e, r)
    BY DEF Upgrade
<1> HIDE DEF meta, text
<1>2. Reversioned(q, p, t, text)
    BY <1>b, <1>c, NewVersionEnds
<1>3. IsTable(e)
    BY <1>b, NewVersionCommits DEF Commits
<1> HIDE DEF e, p, s
<1>4. Tables(p) /\ t \in DOMAIN p.templates
    BY <1>c, <1>2 DEF Reversioned
<1>5. /\ Tables(r) /\ Extends(p, r) /\ r.versions = p.versions
      /\ DOMAIN r.templates = DOMAIN p.templates
      /\ \A u \in DOMAIN p.templates : r.templates[u].active = p.templates[u].active
      /\ \A u \in DOMAIN p.templates :
           /\ u # t => r.templates[u] = p.templates[u]
           /\ u = t => r.templates[u].meta = meta /\ SameTemplate(r.templates[u], p.templates[u])
      /\ MovedFirst(p.recent, r.recent, t)
    BY <1>a, <1>4, DescribedFacts
<1> HIDE DEF r
<1>6. /\ IsTable(Append(e, r)) /\ Len(e) \in Nat
      /\ Append(e, r)[Len(e) + 1] = r /\ Len(Append(e, r)) = Len(e) + 1
    BY <1>3, TableAppend, TableLen
<1>7. Len(s) > 0 /\ Last(s) = r /\ IsTable(s)
    BY <1>1, <1>6 DEF Last
<1>8. Extends(q, r)
    BY <1>2, <1>5 DEF Extends, Reversioned
<1>9. MovedFirst(q.recent, r.recent, t)
    BY <1>2, <1>5, MovedTwice DEF Reversioned
<1>10. DOMAIN r.templates = DOMAIN q.templates \cup {t}
    BY <1>c, <1>2, <1>5 DEF Reversioned
<1>11. \A u \in DOMAIN q.templates : u # t => r.templates[u] = q.templates[u]
    BY <1>2, <1>5 DEF Reversioned
<1>12. r.templates[t].project = None /\ r.templates[t].status # "deleted" /\ r.templates[t].meta.key = key
    BY <1>a, <1>c, <1>2, <1>4, <1>5 DEF Reversioned, SameTemplate
<1>13. r.versions[r.templates[t].active].text = text
    BY <1>2, <1>4, <1>5 DEF Reversioned
<1>14. RenewedKey(q, r, key, t)
    BY <1>5, <1>8, <1>9, <1>10, <1>11, <1>12, <1>13 DEF RenewedKey, text
<1> QED
    BY <1>7, <1>14 DEF s

\* Only one entry leads.
LEMMA LeadsOne ==
    ASSUME NEW s, IsTable(s), NEW M, NEW x, NEW y, Leads(s, M, x), Leads(s, M, y)
    PROVE  x = y
<1>1. PICK m \in DOMAIN s : s[m] = x /\ \A k \in 1..(m - 1) : s[k] \notin M
    BY DEF Leads
<1>2. PICK n \in DOMAIN s : s[n] = y /\ \A k \in 1..(n - 1) : s[k] \notin M
    BY DEF Leads
<1>3. x \in M /\ y \in M
    BY DEF Leads
<1>4. m \in Nat \ {0} /\ n \in Nat \ {0}
    BY TableAppend
<1>5. ~ (m \in 1..(n - 1)) /\ ~ (n \in 1..(m - 1))
    BY <1>1, <1>2, <1>3
<1>6. m = n
    BY <1>4, <1>5
<1> QED
    BY <1>1, <1>2, <1>6

\* What EnsureKey does of the list it was given.
LEMMA EnsureKeyDoes ==
    ASSUME NEW q, Tables(q), ReleaseFits, NEW key \in DOMAIN Shipped,
           NEW listed \in Seq(LiveGlobals(q))
    PROVE  LET e == EnsureKey(q, key, listed)
               done == \E t : Leads(listed, Carry(q, key), t) /\ ~ Outdated(q, t, key)
           IN  \/ done /\ e = << >>
               \/ ~ done /\ IsTable(e) /\ Len(e) > 0 /\ \E t : RenewedKey(q, Last(e), key, t)
<1> DEFINE carriers == {n \in DOMAIN listed : q.templates[listed[n]].meta.key = key}
           t == listed[Min(carriers)]
           install == NewTemplate(q, None, BuiltinMeta(key), BuiltinText(key), "program")
           upgrade == Upgrade(q, t, key)
           C == Carry(q, key)
           done == \E x : Leads(listed, C, x) /\ ~ Outdated(q, x, key)
           e == EnsureKey(q, key, listed)
           Finishes(s) == IsTable(s) /\ Len(s) > 0 /\ \E x : RenewedKey(q, Last(s), key, x)
<1>1. BuiltinText(key) \in DOMAIN Schemas /\ IsShipped(BuiltinText(key))
    BY BuiltinIsShipped
<1>2. MetaKnown(BuiltinMeta(key))
    BY <1>1 DEF MetaKnown, BuiltinMeta, BuiltinHash
<1>3. DOMAIN listed = 1..Len(listed) /\ Len(listed) \in Nat
      /\ \A n \in DOMAIN listed : listed[n] \in LiveGlobals(q)
    OBVIOUS
<1>4. \A n \in DOMAIN listed : listed[n] \in C <=> n \in carriers
    BY <1>3 DEF Carry
<1>5. carriers \in SUBSET (DOMAIN listed)
    OBVIOUS
<1>6. e = CASE carriers = {} -> install
            [] carriers # {} /\ Outdated(q, t, key) -> upgrade
            [] OTHER -> << >>
    BY DEF EnsureKey, Outdated
<1>7. Finishes(install)
    BY <1>1, <1>2, InstallEnds
<1>8. carriers = {} => ~ done
    <2> HIDE DEF carriers, C
    <2> QED
        BY <1>4 DEF Leads
<1>9. ASSUME carriers # {} PROVE t \in C /\ Leads(listed, C, t)
    <2> DEFINE m == Min(carriers)
    <2>1. m \in carriers /\ \A n \in carriers : m =< n
        <3>1. carriers \in SUBSET Nat
            BY <1>3, <1>5
        <3> HIDE DEF carriers
        <3> QED
            BY <1>9, <3>1, MinExists
    <2>2. m \in DOMAIN listed /\ listed[m] = t
        BY <1>5, <2>1
    <2> HIDE DEF m, carriers, C, t
    <2>3. t \in C
        BY <1>4, <2>1, <2>2
    <2>4. ASSUME NEW k \in 1..(m - 1) PROVE listed[k] \notin C
        <3>1. k \in DOMAIN listed /\ ~ (m =< k)
            BY <1>3, <2>2
        <3> QED
            BY <1>4, <2>1, <3>1
    <2> QED
        BY <2>2, <2>3, <2>4 DEF Leads
<1>10. ASSUME carriers # {} PROVE done <=> ~ Outdated(q, t, key)
    <2>1. Leads(listed, C, t)
        BY <1>9, <1>10
    <2>2. IsTable(listed)
        BY DEF IsTable
    <2> HIDE DEF carriers, C, t
    <2> QED
        BY <2>1, <2>2, LeadsOne
<1>11. carriers # {} => Finishes(upgrade)
    <2> SUFFICES ASSUME carriers # {} PROVE Finishes(upgrade)
        OBVIOUS
    <2>1. t \in Carry(q, key)
        BY <1>9
    <2> HIDE DEF t
    <2> QED
        BY <1>1, <2>1, UpgradeEnds
<1> HIDE DEF install, upgrade, carriers, t, done, e, Finishes, C
<1>12. \/ done /\ e = << >>
       \/ ~ done /\ Finishes(e)
    <2>1. CASE carriers = {}
        BY <1>6, <1>7, <1>8, <2>1
    <2>2. CASE carriers # {} /\ Outdated(q, t, key)
        BY <1>6, <1>10, <1>11, <2>2
    <2>3. CASE carriers # {} /\ ~ Outdated(q, t, key)
        BY <1>6, <1>10, <2>3
    <2> QED
        BY <2>1, <2>2, <2>3
<1> QED
    BY <1>12 DEF done, e, Finishes, C

\* What a renewal does to the state of each key.
LEMMA RenewedKeeps ==
    ASSUME NEW q, Tables(q), NEW r, NEW key, NEW t, RenewedKey(q, r, key, t)
    PROVE  /\ LiveGlobals(q) \subseteq LiveGlobals(r)
           /\ Settled(r, key)
           /\ \A other : other # key =>
                /\ Carry(r, other) = Carry(q, other)
                /\ \A x : Leads(r.recent, Carry(r, other), x) <=> Leads(q.recent, Carry(q, other), x)
                /\ Settled(q, other) => Settled(r, other)
<1>1. /\ DOMAIN r.templates = DOMAIN q.templates \cup {t}
      /\ \A u \in DOMAIN q.templates : u # t => r.templates[u] = q.templates[u]
      /\ t \in DOMAIN q.templates => t \in Carry(q, key)
      /\ r.templates[t].meta.key = key
      /\ MovedFirst(q.recent, r.recent, t)
    BY DEF RenewedKey
<1>2. t \in LiveGlobals(r)
    BY <1>1 DEF RenewedKey, LiveGlobals, LiveTemplate
<1>3. ASSUME NEW u, u # t PROVE u \in LiveGlobals(r) <=> u \in LiveGlobals(q)
    BY <1>1, <1>3 DEF LiveGlobals, LiveTemplate
<1>4. LiveGlobals(q) \subseteq LiveGlobals(r)
    BY <1>2, <1>3
<1>5. Settled(r, key)
    <2>1. t \in Carry(r, key)
        BY <1>1, <1>2 DEF Carry
    <2>2. Leads(r.recent, Carry(r, key), t)
        BY <1>1, <2>1 DEF MovedFirst
    <2>3. ~ Outdated(r, t, key)
        BY DEF Outdated, RenewedKey
    <2> QED
        BY <2>2, <2>3 DEF Settled
<1>6. ASSUME NEW other, other # key
      PROVE  /\ Carry(r, other) = Carry(q, other)
             /\ \A x : Leads(r.recent, Carry(r, other), x) <=> Leads(q.recent, Carry(q, other), x)
             /\ Settled(q, other) => Settled(r, other)
    <2>1. t \notin Carry(r, other) /\ t \notin Carry(q, other)
        BY <1>1, <1>6 DEF Carry, LiveGlobals
    <2>2. ASSUME NEW u, u # t PROVE u \in Carry(r, other) <=> u \in Carry(q, other)
        <3>1. u \in LiveGlobals(q) => r.templates[u] = q.templates[u]
            BY <1>1, <2>2 DEF LiveGlobals
        <3> QED
            BY <1>3, <2>2, <3>1 DEF Carry
    <2>3. Carry(r, other) = Carry(q, other)
        BY <2>1, <2>2
    <2>4. \A x : Leads(r.recent, Carry(r, other), x) <=> Leads(q.recent, Carry(q, other), x)
        BY <1>1, <2>1, <2>3 DEF MovedFirst
    <2>5. ASSUME Settled(q, other) PROVE Settled(r, other)
        <3>1. PICK x : Leads(q.recent, Carry(q, other), x) /\ ~ Outdated(q, x, other)
            BY <2>5 DEF Settled
        <3>2. x \in Carry(q, other) /\ x # t
            BY <2>1, <3>1 DEF Leads
        <3>3. x \in DOMAIN q.templates /\ r.templates[x] = q.templates[x]
            BY <1>1, <3>2 DEF Carry, LiveGlobals
        <3> DEFINE v == q.templates[x].active
        <3>4. v = None \/ v \in DOMAIN q.versions
            BY <3>3 DEF Tables
        <3>5. v # None => r.versions[v] = q.versions[v]
            BY <3>4 DEF RenewedKey, Extends
        <3>6. Outdated(r, x, other) => Outdated(q, x, other)
            BY <3>3, <3>5 DEF Outdated, Pristine
        <3>7. Leads(r.recent, Carry(r, other), x)
            BY <2>4, <3>1
        <3> QED
            BY <3>1, <3>6, <3>7 DEF Settled
    <2> QED
        BY <2>3, <2>4, <2>5
<1> QED
    BY <1>4, <1>5, <1>6

\* The global templates fit in the page a list call reads.
Fits(p) == Cardinality(LiveGlobals(p)) =< PageLimit

\* Then the list is whole: what leads in it is what leads among all templates.
LEMMA ListedIs ==
    ASSUME NEW p, Tables(p)
    PROVE  /\ ListGlobal(p) \in Seq(LiveGlobals(p))
           /\ IsFiniteSet(LiveGlobals(p))
           /\ Fits(p) => \A M, x : M \subseteq LiveGlobals(p) =>
                           (Leads(ListGlobal(p), M, x) <=> Leads(p.recent, M, x))
<1> DEFINE G == LiveGlobals(p)
           s == p.recent
           ids == Those(s, {n \in DOMAIN s : s[n] \in G})
           n == Min({PageLimit, Len(ids)})
<1>1. PICK T : s \in Seq(T)
    BY DEF Tables, IsTable
<1>2. ListGlobal(p) = SubSeq(ids, 1, n)
    BY DEF ListGlobal
<1>3. ids \in Seq(T \cap G) /\ Differ(ids)
    <2>1. Differ(s)
        BY DEF Tables
    <2> HIDE DEF G, s
    <2> QED
        BY <1>1, <2>1, ThoseLead
<1>4. ASSUME NEW M, NEW x, M \subseteq G PROVE Leads(ids, M, x) <=> Leads(s, M, x)
    <2>1. M \cap G = M
        BY <1>4
    <2> HIDE DEF G, s
    <2>2. Leads(ids, M, x) <=> Leads(s, M \cap G, x)
        BY <1>1, ThoseLead
    <2> QED
        BY <2>1, <2>2
<1>5. IsFiniteSet(G) /\ Cardinality(G) \in Nat
    <2>1. DOMAIN p.templates = 1..Len(p.templates) /\ Len(p.templates) \in Nat
        BY TableAppend DEF Tables
    <2>2. IsFiniteSet(1..Len(p.templates))
        BY <2>1, FS_Interval
    <2>3. G \in SUBSET (1..Len(p.templates))
        BY <2>1 DEF LiveGlobals
    <2> HIDE DEF G
    <2> QED
        BY <2>2, <2>3, FS_Subset, FS_CardinalityType
<1> HIDE DEF G, ids
<1>6. ids \in Seq(G) /\ Len(ids) \in Nat
    BY <1>3
<1>7. n \in Nat /\ n =< Len(ids) /\ (n = PageLimit \/ n = Len(ids)) /\ n =< PageLimit
    <2> DEFINE A == {PageLimit, Len(ids)}
    <2>1. A \in SUBSET Nat /\ A # {}
        BY <1>6, NovelAssumption
    <2>2. n \in A /\ \A y \in A : n =< y
        BY <2>1, MinExists
    <2> HIDE DEF n
    <2> QED
        BY <2>2, <1>6, NovelAssumption
<1> HIDE DEF n
<1>8. SubSeq(ids, 1, n) \in Seq(G)
    BY <1>6, <1>7
<1>9. Len(ids) =< Cardinality(G)
    <2> DEFINE m == Len(ids)
    <2>1. ids \in [1..m -> G]
        BY <1>6
    <2>2. \A i, j \in 1..m : ids[i] = ids[j] => i = j
        BY <1>3, <2>1 DEF Differ
    <2>3. ids \in Injection(1..m, G)
        BY <2>1, <2>2 DEF Injection, IsInjective
    <2>4. Cardinality(1..m) =< Cardinality(G)
        <3> HIDE DEF m
        <3> QED
            BY <2>3, <1>5, FS_Injection
    <2>5. Cardinality(1..m) = m
        <3>1. m \in Nat
            BY <1>6
        <3> HIDE DEF m
        <3>2. Cardinality(1..m) = IF 1 > m THEN 0 ELSE m - 1 + 1
            BY <3>1, FS_Interval
        <3> QED
            BY <3>1, <3>2
    <2> QED
        BY <2>4, <2>5
<1>10. ASSUME Fits(p) PROVE SubSeq(ids, 1, n) = ids
    <2>1. Cardinality(G) =< PageLimit
        BY <1>10 DEF Fits, G
    <2>2. Len(ids) =< PageLimit
        BY <1>5, <1>6, <1>9, <2>1, NovelAssumption
    <2>3. n = Len(ids)
        BY <1>6, <1>7, <2>2, NovelAssumption
    <2> QED
        BY <1>6, <2>3
<1>11. Fits(p) => \A M, x : M \subseteq G => (Leads(ListGlobal(p), M, x) <=> Leads(s, M, x))
    BY <1>2, <1>4, <1>10
<1> QED
    BY <1>2, <1>5, <1>8, <1>11 DEF G

\* What the installation that read p has reached in q after n keys.
Reaches(p, q, n) ==
  /\ Tables(q) /\ LiveGlobals(p) \subseteq LiveGlobals(q)
  /\ Fits(p) =>
       /\ \A j \in 1..n : Settled(q, Keys[j])
       /\ \A key : (\A j \in 1..n : Keys[j] # key) =>
            \A x : Leads(ListGlobal(p), Carry(q, key), x) <=> Leads(q.recent, Carry(q, key), x)

LEMMA ReachesOn ==
    ASSUME NEW p, Tables(p), ReleaseFits, NEW q, NEW n \in Nat, n + 1 =< Len(Keys), Reaches(p, q, n)
    PROVE  LET e == EnsureKey(q, Keys[n + 1], ListGlobal(p)) IN
           \/ e = << >> /\ Reaches(p, q, n + 1)
           \/ IsTable(e) /\ Len(e) > 0 /\ Reaches(p, Last(e), n + 1)
<1> DEFINE key == Keys[n + 1]
           listed == ListGlobal(p)
           e == EnsureKey(q, key, listed)
           r == Last(e)
           C == Carry(q, key)
           Visited(k) == \E j \in 1..n : Keys[j] = k
           Agree(x, k) == \A t : Leads(listed, Carry(x, k), t) <=> Leads(x.recent, Carry(x, k), t)
<1>1. key \in DOMAIN Shipped
    BY PromptAssumption
<1>2. Tables(q) /\ LiveGlobals(p) \subseteq LiveGlobals(q)
    BY DEF Reaches
<1>3. listed \in Seq(LiveGlobals(q))
    <2>1. listed \in Seq(LiveGlobals(p))
        BY ListedIs
    <2> HIDE DEF listed
    <2> QED
        BY <1>2, <2>1
<1>4. \A j : j \in 1..(n + 1) <=> j \in 1..n \/ j = n + 1
    OBVIOUS
<1>a. Fits(p) => (\A j \in 1..n : Settled(q, Keys[j])) /\ \A k : ~ Visited(k) => Agree(q, k)
    BY DEF Reaches
<1>b. ASSUME NEW x, Tables(x), LiveGlobals(p) \subseteq LiveGlobals(x),
             Fits(p) => /\ \A j \in 1..(n + 1) : Settled(x, Keys[j])
                        /\ \A k : ~ Visited(k) /\ k # key => Agree(x, k)
      PROVE  Reaches(p, x, n + 1)
    BY <1>b, <1>4 DEF Reaches
<1> HIDE DEF key, listed, e, r, C, Agree, Visited
<1>c. key = Keys[n + 1]
    BY DEF key
<1>5. \/ (\E t : Leads(listed, C, t) /\ ~ Outdated(q, t, key)) /\ e = << >>
      \/ IsTable(e) /\ Len(e) > 0 /\ \E t : RenewedKey(q, r, key, t)
    BY <1>1, <1>2, <1>3, EnsureKeyDoes DEF e, r, C
<1>6. CASE (\E t : Leads(listed, C, t) /\ ~ Outdated(q, t, key)) /\ e = << >>
    <2>1. PICK t : Leads(listed, C, t) /\ ~ Outdated(q, t, key)
        BY <1>6
    <2>2. ASSUME Fits(p) PROVE Settled(q, key)
        <3>1. CASE Visited(key)
            BY <1>a, <2>2, <3>1 DEF Visited
        <3>2. CASE ~ Visited(key)
            <4>1. Leads(q.recent, C, t)
                BY <1>a, <2>1, <2>2, <3>2 DEF Agree, C
            <4> QED
                BY <2>1, <4>1 DEF Settled, C
        <3> QED
            BY <3>1, <3>2
    <2>3. Fits(p) => \A j \in 1..(n + 1) : Settled(q, Keys[j])
        BY <1>4, <1>a, <1>c, <2>2
    <2>4. Reaches(p, q, n + 1)
        BY <1>2, <1>a, <1>b, <2>3
    <2> QED
        BY <1>6, <2>4 DEF e, key, listed
<1>7. CASE IsTable(e) /\ Len(e) > 0 /\ \E t : RenewedKey(q, r, key, t)
    <2>1. PICK t : RenewedKey(q, r, key, t)
        BY <1>7
    <2>2. /\ LiveGlobals(q) \subseteq LiveGlobals(r)
          /\ Settled(r, key)
          /\ \A k : k # key =>
               /\ Carry(r, k) = Carry(q, k)
               /\ \A x : Leads(r.recent, Carry(r, k), x) <=> Leads(q.recent, Carry(q, k), x)
               /\ Settled(q, k) => Settled(r, k)
        BY <1>2, <2>1, RenewedKeeps
    <2>3. Tables(r)
        BY <2>1 DEF RenewedKey
    <2>4. ASSUME Fits(p), NEW j \in 1..(n + 1) PROVE Settled(r, Keys[j])
        <3>1. CASE Keys[j] = key
            BY <2>2, <3>1
        <3>2. CASE Keys[j] # key
            BY <1>4, <1>a, <1>c, <2>2, <2>4, <3>2
        <3> QED
            BY <3>1, <3>2
    <2>5. ASSUME Fits(p), NEW k, ~ Visited(k), k # key PROVE Agree(r, k)
        <3>1. Agree(q, k)
            BY <1>a, <2>5
        <3> QED
            BY <2>2, <2>5, <3>1 DEF Agree
    <2>6. Reaches(p, r, n + 1)
        BY <1>2, <1>b, <2>2, <2>3, <2>4, <2>5
    <2> QED
        BY <1>7, <2>6 DEF e, key, listed, r
<1> QED
    BY <1>5, <1>6, <1>7

LEMMA EmptyConcat ==
    ASSUME NEW s, IsTable(s)
    PROVE  s \o << >> = s
<1>1. PICK S : s \in Seq(S)
    BY DEF IsTable
<1> QED
    BY <1>1

\* After an installation every key is settled, if the templates fitted before it.
LEMMA EnsureSettles ==
    ASSUME NEW p, Tables(p), ReleaseFits
    PROVE  Reaches(p, Ensured(p), Len(Keys))
<1> DEFINE f == CommitsUpTo(p)
           N == Len(Keys)
           Full(n) == IsTable(f[n]) /\ Len(f[n]) > 0 /\ Reaches(p, Last(f[n]), n)
           S == {n \in Nat : n =< N => Full(n)}
<1>1. N \in Nat
    BY PromptAssumption
<1>2. f[0] = <<p>>
    BY CommitsGoOn
<1>3. \A n \in 1..N : f[n] = f[n - 1] \o EnsureKey(Last(f[n - 1]), Keys[n], ListGlobal(p))
    BY CommitsGoOn
<1> HIDE DEF f
<1>4. Full(0)
    <2>1. Reaches(p, p, 0)
        <3>1. \A key : Carry(p, key) \subseteq LiveGlobals(p)
            BY DEF Carry
        <3>2. ASSUME Fits(p), NEW key, NEW x
              PROVE  Leads(ListGlobal(p), Carry(p, key), x) <=> Leads(p.recent, Carry(p, key), x)
            BY <3>1, <3>2, ListedIs
        <3>3. 1..0 = {}
            OBVIOUS
        <3> QED
            BY <3>2, <3>3 DEF Reaches
    <2> QED
        BY <1>2, <2>1, SingleEntry
<1>5. ASSUME NEW n \in Nat, n + 1 =< N, Full(n) PROVE Full(n + 1)
    <2> DEFINE q == Last(f[n])
               e == EnsureKey(q, Keys[n + 1], ListGlobal(p))
    <2>1. f[n + 1] = f[n] \o e
        <3>1. n + 1 \in 1..N /\ (n + 1) - 1 = n
            BY <1>1, <1>5
        <3> QED
            BY <1>3, <3>1
    <2>2. \/ e = << >> /\ Reaches(p, q, n + 1)
          \/ IsTable(e) /\ Len(e) > 0 /\ Reaches(p, Last(e), n + 1)
        BY <1>5, ReachesOn
    <2> HIDE DEF e
    <2>3. CASE e = << >> /\ Reaches(p, q, n + 1)
        <3>1. f[n] \o << >> = f[n]
            BY <1>5, EmptyConcat
        <3>2. f[n + 1] = f[n]
            BY <2>1, <2>3, <3>1
        <3> QED
            BY <1>5, <2>3, <3>2
    <2>4. CASE IsTable(e) /\ Len(e) > 0 /\ Reaches(p, Last(e), n + 1)
        <3>1. Last(f[n] \o e) = Last(e)
            BY <1>5, <2>4, LastOfConcat
        <3>2. IsTable(f[n] \o e) /\ Len(f[n] \o e) = Len(f[n]) + Len(e) /\ Len(f[n]) \in Nat /\ Len(e) \in Nat
            BY <1>5, <2>4, ConcatEntries
        <3>3. Len(f[n] \o e) > 0
            BY <1>5, <2>4, <3>2
        <3> QED
            BY <2>1, <2>4, <3>1, <3>2, <3>3
    <2> QED
        BY <2>2, <2>3, <2>4
<1> HIDE DEF Full
<1>6. \A n \in Nat : n \in S
    <2>1. 0 \in S
        BY <1>4
    <2>2. ASSUME NEW n \in S PROVE n + 1 \in S
        <3>1. n \in Nat /\ (n + 1 =< N => n =< N)
            BY <1>1
        <3> QED
            BY <1>5, <3>1
    <2>3. S \in SUBSET Nat
        OBVIOUS
    <2> HIDE DEF S
    <2> QED
        BY <2>1, <2>2, <2>3, AllNumbers
<1>7. Full(N)
    BY <1>1, <1>6
<1> QED
    BY <1>7 DEF Full, f, Ensured, EnsureCommits

\* Where every key is settled, an installation does nothing.
LEMMA SettledStays ==
    ASSUME NEW p, Tables(p), ReleaseFits, Fits(p), \A j \in 1..Len(Keys) : Settled(p, Keys[j])
    PROVE  Ensured(p) = p
<1> DEFINE f == CommitsUpTo(p)
           N == Len(Keys)
           S == {n \in Nat : n =< N => f[n] = <<p>>}
<1>1. N \in Nat /\ \A n \in 1..N : Keys[n] \in DOMAIN Shipped
    BY PromptAssumption
<1>2. f[0] = <<p>>
    BY CommitsGoOn
<1>3. \A n \in 1..N : f[n] = f[n - 1] \o EnsureKey(Last(f[n - 1]), Keys[n], ListGlobal(p))
    BY CommitsGoOn
<1> HIDE DEF f
<1>4. ASSUME NEW n \in 1..N PROVE EnsureKey(p, Keys[n], ListGlobal(p)) = << >>
    <2> DEFINE key == Keys[n]
    <2>1. key \in DOMAIN Shipped /\ Settled(p, key)
        BY <1>1
    <2> HIDE DEF key
    <2>2. PICK t : Leads(p.recent, Carry(p, key), t) /\ ~ Outdated(p, t, key)
        BY <2>1 DEF Settled
    <2>3. Carry(p, key) \subseteq LiveGlobals(p)
        BY DEF Carry
    <2>4. Leads(ListGlobal(p), Carry(p, key), t)
        BY <2>2, <2>3, ListedIs
    <2>5. ListGlobal(p) \in Seq(LiveGlobals(p))
        BY ListedIs
    <2>6. EnsureKey(p, key, ListGlobal(p)) = << >>
        BY <2>1, <2>2, <2>4, <2>5, EnsureKeyDoes
    <2> QED
        BY <2>6 DEF key
<1>5. 0 \in S /\ S \in SUBSET Nat
    BY <1>2
<1>6. ASSUME NEW n \in S PROVE n + 1 \in S
    <2>1. SUFFICES ASSUME n + 1 =< N PROVE f[n + 1] = <<p>>
        OBVIOUS
    <2>2. n + 1 \in 1..N /\ (n + 1) - 1 = n /\ f[n] = <<p>>
        BY <1>1, <2>1
    <2>3. Last(<<p>>) = p /\ <<p>> \o << >> = <<p>>
        BY SingleEntry, EmptyConcat
    <2> QED
        BY <1>3, <1>4, <2>2, <2>3
<1> HIDE DEF S
<1>7. N \in S
    BY <1>1, <1>5, <1>6, AllNumbers
<1>8. f[N] = <<p>>
    BY <1>1, <1>7 DEF S
<1>9. Last(<<p>>) = p
    BY SingleEntry
<1> QED
    BY <1>8, <1>9 DEF f, Ensured, EnsureCommits

\* Installing the built-in prompts a second time changes nothing, whatever users
\* and interrupted calls made of the templates before (ensure_default_prompt_templates),
\* as long as the global ones fit in the page it reads; and a rendering reports
\* what it left out.
THEOREM PromptsConverge == PromptSpec => []PromptSound
<1>1. PromptInv => EnsureIdempotent
    <2> DEFINE once == Ensured(prompt)
    <2>1. SUFFICES ASSUME PromptInv, Cardinality(LiveGlobals(once)) =< PageLimit
                   PROVE  Ensured(once) = once
        BY DEF EnsureIdempotent
    <2>2. Tables(prompt) /\ ReleaseFits
        BY <2>1 DEF PromptInv
    <2>3. Reaches(prompt, once, Len(Keys))
        BY <2>2, EnsureSettles
    <2> HIDE DEF once
    <2>4. Tables(once) /\ LiveGlobals(prompt) \subseteq LiveGlobals(once)
        BY <2>3 DEF Reaches
    <2>5. Fits(once)
        BY <2>1 DEF Fits
    <2>6. Fits(prompt)
        <3>1. IsFiniteSet(LiveGlobals(once)) /\ IsFiniteSet(LiveGlobals(prompt))
            BY <2>2, <2>4, ListedIs
        <3>2. Cardinality(LiveGlobals(prompt)) =< Cardinality(LiveGlobals(once))
            BY <2>4, <3>1, FS_Subset
        <3>3. Cardinality(LiveGlobals(prompt)) \in Nat /\ Cardinality(LiveGlobals(once)) \in Nat
            BY <3>1, FS_CardinalityType
        <3> QED
            BY <2>1, <3>2, <3>3, NovelAssumption DEF Fits
    <2>7. \A j \in 1..Len(Keys) : Settled(once, Keys[j])
        BY <2>3, <2>6 DEF Reaches
    <2> QED
        BY <2>2, <2>4, <2>5, <2>7, SettledStays
<1>2. NovelInit /\ PromptInit => PromptInv
    BY PromptStart
<1>3. PromptInv /\ [\/ NovelNext /\ UNCHANGED promptVars
                    \/ (TemplateNext \/ RenderNext) /\ UNCHANGED novel]_<<novel, promptVars>>
      => PromptInv'
    BY PromptStepKeeps
<1>4. PromptSpec => []EnsureIdempotent
    BY <1>1, <1>2, <1>3, PTL DEF PromptSpec
<1> QED
    BY <1>4, RenderingsReport, PTL DEF PromptSound
=============================================================================
