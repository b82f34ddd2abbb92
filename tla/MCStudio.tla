------------------------------ MODULE MCStudio ------------------------------
(***************************************************************************)
(* The services of the writing studio for TLC, one run for all of them.    *)
(* A behaviour is of one slice: Limits[slice] calls of one service (with   *)
(* the library changing under those that read it), and the steps of the    *)
(* threads and coroutines these calls start; the other services are at     *)
(* rest.  A service shares no state with another, except that the texts,   *)
(* revisions, memory and prompts read the library, and their slices        *)
(* contain it.                                                             *)
(***************************************************************************)
EXTENDS Memory, Prompts, MemoryRetrieval, ContextAssembly, Evaluation, AdapterEvaluation,
        ModelProfiles, Downloads, Accounts, TrainingRecipes, DatasetExports

CONSTANTS a, b,       \* words
          Limits      \* bound: the calls in a behaviour of each slice

VARIABLES slice, calls

serviceVars == <<novel, revisionVars, memoryVars, promptVars, found, assembled, evalVars, comparisonVars,
                 profileVars, downloadVars, accountVars, recipeVars, exportVars>>

Still(own) ==
  /\ IF "novel" \in own THEN TRUE ELSE UNCHANGED novel
  /\ IF "revisions" \in own THEN TRUE ELSE UNCHANGED revisionVars
  /\ IF "memory" \in own THEN TRUE ELSE UNCHANGED memoryVars
  /\ IF "prompts" \in own THEN TRUE ELSE UNCHANGED promptVars
  /\ IF "retrieval" \in own THEN TRUE ELSE UNCHANGED found
  /\ IF "context" \in own THEN TRUE ELSE UNCHANGED assembled
  /\ IF "evaluation" \in own THEN TRUE ELSE UNCHANGED evalVars
  /\ IF "comparison" \in own THEN TRUE ELSE UNCHANGED comparisonVars
  /\ IF "profiles" \in own THEN TRUE ELSE UNCHANGED profileVars
  /\ IF "downloads" \in own THEN TRUE ELSE UNCHANGED downloadVars
  /\ IF "accounts" \in own THEN TRUE ELSE UNCHANGED accountVars
  /\ IF "recipes" \in own THEN TRUE ELSE UNCHANGED recipeVars
  /\ IF "exports" \in own THEN TRUE ELSE UNCHANGED exportVars

-----------------------------------------------------------------------------
(* The library a behaviour begins with: none, one empty project, or two    *)
(* projects, each with a volume and a chapter.                             *)

Furnished ==
  <<ProjectRow(1), ProjectRow(2), [Blank("volume", 1) EXCEPT !.index = 1, !.auto = TRUE],
    [Blank("chapter", 1) EXCEPT !.parent = 3, !.index = 1, !.auto = TRUE, !.draft = <<a>>, !.words = 1],
    [Blank("volume", 2) EXCEPT !.index = 1, !.auto = TRUE],
    [Blank("chapter", 2) EXCEPT !.parent = 5, !.index = 2, !.final = <<b, a>>, !.words = 2]>>

LibraryOf(s) ==
  CASE s \in {"library", "revisions", "documents", "summaries"} -> Furnished
    [] s = "prompts" -> <<ProjectRow(1)>>
    [] OTHER -> <<>>

Init ==
  /\ slice \in DOMAIN Limits
  /\ calls = 0
  /\ novel = LibraryOf(slice)
  /\ rendered = <<>> /\ release = 1
  /\ prompt \in IF slice = "prompts" THEN {NoPrompts, Ensured(NoPrompts)} ELSE {NoPrompts}
  /\ RevisionInit /\ MemoryInit
  /\ RetrievalInit /\ ContextInit /\ EvaluationInit /\ ComparisonInit
  /\ ProfileInit /\ DownloadInit /\ AccountInit /\ RecipeInit
  /\ ExportInit /\ (slice # "exports" => \A s \in ExportSamples : sampled[s].status = "approved")

\* What happens to the rows under the services that read them.
RowChanges ==
  \E i \in DOMAIN novel :
    \/ DeleteProject(i) \/ DeleteChapter(i)
    \/ UpdateChapter(i, None, "live") \/ UpdateProject(i, "live")
    \/ \E t \in Drafts : WriteChapter(i, t, <<>>)

Readers == {"revisions", "documents", "summaries"}

Calls ==
  \/ slice \in {"library", "new_library"} /\ NovelNext /\ Still({"novel"})
  \/ slice \in Readers /\ RowChanges /\ Still({"novel"})
  \/ slice = "revisions" /\ RevisionNext /\ Still({"revisions"})
  \/ slice = "documents" /\ DocumentNext /\ Still({"memory"})
  \/ slice = "summaries" /\ SummaryNext /\ Still({"novel", "memory"})
  \/ slice = "prompts" /\ TemplateNext /\ Still({"prompts"})
  \/ slice = "prompts" /\ calls = 1 /\ RenderNext /\ Still({"prompts"})
  \/ slice = "retrieval" /\ RetrievalNext /\ Still({"retrieval"})
  \/ slice = "context" /\ ContextNext /\ Still({"context"})
  \/ slice = "evaluation" /\ CallNext /\ Still({"evaluation"})
  \/ slice = "comparison" /\ ComparisonCalls /\ Still({"comparison"})
  \/ slice = "profiles" /\ ProfileNext /\ Still({"profiles"})
  \/ slice = "downloads" /\ DownloadCalls /\ Still({"downloads"})
  \/ slice = "accounts" /\ AccountNext /\ Still({"accounts"})
  \/ slice = "recipes" /\ RecipeCalls /\ Still({"recipes"})

Steps ==
  \/ slice = "evaluation" /\ (ExecutionNext \/ HandlerNext) /\ Still({"evaluation"})
  \/ slice = "comparison" /\ ComparisonSteps /\ Still({"comparison"})
  \/ slice = "downloads" /\ DownloadSteps /\ Still({"downloads"})
  \/ slice = "recipes" /\ RecipeSteps /\ Still({"recipes"})
  \/ slice = "exports" /\ ExportNext /\ Still({"exports"})

Next ==
  /\ UNCHANGED slice
  /\ \/ calls < Limits[slice] /\ Calls /\ calls' = calls + 1
     \/ Steps /\ UNCHANGED calls

Spec == Init /\ [][Next]_<<serviceVars, slice, calls>>

-----------------------------------------------------------------------------
(* Values of the constants.                                                *)

MCTexts == {<<>>, <<a>>, <<b, a>>}
MCDrafts == {<<>>, <<a>>}

MCLimits ==
  [library |-> 2, new_library |-> 3, revisions |-> 3, documents |-> 3, summaries |-> 3, prompts |-> 3,
   retrieval |-> 1, context |-> 1, evaluation |-> 3, comparison |-> 5, profiles |-> 4, downloads |-> 3,
   accounts |-> 6, recipes |-> 5, exports |-> 0]

\* Only the comparisons, or only the recipes.
MCComparison == [comparison |-> 5]
MCRecipes == [recipes |-> 5]

MCSchemas == ("old" :> [uses |-> {"title","style"}, required |-> {"title"}, defaults |-> {"style"}, declared |-> {"title","style"}])
  @@ ("new" :> [uses |-> {"genre","style","characters"}, required |-> {"style"}, defaults |-> {"genre"}, declared |-> {"genre","style"}])
  @@ ("own" :> [uses |-> {"style"}, required |-> {"style", "genre"}, defaults |-> {}, declared |-> {"genre"}])
MCShipped == (1 :> <<"old","new">>) @@ (2 :> <<"new", "new">>)
MCKeys == <<1, 2>>

MCFilesOf == << {"config", "weights", "tokenizer"}, {"gguf"} >>
MCLists == {<<"pacing", "local_model_judge">>}
MCVersions == << [train |-> 40, val |-> 0, tokens |-> 600], [train |-> 60, val |-> 6, tokens |-> 900000] >>
MCDefaults == [num_epochs |-> 3, lora_r |-> 16, batch_size |-> 1, gradient_accumulation_steps |-> 16]
MCUserConfigs == {[epochs |-> 2], [lora_rank |-> 8, gradient_accumulation_steps |-> 2]}

Chunk(type, hits, priority, chapter, scene, tokens, updated) ==
  [type |-> type, hits |-> hits, priority |-> priority, inChapter |-> chapter, inScene |-> scene, tokens |-> tokens, updated |-> updated]
Pool == {Chunk("chapter", 1, 1, TRUE, FALSE, 2, 1), Chunk("character", 0, 6, FALSE, FALSE, 1, 2), Chunk("generation", 2, 1, FALSE, FALSE, 3, 1),
         Chunk("scene", 1, -2, TRUE, TRUE, 1, 3)}
MCChunkSets == UNION {[1..n -> Pool] : n \in 0..3}

Ch(id, at, plan, told, text) == [id |-> id, index |-> at, outline |-> plan, summary |-> told, content |-> text]
Chs == {<<>>, <<Ch(1, 1, 2, 0, 9), Ch(2, 2, 7, 1, 0), Ch(3, 3, 1, 0, 0)>>}
Cs == {<<[id |-> 2, main |-> TRUE, size |-> 3, background |-> 2], [id |-> 1, main |-> FALSE, size |-> 2, background |-> 0], [id |-> 3, main |-> FALSE, size |-> 1, background |-> 0]>>}
Ws == {<<>>,<<[id |-> 1, here |-> FALSE, priority |-> 1, category |-> 9, size |-> 2], [id |-> 2, here |-> TRUE, priority |-> 0, category |-> 2, size |-> 1],
        [id |-> 3, here |-> FALSE, priority |-> 1, category |-> 0, size |-> 1]>>}
Ps == {<<>>, <<[id |-> 1, status |-> "open", related |-> {3}, priority |-> 0, size |-> 1], [id |-> 2, status |-> "in_progress", related |-> {}, priority |-> 0, size |-> 2],
        [id |-> 3, status |-> "closed", related |-> {}, priority |-> 5, size |-> 1]>>}
Ev(id, chapter, scene, order) == [id |-> id, chapter |-> chapter, scene |-> scene, order |-> order, size |-> 1]
Es == {<<>>, <<Ev(1, 1, 0, 2), Ev(2, 3, 0, 3), Ev(3, 2, 1, 1)>>, <<Ev(1, 0, 0, 1), Ev(2, 3, 0, 3), Ev(3, 2, 1, 2), Ev(4, 9, 0, 4)>>}
Sc == {[id |-> 0, pov |-> 0, outline |-> 0], [id |-> 1, pov |-> 3, outline |-> 1]}
Own(c) == IF c = 0 THEN NoChapter ELSE Ch(c, c, 4 + c, 0, 0)
MCProjects == {p \in [chapters : Chs, chapter : {Own(0), Own(1), Own(2)}, chapterOfProject : BOOLEAN, scene : Sc, sceneOfChapter : BOOLEAN,
   characters : Cs, world : Ws, plots : Ps, timeline : Es] : (p.chapterOfProject /\ p.sceneOfChapter) \/ (p.world = <<>> /\ p.plots = <<>> /\ p.timeline = <<>>)}
MCBudgets == {[max |-> 60, reserved |-> 5, context |-> c, chars |-> 30, hard |-> h] : c \in {4, 14, 19, 29}, h \in BOOLEAN}
   \cup {[max |-> 10, reserved |-> 10, context |-> 5, chars |-> 5, hard |-> TRUE]}
MCProtections == {{}, {"world_setting"}, {"chapter_outline", "plot_threads"}, {"timeline"}, {"previous_chapter_summary"}, {"characters", "pov_character"}}
=============================================================================
