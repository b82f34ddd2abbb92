--------------------------- MODULE TrainingRecipes ---------------------------
(***************************************************************************)
(* Training recipes and the runs made from them: the recommendation for a  *)
(* frozen version (datasets/recipe_recommender.py), its editing, its       *)
(* confirmation (datasets/service.py), and the two preflights of a run     *)
(* (finetune/preflight.py): one when it is created, which fixes what will  *)
(* be trained, one on the job's thread when it starts.                     *)
(*                                                                         *)
(* A config is a function of the keys it has, as the dicts of the code are.*)
(* What a run's job does besides, and its cancellation, is in FineTuneRuns;*)
(* versions (DatasetVersions) never change once they exist.                *)
(***************************************************************************)
EXTENDS Integers, Sequences, FiniteSets, TLC

CONSTANTS
    Versions,       \* frozen versions: [train, val, tokens] of each
    Defaults,       \* the server's config section finetune
    UserConfigs,    \* configs a PATCH may bring
    GpuSizes,       \* GB of the GPUs a request may name
    AdapterNames,   \* names a request may ask for
    MaxRecipes,     \* bound: recipes
    MaxTrainings    \* bound: runs

ASSUME RecipeAssumption ==
    /\ \A v \in DOMAIN Versions : Versions[v] \in [train : Nat \ {0}, val : Nat, tokens : Nat]
    /\ GpuSizes \subseteq Nat /\ MaxRecipes \in Nat /\ MaxTrainings \in Nat

Methods == {"lora", "qlora"}
RecipeStatus == {"draft", "confirmed", "archived"}
Qualities == {"fast", "balanced", "quality"}

VARIABLES
    recipes,     \* training_recipes, in the order of their creation
    trainRuns,   \* finetune_runs, in the order of their creation
    registered   \* directories of the adapter repository

recipeVars == <<recipes, trainRuns, registered>>

Recipes == DOMAIN recipes
TrainRuns == DOMAIN trainRuns

RecipeInit == recipes = <<>> /\ trainRuns = <<>> /\ registered = {}

-----------------------------------------------------------------------------
(* Recommending.                                                           *)

Samples(v) == Versions[v].train + Versions[v].val

Epochs(v, quality) ==
    LET base == IF Versions[v].tokens > 500000 THEN 2 ELSE IF Samples(v) < 50 THEN 4 ELSE 3
    IN CASE quality = "fast" -> IF base > 1 THEN base - 1 ELSE 1
         [] quality = "quality" -> base + 1
         [] OTHER -> base

\* At 8 GB and less it is QLoRA, whatever was asked for.
Offered(card, method) == IF card <= 8 THEN "qlora" ELSE method

LoraRank(card, method) == IF method = "lora" /\ card < 16 THEN 8 ELSE 16

Offer(v, card, method, quality) ==
    [epochs |-> Epochs(v, quality),
     lora_rank |-> LoraRank(card, method),
     gradient_accumulation_steps |-> IF card <= 8 THEN 8 ELSE 4,
     batch_size |-> 1,
     early_stopping_patience |-> 3]

\* create_training_recipe: the row.
NewRecipe(v, kind, offer) ==
    [version |-> v, method |-> kind, status |-> "draft", offer |-> offer, user |-> <<>>]

Recommend(v, card, method, quality) ==
    LET kind == Offered(card, method) IN
    /\ Len(recipes) < MaxRecipes
    /\ recipes' = Append(recipes, NewRecipe(v, kind, Offer(v, card, kind, quality)))
    /\ UNCHANGED <<trainRuns, registered>>

Patch(i, field, value) ==
    /\ recipes' = [recipes EXCEPT ![i][field] = value]
    /\ UNCHANGED <<trainRuns, registered>>

\* confirm_recipe refuses a confirmed recipe only: an archived one comes back.
Confirm(i) == recipes[i].status # "confirmed" /\ Patch(i, "status", "confirmed")

\* update_recipe and archive_recipe ask for no status: a confirmed recipe is
\* edited like a draft, and a PATCH may confirm.
Edit(i) ==
    \/ \E m \in Methods : Patch(i, "method", m)
    \/ \E s \in RecipeStatus : Patch(i, "status", s)
    \/ \E c \in UserConfigs : Patch(i, "user", c)

-----------------------------------------------------------------------------
(* Preflight.                                                              *)

\* A key takes the value of another unless it has one.
Filled(config, key, from) ==
    IF from \in DOMAIN config THEN config @@ (key :> config[from]) ELSE config

\* What the recipe says: the user's values before the recommended ones.
Said(recipe) == recipe.user @@ recipe.offer

\* _resolved_config and _config_warnings: a version with nothing to validate
\* on stops early for no reason.
Resolved(recipe) ==
    LET raw == Said(recipe) @@ Defaults
        all == Filled(Filled(raw, "num_epochs", "epochs"), "lora_r", "lora_rank")
    IN IF Versions[recipe.version].val = 0
       THEN [all EXCEPT !.early_stopping_patience = 0] ELSE all

\* _assert_adapter_name_available compares with the names of directories.
Available(name) == name \notin registered

\* The part of FineTunePreflightService.run that reads what others change.
\* (The base model, the manifest and the disk pass or do not.)
Passes(i, name) == recipes[i].status = "confirmed" /\ Available(name)

-----------------------------------------------------------------------------
(* Runs.                                                                   *)

\* _estimate_total_steps.
TotalSteps(v, config) ==
    LET batch == config.batch_size * config.gradient_accumulation_steps
        steps == (Versions[v].train * config.num_epochs + batch - 1) \div batch
    IN IF steps < 1 THEN 1 ELSE steps

Untrained == [method |-> "none"]

\* The row of a run, with the config of the first preflight as its snapshot;
\* `said` and `answered` are history.
NewTraining(i, name, config) ==
    [recipe |-> i, name |-> name, status |-> "created",
     method |-> recipes[i].method, config |-> config,
     steps |-> TotalSteps(recipes[i].version, config),
     said |-> Said(recipes[i]), answered |-> [config |-> config, method |-> recipes[i].method],
     trained |-> Untrained]

\* create_run: the snapshot is taken from the first preflight.
CreateTraining(i, name) ==
    /\ Len(trainRuns) < MaxTrainings
    /\ Passes(i, name)
    /\ trainRuns' = Append(trainRuns, NewTraining(i, name, Resolved(recipes[i])))
    /\ UNCHANGED <<recipes, registered>>

\* start_run, and a start of a run that failed.
Submit(r) ==
    /\ trainRuns[r].status \in {"created", "failed"}
    /\ trainRuns' = [trainRuns EXCEPT ![r].status = "queued"]
    /\ UNCHANGED <<recipes, registered>>

\* The job's own preflight, on the one thread of the executor; or it raises.
StartTraining(r) ==
    /\ trainRuns[r].status = "queued"
    /\ \A q \in TrainRuns : trainRuns[q].status # "training"
    /\ \/ Passes(trainRuns[r].recipe, trainRuns[r].name)
          /\ trainRuns' = [trainRuns EXCEPT ![r].status = "training"]
       \/ trainRuns' = [trainRuns EXCEPT ![r].status = "failed"]
    /\ UNCHANGED <<recipes, registered>>

\* FineTuneArgs.from_config takes the keys it knows; the others are dropped.
Args(config, method) ==
    [method |-> method, num_epochs |-> config.num_epochs, lora_r |-> config.lora_r,
     gradient_accumulation_steps |-> config.gradient_accumulation_steps]

\* (Mutant) The job trains what its own preflight resolved.
MutTrainedWith(r) == Args(Resolved(recipes[trainRuns[r].recipe]), trainRuns[r].method)

\* trainer_config: the snapshot of the run, and the trainer of its method.
TrainedWith(r) == Args(trainRuns[r].config, trainRuns[r].method)

\* The name of the adapter's directory, by which a scan knows the adapter.
TargetDir(r) == <<"novel", trainRuns[r].name, r>>

\* The trainer, then the registration of the adapter, under a directory that
\* carries the run's id; either may raise.
Train(r) ==
    /\ trainRuns[r].status = "training"
    /\ \/ /\ trainRuns' = [trainRuns EXCEPT ![r].status = "completed", ![r].trained = TrainedWith(r)]
          /\ registered' = registered \cup {TargetDir(r)}
       \/ /\ trainRuns' = [trainRuns EXCEPT ![r].status = "failed", ![r].trained = TrainedWith(r)]
          /\ UNCHANGED registered
    /\ UNCHANGED recipes

RecipeCalls ==
    \/ \E v \in DOMAIN Versions, card \in GpuSizes, m \in Methods, q \in Qualities : Recommend(v, card, m, q)
    \/ \E i \in Recipes :
         \/ Confirm(i) \/ Edit(i)
         \/ \E name \in AdapterNames \cup registered : CreateTraining(i, name)
    \/ \E r \in TrainRuns : Submit(r)

RecipeSteps == \E r \in TrainRuns : StartTraining(r) \/ Train(r)

RecipeSpec == RecipeInit /\ [][RecipeCalls \/ RecipeSteps]_recipeVars

-----------------------------------------------------------------------------
(* Properties.                                                             *)

\* What a run trains is what its creation answered (config_snapshot, method,
\* total_steps), whatever is edited, archived and confirmed again before its
\* job starts or is started again.
TrainsAsCreated ==
    \A r \in TrainRuns :
      LET run == trainRuns[r] IN
      run.trained # Untrained =>
        /\ run.trained = Args(run.answered.config, run.answered.method)
        /\ run.steps = TotalSteps(recipes[run.recipe].version, run.answered.config)

\* A training follows the recipe it was created from: as many epochs and the
\* rank the recipe says, its user's values first (docs/NOVEL_STUDIO_ROADMAP.md:27,
\* a training must start from a frozen version and a confirmed recipe).
RecipeIsTrained ==
    \A r \in TrainRuns :
      LET run == trainRuns[r] IN
      run.trained # Untrained =>
        run.trained.num_epochs = run.said.epochs /\ run.trained.lora_r = run.said.lora_rank
=============================================================================
