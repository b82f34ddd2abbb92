# LLM Studio: specifications

TLA+ specifications of the server of LLM Studio (paths of code below are relative
to `src/llm_studio/`), the TLC runs that check them on small instances and
the TLAPS proofs that hold for every value of the constants. This file lists the
parts of the system, says which module models which part and how, what each run
and each theorem shows, and what is left out.

1. [The system](#1-the-system)
2. [Plan](#2-plan)
3. [The modules](#3-the-modules)
4. [The runs](#4-the-runs)
5. [The proofs](#5-the-proofs)
6. [Disagreements between the code and what is said of it](#6-disagreements)
7. [What is not modelled](#7-what-is-not-modelled)

---

## 1. The system

LLM Studio is a local server (FastAPI, one process) with a Flutter client. It
loads language models, chats with them, writes novels with them, collects
training datasets, fine-tunes adapters and evaluates them. State is kept in
SQLite tables, in directories of models and adapters, and in memory.

### Execution model

This decides what can interleave, so every module starts from it.

* **One event loop.** Every API handler is an `async def`. It calls the services
  synchronously, so a call of a service runs on the event-loop thread from
  beginning to end unless the handler awaits. Two calls of services never
  interleave with each other on that thread.
* **Worker threads.** Background jobs run on the threads of
  `jobs/queue.py`: one executor per job type, two threads for model downloads
  and one for each other type (lines 25-34). A job handler interleaves with the
  event loop between any two of its accesses to a table.
* **Pool threads.** Blocking model work (load, unload, generate, the wait for the
  GPU semaphore), the switch of an adapter and the cleanup of directories run
  under `asyncio.to_thread`. The coroutine awaits it; if the coroutine is
  cancelled, the thread is not.
* **Daemon threads.** `generation/worker.py` runs `model.generate` on a thread of
  its own and hands out its text through a queue.
* **SQLite.** One `get` or one `save` is atomic. A read followed by a write is
  not, and most updates are of this kind.
* **Crashes.** The process may be killed at any time. Tables and files stay;
  threads, flags, executors and loaded models do not. A call of several
  transactions may so leave a prefix of them.

### Inventory

| Component | Code | State | Operations | Correct when | Hard because |
|---|---|---|---|---|---|
| Job queue | `jobs/` | table of jobs, cancel flags, executors' queues | submit, resubmit, cancel, delete, shutdown, run, update, recovery at start | a row never shows an end while a run can still write it; one run per job; a cancel reaches its run | event loop against threads, stale saves, restart |
| GPU scheduler | `runtime/gpu_scheduler.py` | bounded semaphore, list of running tasks, count of waiting ones | acquire (sync, async), release, timeout, snapshot | no permit lost or made up; every call is answered | timeout against release; cancelled coroutine with a live thread |
| Model runtime | `api_server.py`, `runtime/concurrency.py` | `_runners`, `_current_model_id`, `_load_lock`, slot semaphore, queue count | load on demand, unload, chat, stream | a model is loaded once, and not unloaded under a generation; counters of the gate are exact | double-checked load, object used long after it was looked up |
| Generation worker | `generation/worker.py`, `cancellation.py` | thread, streamer queue, token, errors | iterate, drop, cancel, time out | chunks in order, none lost; errors surface; the thread ends | two threads and a queue with a timeout |
| Writing generations | `writing/` | records of generations, cancellation tokens, active adapter, inference scope | generate, stream, cancel, disconnect, save to chapter | the record says how it ended and holds what was shown; the scope is left | many early ends of a generator |
| Fine-tune runs | `finetune/` | rows of runs and checkpoints, adapter directory | create, start, cancel, resume, job handler and callbacks | completed implies a registered adapter; cancels stop; one job per run | event loop and job thread write one row column by column |
| Training recipes | `datasets/recipe_*.py`, `finetune/preflight.py` | recipes, snapshots in the run's row | recommend, edit, confirm, archive, two preflights | what is trained is what the creation answered | edited between two reads; two names for one key |
| Datasets | `datasets/` | samples, counts, status, versions, version directories | add, edit, review, freeze | a version is backed by its files for good; validation is disjoint | no transaction spans tables and files |
| Dataset exports | `datasets/exporters.py` | export files, one `metadata.json`, rows | export | a row tells what its file holds | names used again; broken off between file and row |
| Downloads, model repository, cleanup | `downloads/`, `models/`, `storage/` | staging directories, model directories, index file, jobs | start, cancel, retry, handler, scan, move to trash, clean up | an installed model is whole and is not written over | check-then-rename, retries on leftovers, four kinds of threads |
| Novels | `novels/` | eight tables of one file | create, move, renumber, delete, revive, write text | a tree whose numbers identify its rows | deleted rows count for numbers and may come back |
| Revisions | `revisions/` | revisions, autosaves | create, update, review, save, prune | diff and hash are of the texts; the newest drafts survive | saved by some calls, pruned by others |
| Memory, retrieval | `memory/` | documents, index, summary versions | from library, by hand, rebuild, activate, retrieve | one build brings the memory up to date; one active summary; nothing lost between chunks | an await in the middle; several commits; pages |
| Context assembler | `context/` | none | assemble | cut in its order, nothing of later chapters | many priorities and exceptions |
| Prompt studio | `prompts/` | templates, versions, renderings | create, activate, copy, render, install and upgrade built-ins | user text is never replaced; installing converges | one page of 200, cut-off upgrades |
| Evaluation center | `evaluation/` | runs, cases, outputs, scores, reports | start, cancel, archive, score, report, job | completed is whole; running is executed | one function on the event loop and on the job thread |
| Adapter evaluation | `adapter_evaluation/` | sessions, cases, results, scores | prepare, run, score, report, revise | the two texts of a pair belong together | several awaits in one call |
| Model profiles | `model_gateway/` | profiles | create, update, archive, default, built-ins | one default | a flag moved by four calls |
| Accounts and roles | `admin.py`, `auth/` | users, one JSON file, admin session | create, update, toggle, regenerate, delete, permission of a request | a key opens what the last answered call says | file written in place; end of the process in a call |
| RAG, chat history, vision, diagnostics, configuration, client, scripts | as named | - | - | - | see section 7 |

### How they interact

```
 HTTP handlers (event loop) --- Accounts (permission of each request)
   |            \               \                    \                \
 JobQueue     ModelRuntime    WritingGeneration    DatasetVersions   Novels <- Revisions
   |  threads    |  gate+lock    |  provider, bridge  |  files          ^        Memory
   |             |               |     ^              |                 |        Prompts
   |             |               | AdapterEvaluation  DatasetExports    +------- contexts
 FineTuneRuns    +--- GpuScheduler (one semaphore) ---+
   |             |               |
   | recipes     +--- GenerationStream (worker thread)
   +---------- reads a version's manifest and files
 Downloads (threads) --- model directories, index --- scans, cleanup
 Evaluation (thread and event loop) --- ModelProfiles
```

* Fine-tunings, downloads, evaluations and scans are jobs of the queue. A fine-tune job
  waits for the GPU like an inference, and starts from a dataset version and a recipe.
* Chat, writing, loading, unloading, benchmarks and training share the GPU
  scheduler; chat and writing also share the gate, and a stream of either reads its
  chunks from a generation worker: `StreamingRequest` composes these.
* The pair of a comparison goes through the bridge of the writings, where the adapter of
  the shared runner is switched.
* Revisions, memory, prompts and contexts read the library.
* At start `create_app` builds the job repository, which sweeps the rows of a
  dead process; at the end the lifespan handler unloads the runners and then calls
  `_job_queue.shutdown(wait=False)`.

---

## 2. Plan

The order is that of importance: what everything else stands on first. All of it is done.

| # | Module | Subject | State of it |
|---|---|---|---|
| 1 | `JobQueue` | the job queue and its table | checked, safety proved |
| 2 | `GpuScheduler` | the GPU semaphore | checked, safety proved |
| 3 | `ModelRuntime` (extends 2) | load, unload, chat over lock, gate and GPU | checked, safety proved |
| 4 | `GenerationStream`, `ChunkStream` | the worker thread and its iterator; the contract it implements | checked, safety and refinement proved |
| 5 | `StreamingRequest` (extends 2 and 4) | streams under the GPU permit | checked, safety and refinement proved |
| 6 | `WritingGeneration` | generation records over bridge and gateway | checked, safety proved |
| 7 | `FineTuneRuns` | runs and their jobs | checked, safety proved |
| 8 | `TrainingRecipes` | what a run trains | checked, proved |
| 9 | `DatasetVersions` | samples, freezing, splitting | checked, safety proved |
| 10 | `DatasetExports` | the export files and their rows | checked, proved |
| 11 | `Downloads` | staging, rename, registration, index, cleanup | checked, safety proved |
| 12 | `Evaluation`, `AdapterEvaluation` | runs executed at two places; pairs over awaits | checked, proved |
| 13 | `Novels`, `Revisions`, `Memory`, `Prompts` | the library and what is derived from it | checked, proved |
| 14 | `Lists`, `MemoryRetrieval`, `ContextAssembly` | pure functions of a call | checked over bounded inputs, proved for all |
| 15 | `ModelProfiles`, `Accounts` | profiles; users, keys, permissions | checked, proved |
| 16 | `MCStudio` | 8 and 10 to 15 in one run, slice by slice | - |

Abstract specifications: `ChunkStream` for 4 and 5; the scheduler itself is the abstraction
of its use by 3 and 5 (every step of theirs is a step of the scheduler or leaves it alone).
Pure functions are stated against what they are for: the chunks cover the text, the
selection is the best that fits, the cut follows its order.

Still worth doing: the RAG index.

---

## 3. The modules

Every module names its variables after the code's where there is a name to take.
One action is one access that another actor can see; where two accesses are
merged, the comment at the action says why nothing can tell. A handler that nothing can
interrupt is one action.

### JobQueue - `jobs/queue.py`, `jobs/repository.py`, `jobs/entities.py`, the retry and delete routes of `api/routers/downloads.py`

| Model | Code |
|---|---|
| `row[j]` | the `status` column of the job's row |
| run `<<j, n>>` | the n-th submission of job j: a task in an executor, with its own `threading.Event` |
| `flag[j]`, `set` | `_cancel_flags`: which run's Event is registered; which Events are set |
| `queue[p]`, `PoolSize` | the executor's work queue and its `max_workers` |
| `api` | the call in which the event loop is, with what it read |
| `pc[r]`, `seen[r]` | where `_run` stands, and what `update()` read |
| `closed`, `up`, `boots` | `_closed`; whether a process exists; how many there were |

`Submit`/`ResubmitRead`+`ResubmitAccepted`/`Enqueue`, `CancelRead`/`CancelFlag`/
`CancelSave`, `DeleteRead`/`Delete`, `Shutdown` with its loop over the flags (which a
popped flag aborts with `RuntimeError`, as Python does) and over the executors; `Start`,
`UpdateRead`/`UpdateSave`, `HandlerEnds`, `Finish`, `Pop` on the threads; `Exit` at any
time and `Restart` with the sweep of the table. Not kept: progress, messages and
payloads of a row.

`DownloadManager._merge_payload` (downloads/manager.py:302-318) reads a row and saves all of
it, status included, without a look at the Event. Its two places are steps of the queue:
`MergeRead`/`MergeSave` on the event loop, with which the cancel route of the downloads goes on
after `CancelSave` (manager.py:98), and `ReportRead`/`UpdateSave` in a handler. Which job type
takes which route is left open. `merged` is history: the jobs cancelled by the download route
since they were last accepted, in this process.

### GpuScheduler - `runtime/gpu_scheduler.py`

`gpu[t]` is the place of a call in `_acquire_sync`/`_release_sync`: one action per lock
section and per semaphore operation (`Ask`, `Grant`, `Expire`, `List`, `Uncount`,
`Unlist`, `Return`). `free`, `running` and `queued` are the semaphore's value, `_running`
and `_queued_count`. `Cancel(t)` cancels the coroutine that awaits the pool thread of
`t`: the thread goes on, `gone` remembers that nobody will release for it. A permit
counted beyond the semaphore's size would raise in the code (`BoundedSemaphore`); the
model does not forbid it, the type invariant says that it does not happen.

### ModelRuntime - parts of `api_server.py`, `runtime/concurrency.py`, `runner.py`

Extends `GpuScheduler`: each request is also a GPU task. `Resolve` is the test outside
the lock, `LoadLocked` the test inside; `Load`, `Loaded`, `LoadEnd` the load and its end
by success or error; `UnloadLocked` .. `UnloadEnd` the unload route; `EnterGate` ..
`LeaveGate` the gate around a chat. A runner object is named by the request that made it,
so the model tells an old runner from the one that was loaded later, and a chat may hold
a runner that has been unloaded meanwhile (it then answers an error). This is the blocking
chat route; the streaming branch is in `StreamingRequest`.

### GenerationStream - `generation/worker.py`, `cancellation.py`; ChunkStream

The worker thread (`Begin`, `Produce`, `Finish`, `Break`, `Die`) and the generator
`__iter__` statement by statement: the loop condition, the tests before each wait, the
wait of one second, the `yield`, the drain after the loop, the tests of its body, and the
join. The `TextIteratorStreamer` is a library class, modelled from how the code uses it.
`ChunkStream` is what a caller may rely on, without threads, queue or token: it hands
out chunk after chunk and ends once, normally only when everything was handed out.

### StreamingRequest - the SSE branch of `/v1/chat/completions` in `api_server.py`, `_stream_text_impl` of `writing/runtime_bridge.py`

Extends `GpuScheduler` and `GenerationStream`: one task, `Streamer`, iterates a worker inside
its GPU block while the other tasks ask for the GPU. The two callers differ in where the
iterator runs. `event_stream` calls it on the event loop, so it can only be cancelled between
two chunks and drops the iterator before it leaves the block. The bridge runs each `next()` on
a pool thread; cancelled there, it leaves the block while the iterator is still inside its
call, and the token is set only when the iterator is closed (`stage = "abandoned"`).
Both properties of the parts are checked, and proved, of the whole.

### WritingGeneration - `writing/service.py`, `writing/runtime_bridge.py`, `model_gateway/local_provider.py`, `api/routers/writing.py`

One coroutine per generation, from one await or `yield` to the next. `status`, `shown`,
`stored` are the record's status, what the client got and what the record holds;
`scope` stands for gate and GPU; `tokens` for the bridge's dictionary, under the key that
the provider makes up (`KeyOf`). `Abandon` is the router finding the client gone,
`CloseDropped` the event loop closing a generator that nobody iterates any more. `Worker`
says which runners stream through `GenerationWorker`, whose `finally` cancels the token.

### FineTuneRuns - `finetune/service.py`, `job_runner.py`, `adapter_registration.py`, parts of `trainer.py`, `repository.py`

The columns of a run's row that steer it, each written where the code writes it
and never under a condition the code does not test. `Submit` puts a job in the queue,
`StartSave` writes `queued` after it: the job may have run by then. The thread goes
through preflight, the wait for the GPU, training with checkpoints, registration of the
adapter and the last progress update. `Exit`/`Restart` keep the rows as they are: nothing
sweeps them.

### TrainingRecipes - `datasets/recipe_recommender.py`, `datasets/service.py`, `finetune/preflight.py`

A recipe is recommended for a version and a GPU, edited, confirmed, archived; a run takes
what it will train from it at creation (`config_snapshot`, `method`, `total_steps`), and
the job makes a second preflight with the recipe as it is by then. A config is a function on
the keys the dict has, because which of two names for one key is present decides what is
trained. `answered` and `said` are history: what the creation answered and what the
recipe said then.

### DatasetVersions - `datasets/service.py`, `freeze_service.py`, `repository.py`, `manifest.py`, `splitter.py`, `dedupe.py`

Each transaction and each file is a step, `Break` ends a call between two. A content
stands for the text of a sample and for its hash, so the unique index, the duplicate
filter and the hashes of files are equalities. `ValSets` is the splitter: every shuffle
is an order of the groups, `Round` is Python's `round`, halves to even. Three history
variables count calls and remember a broken call and a status written by hand. A sample
has its chapter and project from the start; building it from a revision is left out.

### DatasetExports - `datasets/exporters.py`, `datasets/formats.py`, `export_dataset` of `datasets/service.py`

`WriteMetadata`, `WriteExport`, `InsertExport` with `BreakExport` between any two. A file is
the set of its lines and remembers the call that opened it (`by`); names may be given by
requests or made from the second.

### Downloads - `downloads/`, `models/scanner.py`, `models/repository.py`, `storage/cache_manager.py`

A job's thread checks the target (`RefuseExisting`), opens its staging directory
(`OpenTemp`), fetches files one by one, validates, renames, and registers, which is a scan of
the directories: read, write of the one temporary index file, replacement. `CreateDownload`,
`CancelDownload` with its `MergeRead` and `MergeSave`, `RetryDownload`, `RemoveModel` are calls of
the event loop; `PickOld` and
`RemovePicked` the cleanup on a pool thread, which looks at the age of a directory first and
removes it later; the process may end at any point, and the sweep of the job table follows.
A directory is the set of its files.

### Novels - `novels/`

The eight tables as one sequence of rows in the order of their insertion. A text is the
sequence of its words. `UpdateChapter`, `DeleteChapter` and the others are whole handlers;
those that write and answer 404 afterwards (a PATCH of a deleted row) are steps too.
`NextIndex` counts deleted rows, as the query does.

### Revisions, Memory (each extends the one before)

`Revisions` computes the diff and the hash as the service does, and prunes autosaves to the
newest `Retention` of a revision. The matcher is the library's `difflib`: `Matched` is any set
of pairs of equal positions that grows in both texts, and `DiffUpTo` walks it position by
position, as `_build_diff` walks the opcodes. `Side` is the text that the operations of one
side spell. `Memory` keeps, for each document, the content its index
was cut from. A document's row and its index are two commits (`upto`), and the end of the process
may fall between them. A build from the library writes document by document (`Upserted`), then
rebuilds the index document by document, and may be cut off between any two of these commits.
The rebuild asks for 10000 documents of a status and is given a page of `DocumentPage` (500 in
the code, memory/repository.py:222), the last written ones; which these are is left open
(`Rebuildable`). `mark_stale_for_source` is no action: nothing in the program calls it.
Generating a summary is two steps with the model between; the commits of
activating one are cut off by `upto`.

### MemoryRetrieval, ContextAssembly - pure functions

`found` and `assembled` hold one call: its input, chosen from `ChunkSets`, `Projects` and
`BudgetRequests`, and its answer. A chunk is an interval of numbered characters, a text its
length. Chunking with overlap, the score, the sort, `top_k`, the budget and the fallback are
those of the code, as are the selectors and the order in which material is shortened.

### Prompts - `prompts/`

The three tables. The text of a version is a member of `DOMAIN Schemas`, which says what
it uses, requires and defaults. `EnsureDefaults` is the installation of the built-in
templates as the sequence of its commits, and a call may be cut off after any of them;
`InstallRelease` starts the next release of the program, which ships other texts.
`CommitsUpTo` goes over the keys in the order of their list, as the loop does. `recent` is the
order of the last update, latest first: every write to a template puts it in front
(`Touched`), and `ListGlobal`, the page the installation reads, is a comprehension (`Lists`)
of it that keeps the live global templates.

### Evaluation - `evaluation/`

`start_run` as the sequence of its transactions, executed on the event loop, where only the
local judge gives way, or on the job thread, where anything may come between two. Calls:
create, start, cancel, archive, score, report. `crossed` and `lost` are history: others wrote
to the run during its last execution; the process ended in it.

### AdapterEvaluation - `adapter_evaluation/`, `writing/runtime_bridge.py`

A comparison is the coroutine of `run_case` or `run_session`: switch of the adapter on a pool
thread, wait for the scope, text, for the base and then for the adapter, and the two writes.
Each result carries, as history, the prompt it answers, the run it is of and the adapter that
was active.

### ModelProfiles - `model_gateway/`; Accounts - `admin.py`, `auth/`, the middleware and admin pages of `api_server.py`

`ModelProfiles`: the flag of the default and its moves, with `EnsureBuiltinProfiles` as a
sequence of commits. `Accounts`: every changing call writes all users to one file; the end of
the process may tear it. Before the setup the stored secret is empty, and a login with an empty
password matches it. `Dispatch` is the middleware: the path, the method and the last part
of a request give the permission, the role of the key's user decides.

### MCStudio

One behaviour is of one slice: `Limits[slice]` calls of one service in any order (with the
library changing under revisions, documents and summaries), and all steps of the threads and
coroutines these start. The services share no state but the library and, for the memory's summaries,
what the library's rows say, so a behaviour of two services is an interleaving of a
behaviour of each and shows no state that one of them does not reach alone. The slices that do
not read the library start without one.

---

## 4. The runs

`CHECK_DEADLOCK FALSE` stands in every configuration because every instance really
stops: the requests are answered, the bounds on retries, restarts and calls are used up.

| Run | Module | Instance | Shows |
|---|---|---|---|
| `job_live` | `JobQueue` | one job, three submissions, two threads, two processes, with fairness | `EndedRowIsAtRest`, `OneLiveRun`, `RunningRowHasRun`, `CancelReachesItsRun`, `PendingRowIsScheduled`, `EveryRunEnds`, `EveryCallReturns` |
| `gpu_leak` | `GpuScheduler` | three tasks, one permit | violation, see section 6 |
| `runtime_live` | `ModelRuntime` | three chats and an unload, two models, one slot, queue of two | `LoadedOnce`, `NoUnloadUnderGeneration`, `EveryRequestEnds` |
| `streaming` | `StreamingRequest` | a stream of either kind and another task, one permit, three chunks | `PermitsAccounted`, `GeneratesUnderPermit`, `EveryAskAnswered`, `Contract`, `ThreadEnds` |
| `writing_live` | `WritingGeneration` | two streams and a blocking call, one slot | `TextAndSlotsAccounted`, `EveryGenerationEnds` |
| `writing_broken`, `writing_cancel` | `WritingGeneration` | two streams | violations, see section 6 |
| `finetune_live` | `FineTuneRuns` | one run, three jobs, two processes | `RunRowsTell`, `SignalledRunStops`, `EveryJobEnds` |
| `datasets` | `DatasetVersions` | three samples of two chapters and one project, four contents, three calls | `VersionIsBacked`, `SplitSeparates`, `FrozenIsLatest`, `VersionsKept` |
| `studio` | `MCStudio` | fifteen slices, up to six calls each | `LibrarySound`, `RevisionSound`, `MemorySound`, `PromptSound`, `UserEditsKept`, `RetrievalSound`, `ContextSound`, `CompletedIsWhole`, `RunningIsExecuted`, `PairFromOneRun`, `OneDefault`, `ModelsAreWhole`, `ModelsAreKept`, `KeysOpenWhatWasAnswered`, `TrainsAsCreated`, `ExportIsItsFile` |
| `adapter_mixed`, `recipe_ignored` | `MCStudio` | the slice of comparisons, of recipes | violations, see section 6 |

### The bounds, and why they are enough

* `job_live`: what the queue could get wrong needs two submissions of one id, the
  tail of the first against the head of the second; the third and the restart
  let a leftover of the first pair meet a new one. Two threads let both runs be live
  if the guard failed, and let a task wait when both are taken by tails. The proofs
  remove the bounds for safety.
* `gpu_leak`: the owner, the cancelled waiter, and one that is refused.
* `runtime_live`: a reload needs load, unload, load of one model; the second model makes
  two requests compete for lock and GPU without sharing a runner. One slot and a queue
  of two give an admitted, a waiting and a refused chat.
* `streaming`: three chunks: one handed out, one in hand, one in the queue. One other task
  can own the permit, wait behind the stream or time out; more permits and tasks add
  nothing to a stream, and the theorems hold for any number of both.
* `writing_live`: a stream with the worker, one without, a blocking call; one slot makes
  the third wait or be refused; one chunk is enough to tell stored from shown, since
  each flush stores everything.
* `finetune_live`: three jobs: the first, one that is started or resumed while the
  first is live, and one after it; one saved checkpoint makes resuming possible.
* `datasets`: three calls: a freeze that breaks, a change or another freeze, a freeze.
  `MinEntries` is 10 in the code and 2 here, so that three samples can be split.
  Contents other than the empty one are interchangeable (symmetry).
* `studio`, by slice:
  * `library` (2 calls on two projects with a volume and a chapter each), `new_library`
    (3 calls on nothing): a wrong number needs a creation, a deletion or renumbering, and a
    creation; a wrong tree a move and a deletion.
  * `revisions`, `documents`, `summaries` (3): a row, a change of the library or of
    the row, and the call that trusts it; two summaries compete for one chapter. The page of
    500 documents is a page of 2 here, so that it overflows.
    One autosave is kept of up to three.
  * `prompts` (3): installation, an edit or a cut-off upgrade, the next release. The page of
    200 is a page of 2 here, so that it overflows.
  * `retrieval`, `context` (1): a call of a function; texts of up to three paragraphs around
    the chunk size, up to three of four kinds of chunks, budgets around the sizes.
  * `evaluation` (3): two executions of one run, one on each side, and a cancel, archive or
    score. One score value: the mean of scores of different runs is told apart by their number.
  * `comparison` (5): create, prepare, two runs by two callers, and a change between.
  * `profiles` (4), `accounts` (6), `recipes` (5): create, change, change back, and the
    call that reads; in `accounts` also the end and the start of the process.
  * `downloads` (3): two jobs of one name, or one job, its end and its retry, with a cleanup
    or an end of the process.
  * `exports` (no bound on steps but two exports and two seconds): the second uses the
    name of the first.

### The fairness, and why the code justifies it

| Module | Assumed | Because |
|---|---|---|
| `JobQueue` | the event loop finishes its call (`WF ApiStep`); a free thread takes a task, a thread goes on; a handler ends (`SF HandlerEnds`, since `update()` interrupts it any number of times) | no call of the queue blocks but `shutdown(wait=True)`, which waits for the threads; a handler is a download, a training, an evaluation: finite work |
| `ModelRuntime` | each request and each of its GPU steps goes on when it can | everything but the load lock has a timeout; the lock is released on every path, which is what `EveryRequestEnds` checks |
| `StreamingRequest` | pool threads run, the other tasks leave their blocks, a wait that is not served times out; the worker thread is scheduled; the streaming coroutine goes on or is closed; time passes; the model stops *after the token is set* | `semaphore.acquire` has a timeout; the blocks are loads, unloads and generations; the stopping criterion reads the token at every step, and nothing is assumed of a model left alone |
| `WritingGeneration` | coroutines are scheduled; the loop closes dropped generators | waits in the scope are bounded; the router polls for a client that is gone |
| `FineTuneRuns` | the event loop finishes its call; the thread takes a job and goes on | one thread, and a trainer with a number of steps |

Nothing is assumed of requests, cancels, crashes and restarts. `studio` checks safety only.

### What the properties are about

* **Job queue.** Retry and delete trust a status they read earlier, while `cancel()` and
  `update()` write back rows they read earlier. `EndedRowIsAtRest` is the fact that makes
  this safe: a terminal row belongs to a job without a live run. `OneLiveRun` follows.
  `RunningRowHasRun` says that no stale save outlives its run; it excepts the jobs cancelled by
  the download route, whose second save does (section 6).
  `CancelReachesItsRun` says that the registered Event is never one of an earlier run, and
  that a row that says cancelling has the Event of its live run set; the latter for a
  first submission only: a retry between `Finish` and `Pop` of the previous run loses its
  Event to that pop (queue.py:153).
* **Runtime.** `LoadedOnce` is the double-checked load, with an unload between the checks;
  `NoUnloadUnderGeneration` holds although a generation does not hold the lock, because
  loads, unloads and generations share the one GPU permit.
* **Streaming.** `PermitsAccounted` relates the semaphore to the owners over every early end
  of a request; `EveryAskAnswered` is the timeout racing the grant. `Contract` is about the
  moment where the iterator sees a dead thread with chunks, a stop signal or an error not
  yet looked at. `ThreadEnds` is the promise of the `finally` clause.
  `GeneratesUnderPermit` names the two ways in which a model goes on without a permit: it
  outlived the bounded join after it was told to stop, or the bridge's client left during a
  `next()`.
* **Writing.** `TextAndSlotsAccounted` goes over every early end of a generator: what was
  stored is what was shown, and the scope that is entered by hand has only readers and
  generators about to be closed.
* **Fine-tuning.** `RunRowsTell` must survive resumes while a job runs, late
  cancels and directories left by failed registrations; `SignalledRunStops` a status
  written back from before the cancel. `TrainsAsCreated`: what a job trains is what the
  creation of its run answered, although its preflight reads the recipe again.
* **Datasets.** `VersionIsBacked` is what the preflight of a training relies on, with
  directories left by broken freezes; `VersionsKept` is the immutability that
  `versioning.py` promises; `SplitSeparates` is the arithmetic of small group counts.
  `ExportIsItsFile` says when a row's hash stops being that of its file.
* **Downloads.** `ModelsAreWhole` against retries on leftovers and two jobs of one name;
  `ModelsAreKept` against a rename onto a directory that appeared after the check.
* **Evaluations.** `CompletedIsWhole` and `RunningIsExecuted` relate a run's row to its
  outputs and to who executes it, over two executions at once. `PairFromOneRun` relates the
  two results of a case, and the texts of a revision, over preparations and runs between.
* **Library and derived data.** `LibrarySound`: a tree, and chosen numbers that are unique.
  `RevisionSound`: texts, diff and hash agree; the newest drafts are kept. `MemorySound`: a
  build puts right what calls that were cut off, or do not index, left behind, wherever it is itself cut
  off for the texts, and for the index where the page holds the documents; one summary speaks
  for a chapter. `PromptSound`
  and `UserEditsKept`: installing converges, upgrades replace only the program's own texts,
  and a rendering reports what it left empty. `RetrievalSound` and `ContextSound` state what
  the functions are for instead of repeating them.
* **Profiles and accounts.** `OneDefault` over every commit of every call;
  `KeysOpenWhatWasAnswered` relates what a key opens to the last answered call, over torn files.

---

## 5. The proofs

`tlapm` checks every step below. The theorems hold for all values of the constants
that satisfy the named assumptions of the modules: the sets of tasks and samples are
finite (cardinalities are taken of them), executors and semaphores have at least one
thread or permit, each job has its executor, and the bounds are numbers. Of the studio:
there is a user `admin` (`AccountAssumption`), an evaluation has at least one evaluator
(`EvaluationAssumption`), an index a request gives is not null and the
limit of a page is a number (`NovelAssumption`), the retention is a number and texts are sequences (`RevisionAssumption`), a chunk has room for a
character (`RetrievalAssumption`), the selector of characters takes at least one and ids are
primary keys (`ContextAssumption`), every built-in key
ships a text in its first release and no text has the hash of no text
(`PromptAssumption`). The bounds on submissions, processes, calls and rows are constants
too, so the theorems hold for each.

Each proof is an inductive invariant (`IInv`, `EvalInv`, `PromptInv`, ...), one lemma for the
initial states, one for each action that is more than a line, and a last step by temporal
logic. Induction over numbers is done by hand: of the numbers for which a fact fails one would
be the least (`MinExists`, `AllNumbers`); recursive functions are shown to exist
first (`IterationExists`, `CommitsGoOn`), since a recursive definition is a `CHOOSE`.

### JobQueueProofs

`EndedRowIsAtRest` is not inductive: a retry acts on a status it read earlier, and
`update()` writes back a row it read earlier. `IInv` adds

* `QueueInv`: a queued task waits in the queue of its own executor, once;
* `AttemptInv`: runs are numbered by acceptance, and the one about to be enqueued is new;
* `LiveInv`: only the latest run of a job is live, and then its row is active;
* `ReadInv`: what was read and will still be used is not out of date in a harmful way: an
  `update()` under way read an active row, a terminal status read by a retry or a delete
  is still terminal, and a row that the merge read as ended has not been accepted again;
* `MergeInv`: only the cancel of the download route merges, and its job is in `merged`;
* `SavedInv`: what `cancel()` and the merge save over a row is not pending;
* `DownInv`: between two processes nothing is held.

`ReadInv` is the heart of it: a terminal row is only changed by a retry or delete, both on
the event loop, and by a stale cancel, which is on the event loop too and so cannot fall
between the read and the write of a retry.

`CancelReachesItsRun` and `PendingRowIsScheduled` need two more parts. `SignalInv` follows the
cancel of a first submission from the flag to the row: its Event is set before `cancel()`
or the merge after it writes its row back, and an `update()` that has read `cancelling` would have found it set.
`ScheduleInv`: a run that has started is pending neither in its row nor in what its
`update()` has read, so no stale write takes it back, and only a shutdown drops queues.

| Theorem | Says |
|---|---|
| `TypeCorrect` | `Spec => []TypeOK` |
| `EndedRowsRest` | `Spec => []EndedRowIsAtRest` |
| `SingleRun` | `Spec => []OneLiveRun`, from `LiveInv` |
| `RunningRowsRun` | `Spec => []RunningRowHasRun` |
| `CancelsReach` | `Spec => []CancelReachesItsRun` |
| `PendingRowsWait` | `Spec => []PendingRowIsScheduled` |

### GpuSchedulerProofs and ModelRuntimeProofs

The invariant of the scheduler is its types and two counts: owners and free permits add
up to the semaphore's size, and `queued` is the number of tasks between the two counting
sections. Both are cardinalities of sets that a step changes by one task; `MoveInv` does
this once for all steps. `DisabledIsIdle` says that a disabled scheduler counts nothing.

`ModelRuntime` extends the scheduler, so its proof starts with `SchedulerStep`: every step
of a request is a step of the scheduler or leaves it alone. From this
(`UsesScheduler == Spec => GpuSpec`) every theorem of the scheduler holds of the runtime.
What is left is local: `LockInv` (who is past the lock holds it), `PlaceInv` (what a request
may rely on where it stands: the permit, its runner), `LoadedInv` (a loaded model is the
registered runner, or about to be, by the holder of the lock), `GateInv` (the gate's
counters are sets of requests).

`GenerationKeepsModel` is the argument of the code's design: a generation does not hold
the load lock; unload and generate are both done inside the scheduler's block, and with
`max_heavy_tasks = 1` two tasks are never inside it (`HeavyTasksBounded`). With two
permits it would be false, and the theorem has `OneHeavyTask` as a hypothesis.

| Theorem | Says |
|---|---|
| `GpuTypes`, `EveryPermitHasAnOwner`, `QueueLengthIsExact` | the scheduler's three invariants |
| `HeavyTasksBounded` | at most `MaxHeavyTasks` tasks are in their block |
| `UsesScheduler` | `Spec => GpuSpec` |
| `RuntimePermits`, `RuntimeTypes`, `LoadsOnce`, `GateBounded` | the runtime's invariants |
| `GenerationKeepsModel` | `Spec => [](OneHeavyTask => NoUnloadUnderGeneration)` |

### DatasetVersionsProofs

A freeze writes into the directory whose number is one beyond the last version
(`FreshInv`), and what it has written so far is what it will put into the row
(`WrittenInv`), over whatever an earlier freeze left there. `VersionIsBacked` follows when
the row is inserted and is kept because no later freeze works on that number.
For the split, `UniqueInv` (the unique index) makes the duplicate filter the identity,
and `ValSetsSeparate` follows the loop of the splitter: the last group of the shuffled
list is never validated because the order is injective. `RowSplit` carries the fact from the
computation to the insertion of the row, across the steps that write files. `LatestInv` is
about `FrozenIsLatest`: a freeze carries what was approved when it began, and is approved
still, since every call that changes a sample also takes the dataset out of `frozen` and no
two calls overlap; the row it inserts is the newest version and stays it until the status
is written.

| Theorem | Says |
|---|---|
| `DatasetTypes` | `Spec => []TypeOK` |
| `VersionsAreBacked` | `Spec => []VersionIsBacked` |
| `VersionsAreImmutable` | `Spec => VersionsKept` |
| `SplitsSeparate` | `Spec => []SplitSeparates` |
| `FrozenShowsLatest` | `Spec => []FrozenIsLatest` |

### StreamingRequestProofs

The worker and its iterator first.
`QueueInv` says what is in the streamer's queue at any time: the chunks made but not
taken, in order, then the stop signal if the thread has ended it; `PlaceInv` what the
iterator knows at each statement (for instance that it leaves the loop only when the
thread has ended). `ContractKept` proves that `GenerationStream` implements
`ChunkStream` under the mapping `failed <- errors`: initial states map to
initial states, a thread step that stores an error or makes a chunk and the step that
hands one out map to steps of the contract, every other step to a stutter.

`StreamingRequest` extends the scheduler and the generation worker. `RequestGpuStep` and
`RequestStreamStep` say that every step of a request is a step of the scheduler or leaves its
variables alone, and the same of the worker, so the theorems of both hold of the request.
`PermitCoversGeneration` is what the composition adds: while the model generates, the
request has the permit, or it is in one of the two ways out that the code leaves open (the
thread outlived the bounded join; the client of the bridge left during a `next()`). Its
invariant relates the place of the coroutine to the stage of its permit.

| Theorem | Says |
|---|---|
| `StreamTypes`, `ChunksInOrder`, `NormalEndIsComplete`, `ErrorsSurface` | `TypeOK`, `InOrder`, `DoneIsComplete`, `ErrorSurfaces` |
| `ContractKept` | `Spec => Contract` |
| `RequestUsesScheduler` | `RequestSpec => GpuSpec` |
| `RequestPermits` | `RequestSpec => []PermitsAccounted` |
| `RequestStreams` | `RequestSpec => Contract`: the contract of section 3, for a stream that may be dropped at any point |
| `PermitCoversGeneration` | `RequestSpec => []GeneratesUnderPermit` |

### WritingProofs

*Generations.* What was shown is stored at each of the ends of `service.py` but one: an error of a cancelled
stream writes nothing. `RecordInv` shows that this end is only reached before the first
chunk: a record that is `cancelled` has a cancelled token, and with that the bridge takes an
error in the stream for its end, which stores. `ScopeInv` counts the generations in the scope
against `Slots` and says who they are.

*What a prompt is made of.* `MemoryRetrieval` and `ContextAssembly` are functions of a request; their
theorems hold for rows and requests of any number and length. Their recursions are functions over
the rounds of a loop, so what a loop computes is proved by induction on the number of rounds, with
the loop's invariant. Of `Lists`: sums of lists that agree up to a place agree there (`SumsAgree`), a
comprehension keeps the items of its positions in their order, and `sorted` returns each position
once and in the order of the keys: the n-th is the one that n - 1 go before, `Precedes` is a strict
linear order on the positions (ties go by position), so these numbers are 0 to the length less one,
each once.

*Retrieval.* `RetrievalCorrect`. Pieces of a long paragraph, and the chunks of a text after each of
its paragraphs, cover what is behind the loop without a gap and each ends later than the one
before it; a chunk is longer than a full one by no more than the tail it starts with. A chunk that the
selection passed over did not fit then, and what was selected only grew, so it does not fit in the
end either; the ranking is by a key whose first part is the score, so what is behind the first
`topK` has no better one.

*Contexts.* `ContextCorrect`. The material goes through six turns, of which each may give up one class.
`Stage` is their invariant: what has been cut was cut in a turn up to the n-th, of a prompt that was
over its budget as it was gathered, when everything of the turns before it was gone (`GoneOf`); and a prompt
that is still too long after n turns has nothing left of any of the n classes. `StageStep` takes it from one
turn to the next, because a turn leaves the texts and cuts of the other classes alone (`OthersKept`) and
does nothing to a prompt that fits; after the sixth it is `GivenUpInOrder`. The bisection keeps that the
best so far ends just below its interval and fits, and that what lies just above does not fit
(`TruncateIs`): nothing is assumed of which lengths fit. What is left of a class is the ranking without its
last, or its first, `k` items, and the recorded ids are theirs (`IdsLeft`).
`NothingOfLaterChapters` goes through the two sorts and the two selections of the events: each event
of the result is one of the eligible. The character a scene is told by has the least key of all, so the
sort puts it first and a limit of at least one keeps it.

| Theorem | Says |
|---|---|
| `WritingGivesBack` | `Spec => []TextAndSlotsAccounted` |
| `RetrievalCorrect` | `RetrievalSpec => []RetrievalSound` |
| `ContextCorrect` | `ContextSpec => []ContextSound` |

### FineTuneRunsProofs

`RunRowsTell` is about the row; what makes it inductive is what the thread and the event loop
have in hand. `ShapeInv`: a job waits once and is not the one at work. `WorkInv`: past its
beginning the thread's run is not startable, in its row or in what `on_checkpoint` read of it,
unless it was resumed; and what has been registered for it by each place. `OpenInv`: a run
that was not resumed and that `start_run` would take has no job, except the one that is
about to be saved as `queued` while its job may have begun.

| Theorem | Says |
|---|---|
| `RowsTellTheTruth` | `Spec => []RunRowsTell` |

### StudioProofs

The services of `studio`, for any numbers of rows and calls. What they share comes first: a
table is a sequence (`IsTable`), and appending to it, replacing a row and taking the least
of a set of numbers are lemmas of their own.

*Recipes and exports.* For recipes: rows are only appended or replaced in place, and no call changes the version of
a recipe, from which its configuration is resolved. `AsCreated` then says that a run has the
configuration, the method and the number of steps its creation answered, whatever
`update_recipe` did in between. For exports: the `by` of a file is never later than the calls
made so far, the export under way wrote the files of its own call (`UnderWay`), and a row
describes the file it names until a later call opens it (`RowKept`).

*Downloads.* A staging directory belongs to one job. `PartOf` says of it, by the place of the job: it
holds only files of the job's repository, it holds what was fetched, and between
validation and rename it is all of them. All of it as long as no cleanup took a
directory: the hypothesis of `ModelsAreWhole` and of the theorem.

*Accounts.* `AccountInv`: while the process is up the memory agrees with what was answered;
the file agrees with it for every user whose call was not cut off, or is torn, and then no
process starts from it.

*Comparisons.* `PairInv`: a coroutine that has the first text of a pair has it of its own turn
and prompt (`CallKept`), so the two it writes belong together; between its two writes the
case is marked.

*Evaluations.* `EvalInv`: as long as nobody got in its way, an execution is the only owner of
its run, the cases behind it are completed with one output each and those ahead of it have
none (`OwnerInv`, `InHand`). A score that a handler writes is that of
the outputs it read, because nobody owns the run between its reading and its writing. Outputs
are a function of their ids, so clearing those of a run is a restriction.

*Novels.* `NovelInv` is `LibrarySound` with the shape of the rows. `NextIndexAbove` says that
`NextIndex` is above every number of the rows it looks at (among finitely many rows one has the
greatest number), whence a chosen number is new; moves are what could break the tree.

*Memory.* An upsert writes the oldest document of its source or appends one (`UpsertIs`), so it
takes its own source in and leaves what the others tell (`UpsertTells`); by induction over the
payloads so does a build, wherever it is cut off (`UpsertedTells`), and a document that it
leaves archived was archived with that text before. A rebuild whose two pages hold all
active and all stale documents leaves none of the active ones unfound (`RebuildFinds`), for any
table, whence `SoundFinds` needs nothing of what the calls before did. The summaries are the
part that is inductive (`MemoryInv`), over every prefix of an activation.

*Profiles.* At most one row of a table is flagged, after each commit of each call
(`IsProfileTable`); the order of the last updates lists every row, so the search for the
default finds it if there is one. Ensuring the built-in profiles is followed through its
commits (`EnsuredAll`).

*Revisions.* `BuildDiffSides` says of any two texts, and any matching of their equal positions
that grows in both, that the two sides of the computed operations are the two texts: the walk
keeps, up to where it is, the sides equal to the parts of the texts walked (`StandsAt`,
`Walked`). The rows then store what was computed of their own texts (`RowsInv`), the chapters
stay in their projects because the library never moves a chapter to another one, and a
draft is kept exactly as long as fewer than `Retention` later ones of its revision exist
(`DraftsInv`).

*Prompts.* `Tables` says that every active version is a row, and that a template that calls
itself built in carries the hash of a text that some release up to the running one shipped, or
none. `EnsureKeeps` goes through the commits of an installation: an upgrade compares this hash
with the text in use, so what it replaces was shipped (`UpgradeKeeps`); the state it compares
with is that after the commits before it, not the one at the start, hence `ProgramKept`
relates each commit to the start. `RecordReports` is about the renderer alone: every variable of
the prompt is shown, hollow, or reported.

That the installation converges (`EnsureIdempotent`) is about an order. `Leads(s, M, x)` says
that `x` is the first entry of the list `s` that is in `M`; a comprehension keeps who leads
among what it keeps (`ThoseLead`), and a list whose `t` went to the front differs for
`t` alone (`MovedFirst`, `TouchedList`). A key is `Settled` when the template that leads among those
that carry it needs no upgrade. The commits for a key renew one template and put it in front
(`RenewedKey`), which settles this key and leaves the others as they were (`RenewedKeeps`).
`Reaches` is the invariant of the loop: the keys gone through are settled, and for each other
key the list read at the start still tells who leads now. For the latter the list has to be whole,
which it is where the global templates fit in the page (`ListedIs`, from `Tables`: no
template is in the order twice). So the first installation settles all keys (`EnsureSettles`), and where
all are settled an installation commits nothing (`SettledStays`), whatever users and broken-off
calls made of the tables before.

| Theorem | Says |
|---|---|
| `RunsTrainAsCreated` | `RecipeSpec => []TrainsAsCreated` |
| `ExportRowsTell` | `ExportSpec => []ExportIsItsFile` |
| `InstalledModelsWhole` | `DownloadSpec => []ModelsAreWhole` |
| `InstalledModelsKept` | `DownloadSpec => ModelsAreKept` |
| `KeysAsAnswered` | `AccountSpec => []KeysOpenWhatWasAnswered` |
| `PairsMatch` | `ComparisonSpec => []PairFromOneRun` |
| `RunningHasExecution` | `EvaluationSpec => []RunningIsExecuted` |
| `CompletedRunsWhole` | `EvaluationSpec => []CompletedIsWhole` |
| `LibraryStaysSound` | `NovelSpec => []LibrarySound` |
| `MemoryStaysSound` | `MemorySpec => []MemorySound` |
| `OneDefaultProfile` | `ProfileSpec => []OneDefault` |
| `RevisionsStaySound` | `RevisionSpec => []RevisionSound` |
| `UserTextsStay` | `PromptSpec => UserEditsKept` |
| `RenderingsReport` | `PromptSpec => []EmptyIsReported` |
| `PromptsConverge` | `PromptSpec => []PromptSound` |

### What is only model-checked

* Liveness and `ENABLED` are out of the prover's reach: `EveryRunEnds`, `EveryCallReturns`,
  `EveryAskAnswered`, `EveryRequestEnds`, `ThreadEnds`, `EveryGenerationEnds`,
  `SignalledRunStops`, `EveryJobEnds`.

Every invariant and every safety action property the passing runs check is stated by a theorem.

---

## 6. Disagreements

Five runs end in a counterexample. Each checks what a message, a test, a docstring or a
document of the repository says.

* `gpu_leak`, `RefusalMeansBusy`: `acquire()` awaits `asyncio.to_thread(_acquire_sync)`
  before its `try` (runtime/gpu_scheduler.py:79). If the coroutine is cancelled there,
  the pool thread takes the permit and nobody returns it. Later tasks are refused with
  "GPU 正在执行其他任务" (line 105) although no task runs.
* `writing_broken`, `BrokenStreamFails`: `GenerationWorker` sets the token in its `finally`
  (generation/worker.py:71), and the bridge takes every error with the token set for a
  cancel (writing/runtime_bridge.py:228). A stream that breaks is stored as succeeded,
  where `tests/test_writing_stream.py:74` expects `failed` (with a fake that bypasses the
  worker).
* `writing_cancel`, `CancelReachesToken`: the provider makes up a `gateway-...` id
  (model_gateway/local_provider.py:87) and the bridge registers the token under it; a cancel
  looks under the record's id. `docs/MODEL_GATEWAY_AUDIT.md:203-204` describes the path as
  working.
* `adapter_mixed`, `VariantIsItsAdapter`: the bridge switches the adapter of the shared runner
  before it enters the inference scope (writing/runtime_bridge.py:180), where it may have to
  wait; a second comparison switches it back meanwhile. The text stored as that of the base
  model is then the adapter's, or the other way round.
  `docs/NOVEL_STAGE9_ADAPTER_EVALUATION.md:7` and `adapter_evaluation/comparison_runner.py:19`
  promise a comparison of the two.
* `recipe_ignored`, `RecipeIsTrained`: the preflight fills in the recipe's epochs and rank only
  where `num_epochs` and `lora_r` are missing (finetune/preflight.py:233), and the server's
  configuration always has them. `docs/NOVEL_STUDIO_ROADMAP.md:27` asks that trainings start
  from a confirmed recipe.

The models also reach the following, which no run reports as a violation: nothing in
the repository denies them outright, or the property is stated so that it holds
all the same.

* Jobs. `cancel()` saves the row it read: a job that ended meanwhile goes back to
  `cancelling` and stays there until the next start (jobs/queue.py:92).
  Pending rows of a dead process are not swept (jobs/repository.py:110). A retry
  between the end of a run and its `_cancel_flags.pop` loses its Event (queue.py:153), so a
  cancel of that run does not reach it. The cancel route of the downloads reads and saves the row
  a second time (downloads/manager.py:98): if a worker's progress had put `running` back over
  `cancelling` and the worker ends between this read and its save, the row of the ended job says
  `running`, or `cancelling`, until the next start, and can be neither retried nor
  deleted. `tests/test_download_progress.py:209` expects `cancelled`; its worker is held back until
  the cancel has returned. A `shutdown` that meets such a pop ends with a
  `RuntimeError` from the loop over the flags (queue.py:99).
* Runtime. A chat looks up its runner before it waits in the gate and for the GPU; if the
  model is unloaded meanwhile, it uses a runner without a model and answers an error
  (api_server.py:1052).
* Streams. A quiet stream may end with `queue.Empty` instead of the timeout's own error
  (generation/worker.py:58). When its client goes away, the bridge returns the permit although
  a `next()` may still run on the pool thread; the token is set only when the iterator is
  closed.
* Writing. A generation that waited may run with the adapter of another
  (writing/runtime_bridge.py:180). A client that goes away leaves the record in `streaming`
  (api/routers/writing.py:64). Saving a generation to a chapter replaces the draft of now by
  one built from that of the start (writing/service.py:328).
* Fine-tuning. `start_run` saves `queued` after the job was submitted and may overwrite what
  the job wrote (finetune/service.py:200). `resume_run` does not look at the status (237).
  The last progress update can raise the cancellation after the run was completed: a
  cancelled run with an adapter (finetune/job_runner.py:131). `on_checkpoint` may write back a
  status from before a cancel (244). A failed registration leaves its directory and makes every
  later one fail (adapter_registration.py:74). A run that was interrupted before its first
  checkpoint can neither be started, cancelled nor resumed (service.py:188).
* Recipes. A confirmed recipe can be edited, an archived one confirmed again; a PATCH can
  confirm, or put `lora` on an offer made for `qlora`. The check of an adapter's name compares
  it with directory names that have a prefix and the run's id, so two runs may have one name.
* Datasets. A crash between the write of a sample and `mark_dataset_changed` leaves a frozen
  dataset that differs from its version, and a PATCH may write `frozen` by hand;
  `FrozenIsLatest` excepts both. A `val.jsonl` of a broken freeze stays in the
  directory of a version that validates nothing; its manifest does not name it. An export that
  uses a name again, or without a name in the same second, overwrites the file of an earlier
  row; `metadata.json` is overwritten by every export.
* Downloads. The cleanup looks at the age of a staging directory before it removes it
  (storage/cache_manager.py:120); a retry that uses it again meanwhile may install a model
  without some of its files. `docs/DOWNLOADS.md:18` speaks of a new task for a retry; the code resubmits the
  same id (downloads/manager.py:146). A registration that fails after the rename leaves the
  final directory, and every retry fails on it (219, 161). The event loop and a worker share
  one temporary name for the index. A repository with GGUF files only is installed and never
  `ready`. A pending row of a dead process keeps its repository from being downloaded.
* Memory. Creating or patching a document commits the row before the index
  (memory/service.py:163, 199): a process that ends between leaves an active document that is
  not found by its words. A rebuild of a project asks for 10000 documents of a status and is given
  500 (memory/indexing.py:39, memory/repository.py:222); those beyond are not rebuilt, and no
  answer says so. A document patched to `deleted` keeps its chunks. One whose
  title was changed is not recognised by the next build, which creates a second one.
* Contexts. Cutting the previous summary also blanks a `previous_chapter_title` the user gave,
  and compacting overwrites `main_characters` the user gave.
* Prompts. The installation looks at one page of 200 templates, so it installs what it does not
  see there a second time (prompts/defaults.py:10 calls it idempotent). An installation that was
  cut off before the first version leaves a template that is later taken for the user's.
* Evaluations. A completed run that is started again in a process that ends after the outputs were
  cleared stays `completed` without them.
* Comparisons. `run_session` also runs the cases of archived sessions, and may put such a session
  back to `reviewing`; an empty prompt leaves its case `running`; scores stay after another run;
  nothing is recovered after a restart.
* Profiles. `docs/MODEL_PROFILES.md` (section 6) says that only an enabled profile can be the
  default; creating and patching accept a disabled one. Archived built-ins are installed again.
* Accounts. Before the setup a login with an empty password is accepted
  (admin.py:210), so the admin's calls are reachable.
  A torn users file stops the next start (`load()`); an end of the process in a
  regeneration loses the key.

---

## 7. What is not modelled

* **RAG** (ingest, query and clear of the vector store): wraps a vector database and a document
  loader.
* **Chat history, prompt and length text functions**: text in, text out.
* **Vision and document loading**: wrappers of libraries; their routes use the same gate and scheduler
  as the blocking chat.
* **Adapters**: the table, the scan and the merge. Activating one on the shared runner is part of
  `AdapterEvaluation`.
* **Diagnostics, health, capabilities, benchmarks, configuration**: reports, look-ups, parsing.
* **Flutter client, scripts, packaging**: the client's state is a view of the server's.

Left out of parts that are modelled: continuations of texts that came out short, and the
listings, of writing; memory estimates, logs and metrics of fine-tuning; the building of a sample
from a revision; the time and memory estimates of a recipe; the contents of the trash and the
compatibility report of the model repository; the other cleanups of `storage/`; descriptive columns
of all tables; the stored records of assembled contexts; the routing of the gateway; the hashing
of keys, the audit log and rate limits. Text, token counts, progress and messages appear only
where a property needs them.
