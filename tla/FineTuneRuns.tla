---------------------------- MODULE FineTuneRuns -----------------------------
(***************************************************************************)
(* The fine-tune center: finetune/service.py (create, start, cancel and    *)
(* resume a run, on the event loop) and finetune/job_runner.py (the run's  *)
(* job, on the one thread of the FINETUNE executor).                       *)
(*                                                                         *)
(* Both write the row of the run in finetune_runs, column by column and    *)
(* without a condition: update_run sets the columns it is given, whatever  *)
(* they hold.  One write is one action.  A test of the job's Event and the *)
(* write after it are one action: a cancel between them comes to the same  *)
(* as one after them.  Of the job queue (JobQueue) the FIFO order, the one *)
(* thread and the Event of each job are kept; a job is named by its number *)
(* in the order of submission.                                             *)
(***************************************************************************)
EXTENDS Naturals, Sequences, FiniteSets

CONSTANTS
    Runs,        \* run ids
    MaxJobs,     \* bound: jobs submitted in all
    MaxSaves,    \* bound: checkpoints a trainer saves in one job
    MaxBoots     \* bound: processes started one after the other

ASSUME FineTuneAssumption ==
    /\ Runs # {}
    /\ MaxJobs \in Nat \ {0} /\ MaxSaves \in Nat /\ MaxBoots \in Nat \ {0}

Jobs == 1..MaxJobs

Startable == {"created", "paused", "failed", "cancelled"}
Working == {"preflight", "running", "saving_checkpoint"}
Status == Startable \cup Working \cup {"none", "queued", "completed"}

VARIABLES
    boots,       \* processes started so far
    up,          \* a process exists
    status,      \* column status, "none" without a row
    requested,   \* column cancel_requested
    jobId,       \* column job_id, 0 for NULL
    resumeFrom,  \* column resume_from_checkpoint_id is set
    last,        \* column last_checkpoint_id is set
    adapter,     \* column adapter_id is set
    target,      \* the run's directory in the adapter repository exists
    owner,       \* the runs of the jobs submitted so far, in their order
    events,      \* jobs whose cancel Event is set
    queue,       \* jobs waiting in the executor
    worker,      \* the executor's thread
    api          \* the event loop's current call

rowVars == <<status, requested, jobId, resumeFrom, last, adapter>>
vars == <<boots, up, rowVars, target, owner, events, queue, worker, api>>

Idle == [call |-> "idle", run |-> CHOOSE r \in Runs : TRUE, job |-> 0]
Resting == [pc |-> "resting", job |-> 0, seen |-> "none", saves |-> 0, next |-> "train"]

Init ==
    /\ boots = 1 /\ up = TRUE
    /\ status = [r \in Runs |-> "none"]
    /\ requested = [r \in Runs |-> FALSE]
    /\ jobId = [r \in Runs |-> 0]
    /\ resumeFrom = [r \in Runs |-> FALSE]
    /\ last = [r \in Runs |-> FALSE]
    /\ adapter = [r \in Runs |-> FALSE]
    /\ target = [r \in Runs |-> FALSE]
    /\ owner = <<>> /\ events = {} /\ queue = <<>>
    /\ worker = Resting
    /\ api = Idle

SetStatus(r, s) == status' = [status EXCEPT ![r] = s]
Call(c, r, j) == api' = [call |-> c, run |-> r, job |-> j]

-----------------------------------------------------------------------------
(* The event loop.                                                         *)

\* create_run, after its preflight; with start_immediately it goes on to
\* start_run.
Create(r) ==
    /\ up /\ api = Idle
    /\ status[r] = "none"
    /\ SetStatus(r, "created")
    /\ Call("start", r, 0) \/ UNCHANGED api
    /\ UNCHANGED <<boots, up, requested, jobId, resumeFrom, last, adapter, target, owner, events, queue, worker>>

Start(r) ==
    /\ up /\ api = Idle
    /\ status[r] # "none"
    /\ Call("start", r, 0)
    /\ UNCHANGED <<boots, up, rowVars, target, owner, events, queue, worker>>

\* (Mutant) A run that is queued may be started too.
MutMayStart(s) == s \in Startable \cup {"queued"}

MayStart(s) == s \in Startable

\* start_run reads the row and submits a job, or answers what it read.
Submit ==
    /\ up /\ api.call = "start"
    /\ IF MayStart(status[api.run]) /\ Len(owner) < MaxJobs
       THEN /\ owner' = Append(owner, api.run)
            /\ queue' = Append(queue, Len(owner'))
            /\ Call("save", api.run, Len(owner'))
       ELSE api' = Idle /\ UNCHANGED <<owner, queue>>
    /\ UNCHANGED <<boots, up, rowVars, target, events, worker>>

\* The job may already be running, or over, when its run is saved as queued.
StartSave ==
    /\ up /\ api.call = "save"
    /\ SetStatus(api.run, "queued")
    /\ jobId' = [jobId EXCEPT ![api.run] = api.job]
    /\ requested' = [requested EXCEPT ![api.run] = FALSE]
    /\ api' = Idle
    /\ UNCHANGED <<boots, up, resumeFrom, last, adapter, target, owner, events, queue, worker>>

\* resume_run looks at the checkpoints only, not at the status.
Resume(r) ==
    /\ up /\ api = Idle
    /\ status[r] # "none" /\ last[r]
    /\ SetStatus(r, "created")
    /\ requested' = [requested EXCEPT ![r] = FALSE]
    /\ resumeFrom' = [resumeFrom EXCEPT ![r] = TRUE]
    /\ Call("start", r, 0)
    /\ UNCHANGED <<boots, up, jobId, last, adapter, target, owner, events, queue, worker>>

\* cancel_run: the column first, then the Event of the job in the row.
Cancel(r) ==
    /\ up /\ api = Idle
    /\ status[r] # "none"
    /\ requested' = [requested EXCEPT ![r] = TRUE]
    /\ Call("signal", r, jobId[r])
    /\ UNCHANGED <<boots, up, status, jobId, resumeFrom, last, adapter, target, owner, events, queue, worker>>

\* A job that waits or runs; the queue refuses to cancel any other.
Live(j) == worker.job = j \/ \E i \in 1..Len(queue) : queue[i] = j

Signal ==
    /\ up /\ api.call = "signal"
    /\ events' = IF api.job # 0 /\ Live(api.job) THEN events \cup {api.job} ELSE events
    /\ api' = Idle
    /\ UNCHANGED <<boots, up, rowVars, target, owner, queue, worker>>

-----------------------------------------------------------------------------
(* The executor's thread: FineTuneJobRunner.handle.                        *)

This == owner[worker.job]
Cancelled == worker.job \in events
Goto(pc) == worker' = [worker EXCEPT !.pc = pc]
Reach(pc) == up /\ worker.pc = pc

Take ==
    /\ Reach("resting") /\ queue # <<>>
    /\ worker' = [Resting EXCEPT !.pc = "begin", !.job = Head(queue)]
    /\ queue' = Tail(queue)
    /\ UNCHANGED <<boots, up, rowVars, target, owner, events, api>>

\* except JobCancelledError.
Stop ==
    /\ SetStatus(This, "cancelled")
    /\ requested' = [requested EXCEPT ![This] = TRUE]
    /\ worker' = Resting
    /\ UNCHANGED <<jobId, resumeFrom, last, adapter, target>>

\* except Exception.
Fail ==
    /\ SetStatus(This, "failed")
    /\ worker' = Resting
    /\ UNCHANGED <<requested, jobId, resumeFrom, last, adapter>>

Begin ==
    /\ Reach("begin")
    /\ IF Cancelled
       THEN Stop
       ELSE /\ SetStatus(This, "preflight")
            /\ requested' = [requested EXCEPT ![This] = FALSE]
            /\ Goto("preflight")
            /\ UNCHANGED <<jobId, resumeFrom, last, adapter, target>>
    /\ UNCHANGED <<boots, up, owner, events, queue, api>>

\* (Mutant) A wait for the GPU that times out is begun again.
MutPrepare ==
    /\ \/ Reach("preflight") /\ Goto("gpu")
       \/ Reach("gpu") /\ (Goto("granted") \/ Goto("preflight"))
    /\ UNCHANGED <<boots, up, rowVars, target, owner, events, queue, api>>

\* Preflight passes or raises; so does the wait for the GPU.
Prepare ==
    /\ \/ Reach("preflight") /\ Goto("gpu") /\ UNCHANGED <<rowVars, target>>
       \/ Reach("gpu") /\ Goto("granted") /\ UNCHANGED <<rowVars, target>>
       \/ (Reach("preflight") \/ Reach("gpu")) /\ Fail /\ UNCHANGED target
    /\ UNCHANGED <<boots, up, owner, events, queue, api>>

Run ==
    /\ Reach("granted")
    /\ IF Cancelled
       THEN Stop
       ELSE SetStatus(This, "running") /\ Goto("train")
            /\ UNCHANGED <<requested, jobId, resumeFrom, last, adapter, target>>
    /\ UNCHANGED <<boots, up, owner, events, queue, api>>

\* The trainer returns, raises, or meets the Event at one of its steps.
Train ==
    /\ Reach("train")
    /\ \/ Goto("trained") /\ UNCHANGED <<rowVars, target>>
       \/ Fail /\ UNCHANGED target
       \/ Cancelled /\ Stop
    /\ UNCHANGED <<boots, up, owner, events, queue, api>>

\* Back from the trainer: a run without a checkpoint gets its last one now.
Trained ==
    /\ Reach("trained")
    /\ IF Cancelled
       THEN Stop
       ELSE /\ IF last[This]
               THEN Goto("register")
               ELSE worker' = [worker EXCEPT !.pc = "saving", !.seen = status[This], !.next = "register"]
            /\ UNCHANGED <<rowVars, target>>
    /\ UNCHANGED <<boots, up, owner, events, queue, api>>

\* on_checkpoint: the row is read ...
CheckpointRead ==
    /\ Reach("train") /\ worker.saves < MaxSaves
    /\ worker' = [worker EXCEPT !.pc = "saving", !.seen = status[This], !.saves = @ + 1, !.next = "train"]
    /\ UNCHANGED <<boots, up, rowVars, target, owner, events, queue, api>>

\* ... the files are copied and the status that was read is written back, as
\* saving_checkpoint if it was running ...
CheckpointSave ==
    /\ Reach("saving")
    /\ SetStatus(This, IF worker.seen = "running" THEN "saving_checkpoint" ELSE worker.seen)
    /\ last' = [last EXCEPT ![This] = TRUE]
    /\ Goto("saved")
    /\ UNCHANGED <<boots, up, requested, jobId, resumeFrom, adapter, target, owner, events, queue, api>>

\* ... and then as running again.
CheckpointDone ==
    /\ Reach("saved")
    /\ IF worker.seen = "running" THEN SetStatus(This, "running") ELSE UNCHANGED status
    /\ worker' = [worker EXCEPT !.pc = worker.next]
    /\ UNCHANGED <<boots, up, requested, jobId, resumeFrom, last, adapter, target, owner, events, queue, api>>

\* The adapter is copied and scanned.  A directory that exists is refused; a
\* copy or a scan that fails leaves one behind.
Register ==
    /\ Reach("register")
    /\ IF Cancelled
       THEN Stop
       ELSE \/ ~target[This] /\ Goto("complete") /\ target' = [target EXCEPT ![This] = TRUE] /\ UNCHANGED rowVars
            \/ ~target[This] /\ Fail /\ target' = [target EXCEPT ![This] = TRUE]
            \/ Fail /\ UNCHANGED target
    /\ UNCHANGED <<boots, up, owner, events, queue, api>>

Complete ==
    /\ Reach("complete")
    /\ SetStatus(This, "completed")
    /\ adapter' = [adapter EXCEPT ![This] = TRUE]
    /\ Goto("last")
    /\ UNCHANGED <<boots, up, requested, jobId, resumeFrom, last, target, owner, events, queue, api>>

\* (Mutant) The last update does not look at the Event.
MutLastUpdate ==
    /\ Reach("last")
    /\ worker' = Resting
    /\ UNCHANGED <<boots, up, rowVars, target, owner, events, queue, api>>

\* update(1.0): a cancel that came late still makes the run cancelled, with
\* its adapter registered.
LastUpdate ==
    /\ Reach("last")
    /\ IF Cancelled THEN Stop ELSE worker' = Resting /\ UNCHANGED <<rowVars, target>>
    /\ UNCHANGED <<boots, up, owner, events, queue, api>>

Work == Begin \/ Prepare \/ Run \/ Train \/ Trained \/ CheckpointRead \/ CheckpointSave
        \/ CheckpointDone \/ Register \/ Complete \/ LastUpdate

-----------------------------------------------------------------------------
(* The process.  Nothing brings the rows of a lost run up to date.         *)

Exit ==
    /\ up
    /\ up' = FALSE
    /\ events' = {} /\ queue' = <<>> /\ worker' = Resting /\ api' = Idle
    /\ UNCHANGED <<boots, rowVars, target, owner>>

Restart ==
    /\ ~up /\ boots < MaxBoots
    /\ up' = TRUE /\ boots' = boots + 1
    /\ UNCHANGED <<rowVars, target, owner, events, queue, worker, api>>

ApiStep == Submit \/ StartSave \/ Signal

Next ==
    \/ \E r \in Runs : Create(r) \/ Start(r) \/ Resume(r) \/ Cancel(r)
    \/ ApiStep \/ Take \/ Work \/ Exit \/ Restart

Spec == Init /\ [][Next]_vars

\* The event loop finishes its call; the thread runs; preflight, the wait for
\* the GPU and the trainer come to an end.
Fairness == WF_vars(ApiStep) /\ WF_vars(Take) /\ WF_vars(Work)

LiveSpec == Spec /\ Fairness
-----------------------------------------------------------------------------
\* Every variable keeps its type.
TypeOK ==
    /\ boots \in 1..MaxBoots /\ up \in BOOLEAN
    /\ status \in [Runs -> Status]
    /\ requested \in [Runs -> BOOLEAN]
    /\ jobId \in [Runs -> 0..MaxJobs]
    /\ resumeFrom \in [Runs -> BOOLEAN]
    /\ last \in [Runs -> BOOLEAN]
    /\ adapter \in [Runs -> BOOLEAN]
    /\ target \in [Runs -> BOOLEAN]
    /\ owner \in Seq(Runs) /\ Len(owner) <= MaxJobs
    /\ events \in SUBSET Jobs
    /\ queue \in Seq(Jobs)
    /\ worker.pc \in {"resting", "begin", "preflight", "gpu", "granted", "train", "trained",
                      "saving", "saved", "register", "complete", "last"}
    /\ worker.job \in 0..MaxJobs /\ worker.seen \in Status
    /\ worker.saves \in 0..MaxSaves /\ worker.next \in {"train", "register"}
    /\ api.call \in {"idle", "start", "save", "signal"} /\ api.run \in Runs /\ api.job \in 0..MaxJobs

\* In the first process a run whose row says that it works has a thread that
\* works on it: no stale status that on_checkpoint writes back, and no way out of
\* handle(), leaves such a row behind.
WorkingRunHasThread ==
    up /\ boots = 1 => \A r \in Runs : status[r] \in Working => worker.job # 0 /\ This = r

\* A completed run has its adapter registered, for good: also when it was
\* resumed while it ran, or cancelled in its last moment and started again.
CompletedHasAdapter ==
    \A r \in Runs : status[r] = "completed" => adapter[r] /\ target[r] /\ last[r]

\* Until a run is resumed it has at most one job that waits or runs: the check
\* of the status in start_run is enough, although the row says queued only after
\* the job may have run, and failed, on its thread.
OneJobUnlessResumed ==
    \A r \in Runs : ~resumeFrom[r] =>
        \A i, j \in 1..Len(owner) : Live(i) /\ Live(j) /\ owner[i] = r /\ owner[j] = r => i = j

\* A cancel that reached the Event of a job, at any point up to the last update,
\* ends its run as cancelled, or failed; it is never only noted.
SignalledRunStops ==
    \A r \in Runs : worker.job # 0 /\ Cancelled /\ This = r ~>
        ~up \/ status[r] \in {"cancelled", "failed"}

\* A job that was submitted ends, if its process does not end before.
EveryJobEnds == \A j \in Jobs : Live(j) ~> ~Live(j)

\* The row of a run tells the truth to whoever starts, cancels or resumes it by
\* that row: working means a thread works on it, completed that its adapter is
\* registered, and a run that may be started has no second job.
RunRowsTell == TypeOK /\ WorkingRunHasThread /\ CompletedHasAdapter /\ OneJobUnlessResumed
=============================================================================
