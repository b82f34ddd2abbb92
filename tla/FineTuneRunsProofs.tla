-------------------------- MODULE FineTuneRunsProofs --------------------------
(***************************************************************************)
(* Proofs about FineTuneRuns, for any runs and any number of jobs,         *)
(* checkpoints and processes: the row of a run tells the truth to whoever  *)
(* starts, cancels or resumes it by that row.                              *)
(*                                                                         *)
(* The argument: past Begin the worker's run is never startable unless it  *)
(* was resumed, neither in its row nor in what on_checkpoint read of it;   *)
(* so a run that start_run would take has no job, although StartSave may   *)
(* write its row long after the job began.                                 *)
(***************************************************************************)
EXTENDS FineTuneRuns, TLAPS

WorkerPCs == {"resting", "begin", "preflight", "gpu", "granted", "train", "trained",
              "saving", "saved", "register", "complete", "last"}

\* The statuses from which a run can get a job.
Open == Startable \cup {"none"}

\* The worker and the event loop's call stay in their shape; a job that waits
\* waits once and is not the one at work; after a process nothing is left.
ShapeInv ==
    /\ worker \in [pc : WorkerPCs, job : 0..MaxJobs, seen : Status, saves : 0..MaxSaves, next : {"train", "register"}]
    /\ api \in [call : {"idle", "start", "save", "signal"}, run : Runs, job : 0..MaxJobs]
    /\ worker.job = 0 <=> worker.pc = "resting"
    /\ worker.job <= Len(owner)
    /\ \A i \in 1..Len(queue) : queue[i] <= Len(owner) /\ queue[i] # worker.job
    /\ \A i, k \in 1..Len(queue) : queue[i] = queue[k] => i = k
    /\ ~up => worker = Resting /\ queue = <<>> /\ api = Idle

\* What the worker has done for its run, and what it has read of it.
WorkInv ==
    worker.pc # "resting" =>
      /\ worker.pc # "begin" /\ ~resumeFrom[This] => status[This] \notin Open
      /\ worker.pc \in {"saving", "saved"} =>
           /\ ~resumeFrom[This] => worker.seen \notin Open
           /\ worker.seen = "completed" => adapter[This] /\ target[This] /\ last[This]
      /\ worker.pc \in {"saved", "register", "complete"} => last[This]
      /\ worker.pc = "complete" => target[This]
      /\ worker.pc = "last" => status[This] \notin Working

\* A run that was not resumed and that start_run would take has no job, but for
\* the one whose run is about to be saved as queued.
OpenInv ==
    \A r \in Runs :
        ~resumeFrom[r] /\ status[r] \in Open /\ ~(api.call = "save" /\ api.run = r) =>
            \A j \in 1..Len(owner) : Live(j) => owner[j] # r

IInv == RunRowsTell /\ ShapeInv /\ WorkInv /\ OpenInv

-----------------------------------------------------------------------------
(* Types and shapes.                                                       *)

LEMMA IdleFacts ==
    /\ Idle \in [call : {"idle", "start", "save", "signal"}, run : Runs, job : 0..MaxJobs]
    /\ Idle.call = "idle"
    /\ Resting \in [pc : WorkerPCs, job : 0..MaxJobs, seen : Status, saves : 0..MaxSaves, next : {"train", "register"}]
    /\ Resting.pc = "resting" /\ Resting.job = 0
<1>1. (CHOOSE r \in Runs : TRUE) \in Runs
  BY FineTuneAssumption
<1>2. 0 \in 0..MaxJobs /\ 0 \in 0..MaxSaves
  BY FineTuneAssumption
<1> QED
  BY <1>1, <1>2 DEF Idle, Resting, WorkerPCs, Status

\* The run of the job at work.
LEMMA ThisType ==
    ASSUME TypeOK, ShapeInv, worker.pc # "resting"
    PROVE  worker.job \in 1..Len(owner) /\ worker.job # 0 /\ This \in Runs
<1>1. worker.job \in 0..MaxJobs /\ worker.job # 0 /\ worker.job <= Len(owner) /\ Len(owner) \in Nat
  BY DEF TypeOK, ShapeInv
<1>2. worker.job \in 1..Len(owner)
  BY <1>1, FineTuneAssumption
<1>3. owner \in Seq(Runs)
  BY DEF TypeOK
<1> QED
  BY <1>1, <1>2, <1>3 DEF This

\* Every step of the runner writes the row of its own run only, keeps what is
\* registered of any, and ends the job or goes on with it.
WorkStep ==
    /\ worker.pc # "resting" /\ up
    /\ UNCHANGED <<boots, up, jobId, resumeFrom, owner, events, queue, api>>
    /\ status' \in [Runs -> Status] /\ requested' \in [Runs -> BOOLEAN]
    /\ last' \in [Runs -> BOOLEAN] /\ adapter' \in [Runs -> BOOLEAN] /\ target' \in [Runs -> BOOLEAN]
    /\ \A r \in Runs : r # This => status'[r] = status[r]
    /\ \A r \in Runs : (last[r] => last'[r]) /\ (adapter[r] => adapter'[r]) /\ (target[r] => target'[r])
    /\ \/ worker' = Resting /\ (status'[This] \in {"cancelled", "failed"} \/ (worker.pc = "last" /\ status' = status))
       \/ /\ worker' \in [pc : WorkerPCs, job : 0..MaxJobs, seen : Status, saves : 0..MaxSaves, next : {"train", "register"}]
          /\ worker'.job = worker.job /\ worker'.pc \notin {"resting", "begin"}

LEMMA EndStep ==
    ASSUME TypeOK, ShapeInv, up, worker.pc # "resting",
           Stop \/ (Fail /\ (UNCHANGED target \/ target' = [target EXCEPT ![This] = TRUE])),
           UNCHANGED <<boots, up, owner, events, queue, api>>
    PROVE  WorkStep
<1>1. This \in Runs
  BY ThisType
<1>2. {"cancelled", "failed"} \subseteq Status
  BY DEF Status, Startable
<1>3. /\ worker' = Resting /\ last' = last /\ adapter' = adapter /\ jobId' = jobId /\ resumeFrom' = resumeFrom
      /\ requested' = [requested EXCEPT ![This] = TRUE] \/ requested' = requested
      /\ target' = [target EXCEPT ![This] = TRUE] \/ target' = target
  BY DEF Stop, Fail
<1>4. status' = [status EXCEPT ![This] = "cancelled"] \/ status' = [status EXCEPT ![This] = "failed"]
  BY DEF Stop, Fail, SetStatus
<1>5. /\ status' \in [Runs -> Status] /\ status'[This] \in {"cancelled", "failed"}
      /\ \A r \in Runs : r # This => status'[r] = status[r]
  BY <1>1, <1>2, <1>4 DEF TypeOK
<1>6. /\ requested' \in [Runs -> BOOLEAN] /\ target' \in [Runs -> BOOLEAN]
      /\ last' \in [Runs -> BOOLEAN] /\ adapter' \in [Runs -> BOOLEAN]
      /\ \A r \in Runs : (last[r] => last'[r]) /\ (adapter[r] => adapter'[r]) /\ (target[r] => target'[r])
  BY <1>1, <1>3 DEF TypeOK
<1> QED
  BY <1>3, <1>5, <1>6 DEF WorkStep

LEMMA WorkIsStep == TypeOK /\ ShapeInv /\ Work => WorkStep
<1> SUFFICES ASSUME TypeOK, ShapeInv, Work PROVE WorkStep
  OBVIOUS
<1>w. worker \in [pc : WorkerPCs, job : 0..MaxJobs, seen : Status, saves : 0..MaxSaves, next : {"train", "register"}]
  BY DEF ShapeInv
<1>s. /\ status \in [Runs -> Status] /\ requested \in [Runs -> BOOLEAN]
      /\ last \in [Runs -> BOOLEAN] /\ adapter \in [Runs -> BOOLEAN] /\ target \in [Runs -> BOOLEAN]
  BY DEF TypeOK
<1>e. {"preflight", "running", "saving_checkpoint", "completed"} \subseteq Status
  BY DEF Status, Working
<1>1. CASE Begin
  <2>1. CASE Cancelled
    BY <1>1, <2>1, EndStep DEF Begin, Reach
  <2>2. CASE ~Cancelled
    <3>1. /\ up /\ worker.pc = "begin" /\ status' = [status EXCEPT ![This] = "preflight"]
          /\ requested' = [requested EXCEPT ![This] = FALSE] /\ worker' = [worker EXCEPT !.pc = "preflight"]
          /\ UNCHANGED <<boots, up, owner, events, queue, api, jobId, resumeFrom, last, adapter, target>>
      BY <1>1, <2>2 DEF Begin, Reach, SetStatus, Goto
    <3>2. This \in Runs
      BY <3>1, ThisType
    <3>3. /\ status' \in [Runs -> Status] /\ requested' \in [Runs -> BOOLEAN]
          /\ \A r \in Runs : r # This => status'[r] = status[r]
      BY <3>1, <3>2, <1>s, <1>e
    <3> QED
      BY <3>1, <3>3, <1>w, <1>s DEF WorkStep, WorkerPCs
  <2> QED
    BY <2>1, <2>2
<1>2. CASE Prepare
  <2>1. CASE (Reach("preflight") \/ Reach("gpu")) /\ Fail /\ UNCHANGED target
    BY <1>2, <2>1, EndStep DEF Prepare, Reach
  <2>2. CASE Reach("preflight") /\ Goto("gpu") /\ UNCHANGED <<rowVars, target>>
    BY <1>2, <2>2, <1>w, <1>s DEF Prepare, Reach, Goto, WorkStep, WorkerPCs, rowVars
  <2>3. CASE Reach("gpu") /\ Goto("granted") /\ UNCHANGED <<rowVars, target>>
    BY <1>2, <2>3, <1>w, <1>s DEF Prepare, Reach, Goto, WorkStep, WorkerPCs, rowVars
  <2> QED
    BY <1>2, <2>1, <2>2, <2>3 DEF Prepare
<1>3. CASE Run
  <2>1. CASE Cancelled
    BY <1>3, <2>1, EndStep DEF Run, Reach
  <2>2. CASE ~Cancelled
    BY <1>3, <2>2, <1>w, <1>s, <1>e, ThisType DEF Run, Reach, SetStatus, Goto, WorkStep, WorkerPCs
  <2> QED
    BY <2>1, <2>2
<1>4. CASE Train
  <2>1. CASE Fail /\ UNCHANGED target
    BY <1>4, <2>1, EndStep DEF Train, Reach
  <2>2. CASE Cancelled /\ Stop
    BY <1>4, <2>2, EndStep DEF Train, Reach
  <2>3. CASE Goto("trained") /\ UNCHANGED <<rowVars, target>>
    BY <1>4, <2>3, <1>w, <1>s DEF Train, Reach, Goto, WorkStep, WorkerPCs, rowVars
  <2> QED
    BY <1>4, <2>1, <2>2, <2>3 DEF Train
<1>5. CASE Trained
  <2>1. CASE Cancelled
    BY <1>5, <2>1, EndStep DEF Trained, Reach
  <2>2. CASE ~Cancelled
    <3>1. /\ up /\ worker.pc = "trained" /\ UNCHANGED <<boots, up, owner, events, queue, api, rowVars, target>>
          /\ \/ worker' = [worker EXCEPT !.pc = "register"]
             \/ worker' = [worker EXCEPT !.pc = "saving", !.seen = status[This], !.next = "register"]
      BY <1>5, <2>2 DEF Trained, Reach, Goto
    <3>2. status[This] \in Status
      BY <3>1, <1>s, ThisType
    <3> QED
      BY <3>1, <3>2, <1>w, <1>s DEF WorkStep, WorkerPCs, rowVars
  <2> QED
    BY <2>1, <2>2
<1>6. CASE CheckpointRead
  <2>1. worker.saves + 1 \in 0..MaxSaves
    BY <1>6, <1>w, FineTuneAssumption DEF CheckpointRead
  <2> QED
    BY <1>6, <2>1, <1>w, <1>s, ThisType DEF CheckpointRead, Reach, WorkStep, WorkerPCs, rowVars
<1>7. CASE CheckpointSave
  BY <1>7, <1>w, <1>s, <1>e, ThisType DEF CheckpointSave, Reach, SetStatus, Goto, WorkStep, WorkerPCs
<1>8. CASE CheckpointDone
  BY <1>8, <1>w, <1>s, <1>e, ThisType DEF CheckpointDone, Reach, SetStatus, WorkStep, WorkerPCs
<1>9. CASE Register
  <2>1. CASE Cancelled
    BY <1>9, <2>1, EndStep DEF Register, Reach
  <2>2. CASE Fail /\ (UNCHANGED target \/ target' = [target EXCEPT ![This] = TRUE])
    BY <1>9, <2>2, EndStep DEF Register, Reach
  <2>3. CASE Goto("complete") /\ target' = [target EXCEPT ![This] = TRUE] /\ UNCHANGED rowVars
    BY <1>9, <2>3, <1>w, <1>s, ThisType DEF Register, Reach, Goto, WorkStep, WorkerPCs, rowVars
  <2> QED
    BY <1>9, <2>1, <2>2, <2>3 DEF Register
<1>10. CASE Complete
  BY <1>10, <1>w, <1>s, <1>e, ThisType DEF Complete, Reach, SetStatus, Goto, WorkStep, WorkerPCs
<1>11. CASE LastUpdate
  <2>1. CASE Cancelled
    BY <1>11, <2>1, EndStep DEF LastUpdate, Reach
  <2>2. CASE ~Cancelled
    BY <1>11, <2>2, <1>s DEF LastUpdate, Reach, WorkStep, rowVars
  <2> QED
    BY <2>1, <2>2
<1> QED
  BY <1>1, <1>2, <1>3, <1>4, <1>5, <1>6, <1>7, <1>8, <1>9, <1>10, <1>11 DEF Work

LEMMA TypeNext == TypeOK /\ ShapeInv /\ [Next]_vars => TypeOK' /\ ShapeInv'
<1> SUFFICES ASSUME TypeOK, ShapeInv, [Next]_vars PROVE TypeOK' /\ ShapeInv'
  OBVIOUS
<1>a. api \in [call : {"idle", "start", "save", "signal"}, run : Runs, job : 0..MaxJobs]
  BY DEF ShapeInv
<1>n. Len(owner) \in Nat /\ Len(owner) <= MaxJobs /\ MaxJobs \in Nat /\ owner \in Seq(Runs) /\ queue \in Seq(Jobs)
  BY FineTuneAssumption DEF TypeOK
<1>1. ASSUME UNCHANGED <<boots, up, owner, queue, worker, target, events>>, up,
             status' \in [Runs -> Status], requested' \in [Runs -> BOOLEAN], jobId' \in [Runs -> 0..MaxJobs],
             resumeFrom' \in [Runs -> BOOLEAN], last' = last, adapter' = adapter,
             api' \in [call : {"idle", "start", "save", "signal"}, run : Runs, job : 0..MaxJobs]
      PROVE  TypeOK' /\ ShapeInv'
  BY <1>1 DEF TypeOK, ShapeInv
<1>2. ASSUME NEW r \in Runs, Create(r) \/ Start(r) \/ Resume(r) \/ Cancel(r) PROVE TypeOK' /\ ShapeInv'
  <2>1. "created" \in Status /\ 0 \in 0..MaxJobs
    BY <1>n DEF Status, Startable
  <2>2. /\ status' \in [Runs -> Status] /\ requested' \in [Runs -> BOOLEAN] /\ resumeFrom' \in [Runs -> BOOLEAN]
        /\ jobId' \in [Runs -> 0..MaxJobs] /\ last' = last /\ adapter' = adapter
    BY <1>2, <2>1 DEF Create, Start, Resume, Cancel, SetStatus, TypeOK, rowVars
  <2>3. api' \in [call : {"idle", "start", "save", "signal"}, run : Runs, job : 0..MaxJobs]
    BY <1>2, <1>a, <2>1 DEF Create, Start, Resume, Cancel, Call, TypeOK
  <2> QED
    BY <1>1, <1>2, <2>2, <2>3 DEF Create, Start, Resume, Cancel
<1>3. CASE Submit
  <2>1. CASE MayStart(status[api.run]) /\ Len(owner) < MaxJobs
    <3>1. /\ owner' = Append(owner, api.run) /\ queue' = Append(queue, Len(owner'))
          /\ api' = [call |-> "save", run |-> api.run, job |-> Len(owner')]
          /\ UNCHANGED <<boots, up, rowVars, target, events, worker>> /\ up
      BY <1>3, <2>1 DEF Submit, Call
    <3>2. owner' \in Seq(Runs) /\ Len(owner') = Len(owner) + 1
      BY <3>1, <1>a, <1>n
    <3>3. Len(owner') \in Jobs /\ Len(owner') <= MaxJobs /\ Len(owner') \in 0..MaxJobs
      BY <2>1, <3>2, <1>n DEF Jobs
    <3>4. queue' \in Seq(Jobs) /\ Len(queue') = Len(queue) + 1 /\ Len(queue) \in Nat
          /\ queue'[Len(queue) + 1] = Len(owner')
          /\ \A i \in 1..Len(queue) : queue'[i] = queue[i] /\ queue[i] \in Jobs
      BY <3>1, <3>3, <1>n
    <3>5. api' \in [call : {"idle", "start", "save", "signal"}, run : Runs, job : 0..MaxJobs]
      BY <3>1, <3>3, <1>a
    <3>6. \A i \in 1..Len(queue) : queue[i] <= Len(owner) /\ queue[i] # worker.job /\ queue[i] \in Nat
      BY <3>4, <1>n DEF ShapeInv, Jobs
    <3>7. worker.job <= Len(owner) /\ worker.job \in Nat
      BY <1>n DEF ShapeInv, TypeOK
    <3>8. \A i \in 1..Len(queue') : i \in 1..Len(queue) \/ i = Len(queue) + 1
      BY <3>4
    <3>9. \A i \in 1..Len(queue') : queue'[i] <= Len(owner') /\ queue'[i] # worker.job
      <4>1. \A i \in 1..Len(queue) : queue'[i] <= Len(owner') /\ queue'[i] # worker.job
        BY <3>2, <3>4, <3>6, <1>n
      <4>2. Len(owner') <= Len(owner') /\ Len(owner') # worker.job
        BY <3>2, <3>7, <1>n
      <4> QED
        BY <4>1, <4>2, <3>4, <3>8
    <3>10. \A i, k \in 1..Len(queue') : queue'[i] = queue'[k] => i = k
      <4>1. \A i, k \in 1..Len(queue) : queue[i] = queue[k] => i = k
        BY DEF ShapeInv
      <4>2. \A i \in 1..Len(queue) : queue'[i] # Len(owner')
        BY <3>2, <3>4, <3>6, <1>n
      <4> QED
        BY <4>1, <4>2, <3>4, <3>8
    <3>11. TypeOK'
      BY <3>1, <3>2, <3>3, <3>4, <3>5 DEF TypeOK, rowVars
    <3> QED
      BY <3>1, <3>2, <3>5, <3>7, <3>9, <3>10, <3>11, <1>n DEF ShapeInv
  <2>2. CASE ~(MayStart(status[api.run]) /\ Len(owner) < MaxJobs)
    <3>1. up /\ api' = Idle /\ UNCHANGED <<boots, up, rowVars, target, owner, queue, events, worker>>
      BY <1>3, <2>2 DEF Submit
    <3> QED
      BY <3>1, <1>1, IdleFacts DEF rowVars, TypeOK
  <2> QED
    BY <2>1, <2>2
<1>4. CASE StartSave
  <2>1. "queued" \in Status
    BY DEF Status
  <2> QED
    BY <1>1, <1>4, <2>1, <1>a, IdleFacts DEF StartSave, SetStatus, TypeOK
<1>5. CASE Signal
  <2>1. events' \in SUBSET Jobs
    <3>1. events \in SUBSET Jobs /\ (api.job # 0 => api.job \in Jobs)
      BY <1>a, <1>n DEF TypeOK, Jobs
    <3> QED
      BY <1>5, <3>1 DEF Signal
  <2>2. up /\ api' = Idle /\ UNCHANGED <<boots, up, rowVars, target, owner, queue, worker>>
    BY <1>5 DEF Signal
  <2>3. api' \in [call : {"idle", "start", "save", "signal"}, run : Runs, job : 0..MaxJobs]
    BY <2>2, IdleFacts
  <2>4. UNCHANGED <<boots, up, status, requested, jobId, resumeFrom, last, adapter, target, owner, queue, worker>>
    BY <2>2 DEF rowVars
  <2>5. TypeOK'
    BY <2>1, <2>3, <2>4 DEF TypeOK
  <2> QED
    BY <2>2, <2>3, <2>5 DEF ShapeInv
<1>6. CASE Take
  <2>1. /\ worker.pc = "resting" /\ queue # <<>> /\ up /\ queue' = Tail(queue)
        /\ worker' = [Resting EXCEPT !.pc = "begin", !.job = Head(queue)]
        /\ UNCHANGED <<boots, up, rowVars, target, owner, events, api>>
    BY <1>6 DEF Take, Reach
  <2>2. /\ Head(queue) = queue[1] /\ 1 \in 1..Len(queue) /\ queue[1] \in Jobs /\ Tail(queue) \in Seq(Jobs)
        /\ Len(Tail(queue)) = Len(queue) - 1 /\ Len(queue) \in Nat
        /\ \A i \in 1..Len(Tail(queue)) : Tail(queue)[i] = queue[i + 1] /\ i + 1 \in 1..Len(queue) /\ i + 1 # 1
    BY <2>1, <1>n
  <2>3. /\ worker' \in [pc : WorkerPCs, job : 0..MaxJobs, seen : Status, saves : 0..MaxSaves, next : {"train", "register"}]
        /\ worker'.job = queue[1] /\ worker'.pc = "begin" /\ worker'.job # 0 /\ worker'.job <= Len(owner)
    <3>1. queue[1] \in 0..MaxJobs /\ queue[1] # 0 /\ queue[1] <= Len(owner)
      BY <2>2, <1>n DEF Jobs, ShapeInv
    <3>2. worker' = [Resting EXCEPT !.pc = "begin", !.job = queue[1]]
      BY <2>1, <2>2
    <3> QED
      BY <3>1, <3>2, IdleFacts DEF WorkerPCs
  <2>4. \A i \in 1..Len(queue') : queue'[i] <= Len(owner) /\ queue'[i] # worker'.job
    BY <2>1, <2>2, <2>3 DEF ShapeInv
  <2>5. \A i, k \in 1..Len(queue') : queue'[i] = queue'[k] => i = k
    <3> SUFFICES ASSUME NEW i \in 1..Len(queue'), NEW k \in 1..Len(queue'), queue'[i] = queue'[k] PROVE i = k
      OBVIOUS
    <3>1. i + 1 = k + 1
      BY <2>1, <2>2 DEF ShapeInv
    <3> QED
      BY <3>1
  <2>6. TypeOK'
    BY <2>1, <2>2, <2>3 DEF TypeOK, WorkerPCs, rowVars
  <2> QED
    BY <2>1, <2>3, <2>4, <2>5, <2>6 DEF ShapeInv
<1>7. CASE Work
  <2>1. WorkStep
    BY <1>7, WorkIsStep
  <2>2. CASE worker' = Resting
    <3>1. \A i \in 1..Len(queue) : queue[i] # 0
      BY <1>n DEF Jobs
    <3> QED
      BY <2>1, <2>2, <3>1, <1>n, IdleFacts DEF WorkStep, TypeOK, ShapeInv, WorkerPCs
  <2>3. CASE worker' # Resting
    <3>1. /\ worker' \in [pc : WorkerPCs, job : 0..MaxJobs, seen : Status, saves : 0..MaxSaves, next : {"train", "register"}]
          /\ worker'.job = worker.job /\ worker'.pc \notin {"resting", "begin"} /\ worker.pc # "resting" /\ up
      BY <2>1, <2>3 DEF WorkStep
    <3>2. TypeOK'
      BY <2>1, <3>1 DEF WorkStep, TypeOK, WorkerPCs
    <3> QED
      BY <2>1, <3>1, <3>2 DEF WorkStep, ShapeInv
  <2> QED
    BY <2>2, <2>3
<1>8. CASE Exit
  <2>1. queue' = <<>> /\ Len(queue') = 0 /\ worker' = Resting /\ api' = Idle /\ events' = {} /\ up' = FALSE
        /\ UNCHANGED <<boots, rowVars, target, owner>>
    BY <1>8 DEF Exit
  <2>2. queue' \in Seq(Jobs)
    BY <2>1
  <2>3. TypeOK'
    BY <2>1, <2>2, IdleFacts DEF TypeOK, rowVars, WorkerPCs
  <2> QED
    BY <2>1, <2>3, <1>n, IdleFacts DEF ShapeInv
<1>9. CASE Restart
  <2>1. boots + 1 \in 1..MaxBoots
    BY <1>9, FineTuneAssumption DEF Restart, TypeOK
  <2> QED
    BY <1>9, <2>1 DEF Restart, TypeOK, ShapeInv, rowVars
<1>10. CASE UNCHANGED vars
  BY <1>10 DEF vars, rowVars, TypeOK, ShapeInv
<1> QED
  BY <1>2, <1>3, <1>4, <1>5, <1>6, <1>7, <1>8, <1>9, <1>10 DEF Next, ApiStep

-----------------------------------------------------------------------------
(* What the worker relies on.                                              *)

\* A later submission does not change the run of a job.
LEMMA ThisKept ==
    ASSUME TypeOK, ShapeInv, worker.pc # "resting", worker'.job = worker.job,
           owner' = owner \/ owner' = Append(owner, api.run)
    PROVE  This' = This /\ This \in Runs
<1>1. worker.job \in 1..Len(owner) /\ This \in Runs
  BY ThisType
<1>2. owner \in Seq(Runs) /\ api.run \in Runs
  BY DEF TypeOK
<1>3. owner'[worker.job] = owner[worker.job]
  BY <1>1, <1>2
<1> QED
  BY <1>1, <1>3 DEF This

LEMMA WorkNext == TypeOK /\ ShapeInv /\ WorkInv /\ CompletedHasAdapter /\ [Next]_vars => WorkInv'
<1> SUFFICES ASSUME TypeOK, ShapeInv, WorkInv, CompletedHasAdapter, [Next]_vars, worker'.pc # "resting"
             PROVE  WorkInv'
  BY DEF WorkInv
<1> DEFINE Holds(r) ==
             /\ worker.pc # "begin" /\ ~resumeFrom[r] => status[r] \notin Open
             /\ worker.pc \in {"saving", "saved"} =>
                  /\ ~resumeFrom[r] => worker.seen \notin Open
                  /\ worker.seen = "completed" => adapter[r] /\ target[r] /\ last[r]
             /\ worker.pc \in {"saved", "register", "complete"} => last[r]
             /\ worker.pc = "complete" => target[r]
             /\ worker.pc = "last" => status[r] \notin Working
<1>0. worker.pc # "resting" => Holds(This) /\ This \in Runs
  BY ThisType DEF WorkInv
<1>o. {"preflight", "running", "saving_checkpoint", "completed", "queued"} \cap Open = {}
  BY DEF Open, Startable
<1>1. ASSUME worker.pc # "resting", worker'.job = worker.job, owner' = owner \/ owner' = Append(owner, api.run),
             Holds(This)'
      PROVE  WorkInv'
  BY <1>1 DEF WorkInv
<1>2. ASSUME worker.pc # "resting", worker' = worker, owner' = owner \/ owner' = Append(owner, api.run),
             UNCHANGED <<last, adapter, target>>,
             \/ UNCHANGED <<status, resumeFrom>>
             \/ status'[This] \notin Open \cup Working /\ UNCHANGED resumeFrom
             \/ resumeFrom'[This] /\ status'[This] \notin Working
      PROVE  WorkInv'
  <2>1. This' = This
    BY <1>2, ThisKept
  <2> QED
    BY <1>0, <1>2, <2>1 DEF WorkInv
<1>3. ASSUME NEW r \in Runs, Create(r) \/ Start(r) \/ Resume(r) \/ Cancel(r) PROVE WorkInv'
  <2>1. worker' = worker /\ worker.pc # "resting" /\ owner' = owner /\ UNCHANGED <<last, adapter, target>>
    BY <1>3 DEF Create, Start, Resume, Cancel, rowVars
  <2>2. CASE r # This \/ Start(r) \/ Cancel(r)
    <3>1. status'[This] = status[This] /\ resumeFrom'[This] = resumeFrom[This] /\ This' = This
      BY <1>0, <1>3, <2>1, <2>2, ThisKept DEF Create, Start, Resume, Cancel, SetStatus, rowVars, TypeOK
    <3> QED
      BY <1>0, <2>1, <3>1 DEF WorkInv
  <2>3. CASE r = This /\ Resume(r)
    <3>1. resumeFrom'[This] /\ status'[This] = "created"
      BY <2>3, <1>0, <2>1 DEF Resume, SetStatus, TypeOK
    <3> QED
      BY <1>2, <2>1, <3>1 DEF Working
  <2>4. CASE r = This /\ Create(r)
    <3>1. status'[This] = "created" /\ status[This] = "none" /\ UNCHANGED resumeFrom /\ This' = This
      BY <2>4, <1>0, <2>1, ThisKept DEF Create, SetStatus, TypeOK
    <3> QED
      BY <1>0, <2>1, <3>1 DEF WorkInv, Open, Startable, Working
  <2> QED
    BY <1>3, <2>2, <2>3, <2>4
<1>4. CASE Submit
  <2>1. worker' = worker /\ worker.pc # "resting" /\ UNCHANGED <<status, resumeFrom, last, adapter, target>>
    BY <1>4 DEF Submit, rowVars
  <2>2. owner' = owner \/ owner' = Append(owner, api.run)
    BY <1>4 DEF Submit
  <2> QED
    BY <2>1, <2>2, <1>2
<1>5. CASE StartSave
  <2>1. worker' = worker /\ worker.pc # "resting" /\ owner' = owner /\ UNCHANGED <<last, adapter, target, resumeFrom>>
    BY <1>5 DEF StartSave
  <2>2. status'[This] = status[This] \/ status'[This] = "queued"
    BY <1>5, <1>0, <2>1 DEF StartSave, SetStatus, TypeOK
  <2>3. This' = This
    BY <2>1, ThisKept
  <2> QED
    BY <1>0, <1>o, <2>1, <2>2, <2>3 DEF WorkInv, Working
<1>6. CASE Signal
  BY <1>2, <1>6 DEF Signal, rowVars
<1>7. CASE Take
  <2>1. worker'.pc = "begin"
    BY <1>7, IdleFacts DEF Take
  <2> QED
    BY <2>1 DEF WorkInv
<1>8. CASE Work
  <2>1. WorkStep /\ worker.pc # "resting"
    BY <1>8, WorkIsStep DEF WorkStep
  <2>2. worker'.job = worker.job /\ worker'.pc # "begin" /\ UNCHANGED <<owner, resumeFrom>>
    BY <2>1, IdleFacts DEF WorkStep
  <2>3. This' = This /\ This \in Runs /\ Holds(This)
    BY <2>1, <2>2, <1>0, ThisKept
  <2>4. worker' # Resting
    BY IdleFacts
  <2>w. worker \in [pc : WorkerPCs, job : 0..MaxJobs, seen : Status, saves : 0..MaxSaves, next : {"train", "register"}]
    BY DEF ShapeInv
  <2>m. (last[This] => last'[This]) /\ (adapter[This] => adapter'[This]) /\ (target[This] => target'[This])
    BY <2>1, <2>3 DEF WorkStep
  <2>5. CASE Begin
    BY <2>5, <2>w, <2>2, <2>3, <2>4, <1>o DEF Begin, Stop, Reach, Goto, SetStatus, WorkInv, TypeOK, Working
  <2>6. CASE Prepare
    <3>1. worker'.pc \in {"gpu", "granted"} /\ UNCHANGED status /\ worker.pc # "begin"
      BY <2>6, <2>4, <2>w DEF Prepare, Fail, Reach, Goto, rowVars
    <3> QED
      BY <3>1, <2>2, <2>3 DEF WorkInv
  <2>7. CASE Run
    <3>1. worker'.pc = "train" /\ status' = [status EXCEPT ![This] = "running"]
      BY <2>7, <2>4, <2>w DEF Run, Stop, Goto, SetStatus
    <3> QED
      BY <3>1, <2>2, <2>3, <1>o DEF WorkInv, TypeOK
  <2>8. CASE Train
    <3>1. worker'.pc = "trained" /\ UNCHANGED status /\ worker.pc = "train"
      BY <2>8, <2>4, <2>w DEF Train, Stop, Fail, Goto, Reach, rowVars
    <3> QED
      BY <3>1, <2>2, <2>3 DEF WorkInv
  <2>9. CASE Trained
    <3>1. /\ UNCHANGED <<rowVars, target>> /\ worker.pc = "trained"
          /\ \/ worker'.pc = "register" /\ last[This]
             \/ worker'.pc = "saving" /\ worker'.seen = status[This]
      BY <2>9, <2>4, <2>w DEF Trained, Stop, Goto, Reach
    <3> QED
      BY <3>1, <2>2, <2>3 DEF WorkInv, CompletedHasAdapter, rowVars
  <2>10. CASE CheckpointRead
    <3>1. UNCHANGED <<rowVars, target>> /\ worker.pc = "train" /\ worker'.pc = "saving" /\ worker'.seen = status[This]
      BY <2>10, <2>w DEF CheckpointRead, Reach
    <3> QED
      BY <3>1, <2>2, <2>3 DEF WorkInv, CompletedHasAdapter, rowVars
  <2>11. CASE CheckpointSave
    <3>1. /\ worker.pc = "saving" /\ worker'.pc = "saved" /\ worker'.seen = worker.seen
          /\ status'[This] = (IF worker.seen = "running" THEN "saving_checkpoint" ELSE worker.seen) /\ last'[This]
      BY <2>11, <2>w, <2>3 DEF CheckpointSave, Reach, Goto, SetStatus, TypeOK
    <3> QED
      BY <3>1, <2>2, <2>3, <2>m, <1>o DEF WorkInv
  <2>12. CASE CheckpointDone
    <3>1. /\ worker.pc = "saved" /\ worker'.pc \in {"train", "register"}
          /\ status'[This] = status[This] \/ status'[This] = "running"
      BY <2>12, <2>w, <2>3 DEF CheckpointDone, Reach, SetStatus, TypeOK
    <3> QED
      BY <3>1, <2>2, <2>3, <2>m, <1>o DEF WorkInv
  <2>13. CASE Register
    <3>1. worker.pc = "register" /\ worker'.pc = "complete" /\ target'[This] /\ UNCHANGED status
      BY <2>13, <2>4, <2>w, <2>3 DEF Register, Stop, Fail, Goto, Reach, rowVars, TypeOK
    <3> QED
      BY <3>1, <2>2, <2>3, <2>m DEF WorkInv
  <2>14. CASE Complete
    <3>1. worker'.pc = "last" /\ status'[This] = "completed"
      BY <2>14, <2>w, <2>3 DEF Complete, Goto, SetStatus, TypeOK
    <3> QED
      BY <3>1, <2>2, <2>3, <1>o DEF WorkInv, Working
  <2>15. CASE LastUpdate
    BY <2>15, <2>4 DEF LastUpdate, Stop
  <2> QED
    BY <1>8, <2>5, <2>6, <2>7, <2>8, <2>9, <2>10, <2>11, <2>12, <2>13, <2>14, <2>15 DEF Work
<1>9. CASE Exit
  BY <1>9, IdleFacts DEF Exit
<1>10. CASE Restart
  BY <1>10, IdleFacts DEF Restart, ShapeInv
<1>11. CASE UNCHANGED vars
  BY <1>2, <1>11 DEF vars, rowVars
<1> QED
  BY <1>3, <1>4, <1>5, <1>6, <1>7, <1>8, <1>9, <1>10, <1>11 DEF Next, ApiStep

-----------------------------------------------------------------------------
(* The rows.                                                               *)

\* Only a submission brings a new job.
LEMMA LiveStep ==
    ASSUME TypeOK, ShapeInv, [Next]_vars, ~Submit
    PROVE  /\ owner' = owner
           /\ \A j \in 1..Len(owner) : Live(j)' => Live(j)
<1>0. \A j \in 1..Len(owner) : j # 0
  OBVIOUS
<1>1. ASSUME owner' = owner, queue' = queue, worker'.job \in {worker.job, 0}
      PROVE  \A j \in 1..Len(owner) : Live(j)' => Live(j)
  BY <1>0, <1>1 DEF Live
<1>2. ASSUME NEW r \in Runs, Create(r) \/ Start(r) \/ Resume(r) \/ Cancel(r)
      PROVE  owner' = owner /\ queue' = queue /\ worker' = worker
  BY <1>2 DEF Create, Start, Resume, Cancel
<1>3. CASE StartSave \/ Signal
  BY <1>1, <1>3 DEF StartSave, Signal
<1>4. CASE Take
  <2>1. /\ queue # <<>> /\ queue' = Tail(queue) /\ owner' = owner
        /\ worker' = [Resting EXCEPT !.pc = "begin", !.job = Head(queue)]
    BY <1>4 DEF Take
  <2>2. /\ Head(queue) = queue[1] /\ 1 \in 1..Len(queue)
        /\ \A i \in 1..Len(Tail(queue)) : Tail(queue)[i] = queue[i + 1] /\ i + 1 \in 1..Len(queue)
    BY <2>1 DEF TypeOK
  <2>3. worker'.job = queue[1]
    BY <2>1, <2>2 DEF Resting
  <2> QED
    BY <2>1, <2>2, <2>3 DEF Live
<1>5. CASE Work
  <2>1. WorkStep
    BY <1>5, WorkIsStep
  <2>2. owner' = owner /\ queue' = queue /\ worker'.job \in {worker.job, 0}
    BY <2>1, IdleFacts DEF WorkStep
  <2> QED
    BY <2>2, <1>1
<1>6. CASE Exit
  <2>1. owner' = owner /\ queue' = <<>> /\ worker'.job = 0
    BY <1>6, IdleFacts DEF Exit
  <2> QED
    BY <2>1, <1>0 DEF Live
<1>7. CASE Restart \/ UNCHANGED vars
  BY <1>1, <1>7 DEF Restart, vars
<1> QED
  BY <1>1, <1>2, <1>3, <1>4, <1>5, <1>6, <1>7 DEF Next, ApiStep

\* A submission brings one job, of a run that has none unless it was resumed.
LEMMA SubmitStep ==
    ASSUME TypeOK, ShapeInv, OpenInv, Submit, owner' # owner
    PROVE  /\ Len(owner') = Len(owner) + 1 /\ owner'[Len(owner')] = api.run /\ Len(owner) \in Nat
           /\ \A j \in 1..Len(owner) : owner'[j] = owner[j] /\ (Live(j)' => Live(j))
           /\ ~resumeFrom[api.run] => \A j \in 1..Len(owner) : Live(j) => owner[j] # api.run
           /\ api'.call = "save" /\ api'.run = api.run
           /\ UNCHANGED <<boots, up, rowVars, target, worker>>
<1>1. /\ owner' = Append(owner, api.run) /\ queue' = Append(queue, Len(owner'))
      /\ api' = [call |-> "save", run |-> api.run, job |-> Len(owner')]
      /\ MayStart(status[api.run]) /\ api.call = "start"
      /\ UNCHANGED <<boots, up, rowVars, target, worker>>
  BY DEF Submit, Call
<1>2. owner \in Seq(Runs) /\ queue \in Seq(Jobs) /\ api.run \in Runs
  BY DEF TypeOK
<1>3. /\ Len(owner') = Len(owner) + 1 /\ owner'[Len(owner')] = api.run /\ Len(owner) \in Nat
      /\ \A j \in 1..Len(owner) : owner'[j] = owner[j]
  BY <1>1, <1>2
<1>4. /\ Len(queue') = Len(queue) + 1 /\ queue'[Len(queue) + 1] = Len(owner')
      /\ Len(queue) \in Nat /\ \A i \in 1..Len(queue) : queue'[i] = queue[i]
  BY <1>1, <1>2
<1>5. \A j \in 1..Len(owner) : Live(j)' => Live(j)
  <2>1. \A i \in 1..Len(queue') : i \in 1..Len(queue) \/ i = Len(queue) + 1
    BY <1>4
  <2>2. \A j \in 1..Len(owner) : j # Len(owner')
    BY <1>3
  <2> QED
    BY <1>1, <1>4, <2>1, <2>2 DEF Live
<1>6. ~resumeFrom[api.run] => \A j \in 1..Len(owner) : Live(j) => owner[j] # api.run
  BY <1>1, <1>2 DEF OpenInv, MayStart, Open
<1> QED
  BY <1>1, <1>3, <1>5, <1>6

LEMMA OneJobNext == TypeOK /\ ShapeInv /\ OpenInv /\ OneJobUnlessResumed /\ [Next]_vars => OneJobUnlessResumed'
<1> SUFFICES ASSUME TypeOK, ShapeInv, OpenInv, OneJobUnlessResumed, [Next]_vars,
                    NEW r \in Runs, ~resumeFrom'[r], NEW i \in 1..Len(owner'), NEW j \in 1..Len(owner'),
                    Live(i)', Live(j)', owner'[i] = r, owner'[j] = r
             PROVE  i = j
  BY DEF OneJobUnlessResumed
<1>1. ~resumeFrom[r]
  <2>1. ASSUME NEW q \in Runs, Resume(q) PROVE ~resumeFrom[r]
    BY <2>1 DEF Resume, TypeOK
  <2>2. CASE Work
    BY <2>2, WorkIsStep DEF WorkStep
  <2>3. CASE ~Work /\ ~\E q \in Runs : Resume(q)
    BY <2>3 DEF Next, ApiStep, Create, Start, Cancel, Submit, StartSave, Signal, Take, Exit, Restart, vars, rowVars
  <2> QED
    BY <2>1, <2>2, <2>3
<1>2. CASE ~Submit
  BY <1>1, <1>2, LiveStep DEF OneJobUnlessResumed
<1>3. CASE Submit /\ owner' = owner
  <2>1. queue' = queue /\ worker' = worker
    <3>1. owner \in Seq(Runs)
      BY DEF TypeOK
    <3>2. owner' # Append(owner, api.run)
      BY <1>3, <3>1 DEF TypeOK
    <3> QED
      BY <1>3, <3>2 DEF Submit
  <2> QED
    BY <1>1, <1>3, <2>1 DEF OneJobUnlessResumed, Live
<1>4. CASE Submit /\ owner' # owner
  <2>1. \A k \in 1..Len(owner') : k \in 1..Len(owner) \/ k = Len(owner')
    BY <1>4, SubmitStep
  <2>2. CASE i \in 1..Len(owner) /\ j \in 1..Len(owner)
    BY <1>1, <1>4, <2>2, SubmitStep DEF OneJobUnlessResumed
  <2>3. CASE i = Len(owner') \/ j = Len(owner')
    BY <1>1, <1>4, <2>1, <2>3, SubmitStep
  <2> QED
    BY <2>1, <2>2, <2>3
<1> QED
  BY <1>2, <1>3, <1>4

LEMMA OpenNext ==
    TypeOK /\ ShapeInv /\ WorkInv /\ WorkInv' /\ OpenInv /\ OneJobUnlessResumed /\ [Next]_vars => OpenInv'
<1> SUFFICES ASSUME TypeOK, ShapeInv, WorkInv, WorkInv', OpenInv, OneJobUnlessResumed, [Next]_vars,
                    NEW r \in Runs, ~resumeFrom'[r], status'[r] \in Open, ~(api'.call = "save" /\ api'.run = r),
                    NEW j \in 1..Len(owner'), Live(j)'
             PROVE  owner'[j] # r
  BY DEF OpenInv
<1>1. ASSUME ~Submit, ~resumeFrom[r], status[r] \in Open, ~(api.call = "save" /\ api.run = r)
      PROVE  owner'[j] # r
  BY <1>1, LiveStep DEF OpenInv
<1>2. ASSUME NEW q \in Runs, Create(q) PROVE owner'[j] # r
  <2>1. ~resumeFrom[r] /\ status[r] \in Open
    BY <1>2 DEF Create, SetStatus, TypeOK, Open
  <2>2. api.call # "save" /\ ~Submit
    BY <1>2, IdleFacts DEF Create, Submit
  <2> QED
    BY <2>1, <2>2, <1>1
<1>3. ASSUME NEW q \in Runs, Start(q) \/ Cancel(q) PROVE owner'[j] # r
  <2>1. UNCHANGED <<status, resumeFrom>> /\ api.call # "save" /\ ~Submit
    BY <1>3, IdleFacts DEF Start, Cancel, Submit, rowVars
  <2> QED
    BY <2>1, <1>1
<1>4. ASSUME NEW q \in Runs, Resume(q) PROVE owner'[j] # r
  <2>1. q # r
    BY <1>4 DEF Resume, TypeOK
  <2>2. status'[r] = status[r] /\ resumeFrom'[r] = resumeFrom[r] /\ api.call # "save" /\ ~Submit
    BY <1>4, <2>1, IdleFacts DEF Resume, SetStatus, Submit, TypeOK
  <2> QED
    BY <2>2, <1>1
<1>5. CASE Submit /\ owner' # owner
  <2>1. api.run # r /\ UNCHANGED <<status, resumeFrom>> /\ api.call # "save"
    BY <1>5, SubmitStep DEF Submit, rowVars
  <2>2. j \in 1..Len(owner) \/ j = Len(owner')
    BY <1>5, SubmitStep
  <2> QED
    BY <1>5, <2>1, <2>2, SubmitStep DEF OpenInv
<1>6. CASE Submit /\ owner' = owner
  <2>1. owner' # Append(owner, api.run)
    BY <1>6 DEF TypeOK
  <2>2. UNCHANGED <<queue, worker, status, resumeFrom>> /\ api.call # "save"
    BY <1>6, <2>1 DEF Submit, rowVars
  <2> QED
    BY <1>6, <2>2 DEF OpenInv, Live
<1>7. CASE StartSave
  <2>1. ~Submit /\ UNCHANGED resumeFrom
    BY <1>7 DEF StartSave, Submit
  <2>2. r # api.run
    BY <1>7 DEF StartSave, SetStatus, TypeOK, Open, Startable
  <2>3. status'[r] = status[r]
    BY <1>7, <2>2 DEF StartSave, SetStatus, TypeOK
  <2> QED
    BY <2>1, <2>2, <2>3, <1>1
<1>8. CASE Signal
  <2>1. ~Submit /\ UNCHANGED <<status, resumeFrom>> /\ api.call # "save"
    BY <1>8 DEF Signal, Submit, rowVars
  <2> QED
    BY <2>1, <1>1
<1>9. CASE Take \/ Restart \/ UNCHANGED vars
  <2>1. (UNCHANGED <<status, resumeFrom, api>> /\ ~Submit) \/ UNCHANGED vars
    BY <1>9, IdleFacts DEF Take, Restart, vars, rowVars, Submit, ShapeInv, Reach
  <2>2. CASE UNCHANGED vars
    BY <2>2 DEF vars, rowVars, OpenInv, Live
  <2> QED
    BY <2>1, <2>2, <1>1
<1>10. CASE Work
  <2>1. WorkStep /\ worker.pc # "resting"
    BY <1>10, WorkIsStep DEF WorkStep
  <2>2. UNCHANGED <<owner, resumeFrom, api, queue>> /\ This \in Runs /\ worker.job \in 1..Len(owner)
    BY <2>1, ThisType DEF WorkStep
  <2>3. \A k \in 1..Len(owner) : Live(k)' => Live(k)
    <3>1. worker'.job \in {worker.job, 0}
      BY <2>1, IdleFacts DEF WorkStep
    <3> QED
      BY <2>2, <3>1 DEF Live
  <2>4. CASE r # This
    <3>1. status'[r] = status[r]
      BY <2>1, <2>4 DEF WorkStep
    <3> QED
      BY <2>2, <2>3, <3>1 DEF OpenInv
  <2>5. CASE r = This /\ worker' = Resting
    <3>1. j # worker.job
      <4>1. \A i \in 1..Len(queue) : queue[i] # worker.job
        BY DEF ShapeInv
      <4> QED
        BY <2>2, <2>5, <4>1, IdleFacts DEF Live
    <3>2. Live(worker.job) /\ owner[worker.job] = r
      BY <2>5 DEF Live, This
    <3>3. owner[j] # r
      BY <2>2, <2>3, <3>1, <3>2 DEF OneJobUnlessResumed
    <3> QED
      BY <2>2, <3>3
  <2>6. CASE r = This /\ worker' # Resting
    <3>1. worker'.job = worker.job /\ worker'.pc \notin {"resting", "begin"}
      BY <2>1, <2>6 DEF WorkStep
    <3>2. This' = This
      BY <2>1, <2>2, <3>1, ThisKept
    <3> QED
      BY <2>6, <3>1, <3>2 DEF WorkInv
  <2> QED
    BY <2>4, <2>5, <2>6
<1>11. CASE Exit
  <2>1. queue' = <<>> /\ Len(queue') = 0 /\ worker'.job = 0
    BY <1>11, IdleFacts DEF Exit
  <2> QED
    BY <2>1 DEF Live
<1> QED
  BY <1>2, <1>3, <1>4, <1>5, <1>6, <1>7, <1>8, <1>9, <1>10, <1>11 DEF Next, ApiStep

LEMMA WorkingNext ==
    TypeOK /\ ShapeInv /\ WorkInv /\ WorkingRunHasThread /\ [Next]_vars => WorkingRunHasThread'
<1> SUFFICES ASSUME TypeOK, ShapeInv, WorkInv, WorkingRunHasThread, [Next]_vars,
                    up', boots' = 1, NEW r \in Runs, status'[r] \in Working
             PROVE  worker'.job # 0 /\ This' = r
  BY DEF WorkingRunHasThread
<1>1. ASSUME up, boots = 1, status[r] \in Working, worker' = worker, owner' = owner \/ owner' = Append(owner, api.run)
      PROVE  worker'.job # 0 /\ This' = r
  <2>1. worker.job # 0 /\ This = r
    BY <1>1 DEF WorkingRunHasThread
  <2>2. worker.pc # "resting"
    BY <2>1 DEF ShapeInv
  <2> QED
    BY <1>1, <2>1, <2>2, ThisKept
<1>2. ASSUME NEW q \in Runs, Create(q) \/ Start(q) \/ Resume(q) \/ Cancel(q)
      PROVE  worker'.job # 0 /\ This' = r
  <2>1. status'[r] = status[r]
    BY <1>2 DEF Create, Start, Resume, Cancel, SetStatus, TypeOK, rowVars, Working
  <2> QED
    BY <1>1, <1>2, <2>1 DEF Create, Start, Resume, Cancel
<1>3. CASE ApiStep
  <2>1. status'[r] = status[r]
    BY <1>3 DEF ApiStep, Submit, StartSave, Signal, SetStatus, TypeOK, rowVars, Working
  <2> QED
    BY <1>1, <1>3, <2>1 DEF ApiStep, Submit, StartSave, Signal
<1>4. CASE Take
  <2>1. worker.job = 0 /\ up /\ boots = 1 /\ status[r] \in Working
    BY <1>4 DEF Take, Reach, ShapeInv, rowVars
  <2> QED
    BY <2>1 DEF WorkingRunHasThread
<1>5. CASE Work
  <2>1. WorkStep /\ worker.pc # "resting" /\ up /\ boots = 1 /\ owner' = owner
    BY <1>5, WorkIsStep DEF WorkStep
  <2>2. r = This
    BY <2>1 DEF WorkStep, WorkingRunHasThread
  <2>3. worker' # Resting
    <3>1. worker' = Resting => status'[This] \in {"cancelled", "failed"} \/ (worker.pc = "last" /\ status' = status)
      BY <2>1, IdleFacts DEF WorkStep
    <3> QED
      BY <2>1, <2>2, <3>1 DEF WorkInv, Working
  <2>4. worker'.job = worker.job
    BY <2>1, <2>3 DEF WorkStep
  <2> QED
    BY <2>1, <2>2, <2>4, ThisKept, ThisType
<1>6. CASE Exit
  BY <1>6 DEF Exit
<1>7. CASE Restart
  <2>1. boots' # 1
    BY <1>7 DEF Restart, TypeOK
  <2> QED
    BY <2>1
<1>8. CASE UNCHANGED vars
  BY <1>1, <1>8 DEF vars, rowVars
<1> QED
  BY <1>2, <1>3, <1>4, <1>5, <1>6, <1>7, <1>8 DEF Next

LEMMA CompletedNext ==
    TypeOK /\ ShapeInv /\ WorkInv /\ CompletedHasAdapter /\ [Next]_vars => CompletedHasAdapter'
<1> SUFFICES ASSUME TypeOK, ShapeInv, WorkInv, CompletedHasAdapter, [Next]_vars,
                    NEW r \in Runs, status'[r] = "completed"
             PROVE  adapter'[r] /\ target'[r] /\ last'[r]
  BY DEF CompletedHasAdapter
<1>1. ASSUME status[r] = "completed", UNCHANGED <<adapter, target, last>>
      PROVE  adapter'[r] /\ target'[r] /\ last'[r]
  BY <1>1 DEF CompletedHasAdapter
<1>2. CASE \E q \in Runs : Create(q) \/ Start(q) \/ Resume(q) \/ Cancel(q)
  BY <1>1, <1>2 DEF Create, Start, Resume, Cancel, SetStatus, TypeOK, rowVars
<1>3. CASE ApiStep
  BY <1>1, <1>3 DEF ApiStep, Submit, StartSave, Signal, SetStatus, TypeOK, rowVars
<1>4. CASE Take \/ Exit \/ Restart \/ UNCHANGED vars
  BY <1>1, <1>4 DEF Take, Exit, Restart, vars, rowVars
<1>5. CASE Work
  <2>1. WorkStep /\ worker.pc # "resting" /\ This \in Runs
    BY <1>5, WorkIsStep, ThisType DEF WorkStep
  <2>2. (last[r] => last'[r]) /\ (adapter[r] => adapter'[r]) /\ (target[r] => target'[r])
    BY <2>1 DEF WorkStep
  <2>3. CASE status[r] = "completed"
    BY <2>2, <2>3 DEF CompletedHasAdapter
  <2>4. CASE status[r] # "completed"
    <3>1. r = This /\ status'[r] # status[r]
      BY <2>1, <2>4 DEF WorkStep
    <3>2. CASE Complete
      <4>1. adapter'[r] /\ target[r] /\ last[r]
        BY <3>1, <3>2, <2>1 DEF Complete, Reach, WorkInv, TypeOK
      <4> QED
        BY <4>1, <2>2
    <3>3. CASE CheckpointSave
      <4>1. worker.seen = "completed" /\ worker.pc = "saving"
        BY <3>1, <3>3, <2>1 DEF CheckpointSave, Reach, SetStatus, TypeOK
      <4> QED
        BY <4>1, <3>1, <2>2 DEF WorkInv
    <3>4. CASE ~Complete /\ ~CheckpointSave
      BY <1>5, <3>1, <3>4, <2>1 DEF Work, Begin, Prepare, Run, Train, Trained, CheckpointRead, CheckpointDone,
         Register, LastUpdate, Stop, Fail, SetStatus, TypeOK, rowVars
    <3> QED
      BY <3>2, <3>3, <3>4
  <2> QED
    BY <2>3, <2>4
<1> QED
  BY <1>2, <1>3, <1>4, <1>5 DEF Next

-----------------------------------------------------------------------------
LEMMA InitInv == Init => IInv
<1> SUFFICES ASSUME Init PROVE IInv
  OBVIOUS
<1>1. 0 \in 0..MaxJobs /\ 1 \in 1..MaxBoots /\ "none" \in Status /\ Len(owner) = 0 /\ Len(queue) = 0
  BY FineTuneAssumption DEF Init, Status
<1>2. owner \in Seq(Runs) /\ queue \in Seq(Jobs) /\ Len(owner) <= MaxJobs
  BY <1>1, FineTuneAssumption DEF Init
<1>3. TypeOK
  BY <1>1, <1>2, IdleFacts DEF Init, TypeOK, WorkerPCs
<1>4. ShapeInv
  BY <1>1, IdleFacts DEF Init, ShapeInv
<1>5. WorkInv /\ OpenInv
  BY <1>1, IdleFacts DEF Init, WorkInv, OpenInv
<1>6. WorkingRunHasThread /\ CompletedHasAdapter /\ OneJobUnlessResumed
  BY <1>1 DEF Init, WorkingRunHasThread, CompletedHasAdapter, OneJobUnlessResumed, Working
<1> QED
  BY <1>3, <1>4, <1>5, <1>6 DEF IInv, RunRowsTell

LEMMA Inductive == Spec => []IInv
<1>1. IInv /\ [Next]_vars => IInv'
  BY TypeNext, WorkNext, OneJobNext, OpenNext, WorkingNext, CompletedNext DEF IInv, RunRowsTell
<1> QED
  BY <1>1, InitInv, PTL DEF Spec

\* The row of a run tells the truth to whoever starts, cancels or resumes it by
\* that row, for any runs, jobs, checkpoints and processes: in the first process
\* a working row has its thread, a completed one its adapter, and a run that was
\* never resumed never has two jobs.
THEOREM RowsTellTheTruth == Spec => []RunRowsTell
<1>1. IInv => RunRowsTell
  BY DEF IInv
<1> QED
  BY <1>1, Inductive, PTL
=============================================================================
