------------------------------ MODULE JobQueue ------------------------------
(***************************************************************************)
(* The in-process background job queue of LLM Studio: jobs/queue.py over   *)
(* the SQLite table of jobs/repository.py.                                 *)
(*                                                                         *)
(* Actors.  Every API handler is a coroutine that calls the queue without  *)
(* awaiting, on the one event-loop thread: `api` is that thread, and it    *)
(* runs one call of the queue at a time, to its end.  Each job type has an *)
(* executor whose threads run `_run`; those threads interleave with the    *)
(* event loop and with each other between any two accesses to the table,   *)
(* to the dictionary of cancel flags or to an Event.                       *)
(*                                                                         *)
(* One access is one action.  Two neighbouring accesses share one only     *)
(* where nothing another thread does in between can be told apart; each    *)
(* merge is justified at its action.  Of a row only the status is kept.    *)
(* The n-th submission of job j is the run <<j, n>>; its threading.Event   *)
(* is named by it.                                                         *)
(***************************************************************************)
EXTENDS Naturals, Sequences, FiniteSets

CONSTANTS
    Jobs,         \* job ids; an id is drawn once and never again
    Pools,        \* the executors
    PoolOf,       \* the executor that serves a job's type
    PoolSize,     \* max_workers of each executor
    MaxAttempts,  \* bound: submissions of one id (1 + retries)
    MaxBoots      \* bound: processes started one after the other

ASSUME JobsAssumption == Jobs # {}
ASSUME PoolAssumption == PoolOf \in [Jobs -> Pools] /\ PoolSize \in [Pools -> Nat \ {0}]
ASSUME BoundAssumption == MaxAttempts \in Nat \ {0} /\ MaxBoots \in Nat \ {0}

Attempts == 1..MaxAttempts
Runs == Jobs \X Attempts

Terminal == {"succeeded", "failed", "cancelled", "interrupted"}
Active == {"pending", "running", "cancelling"}
Absent == "absent"
Status == Terminal \cup Active \cup {Absent}

\* A run waits in its executor's queue, executes its handler, is between the
\* read and the write of update(), has left the handler and must still write
\* its final status, or has written it and must still pop its flag.
Executing == {"handler", "updating", "succeeded", "failed", "cancelled"}
Holding == Executing \cup {"popping"}
PCs == {"unborn", "queued", "done", "lost"} \cup Holding

Calls == {"idle", "resubmit", "delete", "enqueue", "cancelFlag", "cancelSave",
          "mergeRead", "mergeSave", "flagAll", "dropQueues", "drain"}

VARIABLES
    up,        \* a process exists
    boots,     \* processes started so far
    closed,    \* JobQueue._closed
    row,       \* status column of the jobs table, Absent without a row
    attempts,  \* submissions of each id so far
    flag,      \* JobQueue._cancel_flags: the run whose Event is registered, 0 if none
    set,       \* the Events that are set
    pc,        \* where each run stands
    seen,      \* what a run's update() read
    queue,     \* work queue of each executor
    api,       \* the event loop's current call
    merged     \* history: jobs cancelled through the download route since they
               \* were last accepted by this process

vars == <<up, boots, closed, row, attempts, flag, set, pc, seen, queue, api, merged>>

ApiCalls == [call : Calls, job : Jobs, seen : Status, todo : SUBSET Jobs, keys : SUBSET Jobs]
Idle == [call |-> "idle", job |-> CHOOSE j \in Jobs : TRUE, seen |-> Absent, todo |-> {}, keys |-> {}]
Call(c, j, s) == [Idle EXCEPT !.call = c, !.job = j, !.seen = s]

Init ==
    /\ up = TRUE
    /\ boots = 1
    /\ closed = FALSE
    /\ row = [j \in Jobs |-> Absent]
    /\ attempts = [j \in Jobs |-> 0]
    /\ flag = [j \in Jobs |-> 0]
    /\ set = {}
    /\ pc = [r \in Runs |-> "unborn"]
    /\ seen = [r \in Runs |-> Absent]
    /\ queue = [p \in Pools |-> <<>>]
    /\ api = Idle
    /\ merged = {}

Registered == {j \in Jobs : flag[j] # 0}
Busy(p) == {r \in Runs : PoolOf[r[1]] = p /\ pc[r] \in Holding}
Quiet == \A r \in Runs : pc[r] \notin Holding \cup {"queued"}

-----------------------------------------------------------------------------
(* The event loop.                                                         *)

\* (Mutant) The Event of an earlier run is kept, as with dict.setdefault.
MutAccept(j) ==
    /\ row' = [row EXCEPT ![j] = "pending"]
    /\ attempts' = [attempts EXCEPT ![j] = @ + 1]
    /\ flag' = [flag EXCEPT ![j] = IF @ # 0 THEN @ ELSE attempts[j] + 1]
    /\ api' = Call("enqueue", j, Absent)
    /\ merged' = merged \ {j}
    /\ UNCHANGED <<up, boots, closed, set, pc, seen, queue>>

\* The block of submit() or resubmit() under the lock: the row is saved as
\* pending and a fresh Event registered.  Only a run's final pop touches the
\* dictionary from another thread, and it commutes with the save.
Accept(j) ==
    /\ row' = [row EXCEPT ![j] = "pending"]
    /\ attempts' = [attempts EXCEPT ![j] = @ + 1]
    /\ flag' = [flag EXCEPT ![j] = attempts[j] + 1]
    /\ api' = Call("enqueue", j, Absent)
    /\ merged' = merged \ {j}
    /\ UNCHANGED <<up, boots, closed, set, pc, seen, queue>>

Submit(j) ==
    /\ up /\ api = Idle /\ ~closed
    /\ attempts[j] = 0
    /\ Accept(j)

\* A retry first reads the row (repository.get in the router) and passes that
\* object on; resubmit() checks the object, not the row.
ResubmitRead(j) ==
    /\ up /\ api = Idle
    /\ row[j] # Absent
    /\ api' = Call("resubmit", j, row[j])
    /\ UNCHANGED <<up, boots, closed, row, attempts, flag, set, pc, seen, queue, merged>>

\* (Mutant) Any row but a waiting one can be resubmitted.
MutResubmittable(status) == status # "pending"

Resubmittable(status) == status \in Terminal

ResubmitAccepted ==
    /\ up /\ api.call = "resubmit" /\ ~closed
    /\ Resubmittable(api.seen)
    /\ attempts[api.job] < MaxAttempts
    /\ Accept(api.job)

\* A call that raises before it writes anything.
Refuse ==
    /\ up
    /\ \/ api.call = "resubmit" /\ (closed \/ ~Resubmittable(api.seen) \/ attempts[api.job] = MaxAttempts)
       \/ api.call = "delete" /\ api.seen \notin Terminal
    /\ api' = Idle
    /\ UNCHANGED <<up, boots, closed, row, attempts, flag, set, pc, seen, queue, merged>>

\* executor.submit(self._run, ...), after the lock is released.
Enqueue ==
    /\ up /\ api.call = "enqueue"
    /\ LET r == <<api.job, attempts[api.job]>>
           p == PoolOf[api.job]
       IN  /\ pc' = [pc EXCEPT ![r] = "queued"]
           /\ queue' = [queue EXCEPT ![p] = Append(@, r)]
    /\ api' = Idle
    /\ UNCHANGED <<up, boots, closed, row, attempts, flag, set, seen, merged>>

Cancellable(status) == status \notin Terminal \cup {Absent}

CancelRead(j) ==
    /\ up /\ api = Idle
    /\ Cancellable(row[j])
    /\ api' = Call("cancelFlag", j, row[j])
    /\ UNCHANGED <<up, boots, closed, row, attempts, flag, set, pc, seen, queue, merged>>

\* The lookup and Event.set(): a pop in between leaves the Event reachable
\* only from a run that is over.
CancelFlag ==
    /\ up /\ api.call = "cancelFlag"
    /\ set' = IF flag[api.job] # 0 THEN set \cup {<<api.job, flag[api.job]>>} ELSE set
    /\ api' = Call("cancelSave", api.job, api.seen)
    /\ UNCHANGED <<up, boots, closed, row, attempts, flag, pc, seen, queue, merged>>

\* The row read before the flag was set is written back as cancelling.  The
\* generic routes return the job; DownloadManager.cancel_job, which looks at
\* no job type, goes on with its own _merge_payload.
CancelSave ==
    /\ up /\ api.call = "cancelSave"
    /\ row' = IF api.seen # "cancelling" THEN [row EXCEPT ![api.job] = "cancelling"] ELSE row
    /\ \/ api' = Idle /\ UNCHANGED merged
       \/ api' = Call("mergeRead", api.job, Absent) /\ merged' = merged \cup {api.job}
    /\ UNCHANGED <<up, boots, closed, attempts, flag, set, pc, seen, queue>>

\* _merge_payload on the event loop: the row is read again, ...
MergeRead ==
    /\ up /\ api.call = "mergeRead"
    /\ api' = Call("mergeSave", api.job, row[api.job])
    /\ UNCHANGED <<up, boots, closed, row, attempts, flag, set, pc, seen, queue, merged>>

\* ... and saved whole, the status that was read included.
MergeSave ==
    /\ up /\ api.call = "mergeSave"
    /\ row' = [row EXCEPT ![api.job] = api.seen]
    /\ api' = Idle
    /\ UNCHANGED <<up, boots, closed, attempts, flag, set, pc, seen, queue, merged>>

\* DELETE /v1/downloads/{job_id}: the read that is checked, then the delete.
DeleteRead(j) ==
    /\ up /\ api = Idle
    /\ row[j] # Absent
    /\ api' = Call("delete", j, row[j])
    /\ UNCHANGED <<up, boots, closed, row, attempts, flag, set, pc, seen, queue, merged>>

\* (Mutant) The status is not checked.
MutDelete ==
    /\ up /\ api.call = "delete"
    /\ row' = [row EXCEPT ![api.job] = Absent]
    /\ api' = Idle
    /\ UNCHANGED <<up, boots, closed, attempts, flag, set, pc, seen, queue, merged>>

Delete ==
    /\ up /\ api.call = "delete"
    /\ api.seen \in Terminal
    /\ row' = [row EXCEPT ![api.job] = Absent]
    /\ api' = Idle
    /\ UNCHANGED <<up, boots, closed, attempts, flag, set, pc, seen, queue, merged>>

\* shutdown(wait): _closed is set; wait=False goes on to the flags, wait=True
\* to the executors, which then finish everything they hold.
Shutdown(wait) ==
    /\ up /\ api = Idle /\ ~closed
    /\ closed' = TRUE
    /\ api' = IF wait THEN [Idle EXCEPT !.call = "drain"]
                      ELSE [Idle EXCEPT !.call = "flagAll", !.todo = Registered, !.keys = Registered]
    /\ UNCHANGED <<up, boots, row, attempts, flag, set, pc, seen, queue, merged>>

\* One turn of `for flag in self._cancel_flags.values()`.
ShutdownFlag ==
    /\ up /\ api.call = "flagAll"
    /\ Registered = api.keys
    /\ \E j \in api.todo :
         /\ set' = set \cup {<<j, flag[j]>>}
         /\ api' = [api EXCEPT !.todo = @ \ {j}]
    /\ UNCHANGED <<up, boots, closed, row, attempts, flag, pc, seen, queue, merged>>

ShutdownFlagsDone ==
    /\ up /\ api.call = "flagAll"
    /\ Registered = api.keys /\ api.todo = {}
    /\ api' = [Idle EXCEPT !.call = "dropQueues"]
    /\ UNCHANGED <<up, boots, closed, row, attempts, flag, set, pc, seen, queue, merged>>

\* A worker popped its flag during the iteration: the dictionary changed its
\* size and the next turn raises RuntimeError, so shutdown() ends before it
\* reaches the executors.
ShutdownAborts ==
    /\ up /\ api.call = "flagAll"
    /\ Registered # api.keys
    /\ api' = Idle
    /\ UNCHANGED <<up, boots, closed, row, attempts, flag, set, pc, seen, queue, merged>>

\* (Mutant) The tasks are taken off the queue and their futures forgotten.
MutDropQueue ==
    /\ up /\ api.call = "dropQueues"
    /\ \E p \in Pools : queue[p] # <<>> /\ queue' = [queue EXCEPT ![p] = <<>>]
    /\ UNCHANGED <<up, boots, closed, row, attempts, flag, set, pc, seen, api, merged>>

\* executor.shutdown(cancel_futures=True), one executor after the other: a
\* task still queued is cancelled and _run never sees it.
DropQueue ==
    /\ up /\ api.call = "dropQueues"
    /\ \E p \in Pools :
         /\ queue[p] # <<>>
         /\ queue' = [queue EXCEPT ![p] = <<>>]
         /\ pc' = [r \in Runs |-> IF PoolOf[r[1]] = p /\ pc[r] = "queued" THEN "lost" ELSE pc[r]]
    /\ UNCHANGED <<up, boots, closed, row, attempts, flag, set, seen, api, merged>>

ShutdownReturns ==
    /\ up
    /\ \/ api.call = "dropQueues" /\ \A p \in Pools : queue[p] = <<>>
       \/ api.call = "drain" /\ Quiet
    /\ api' = Idle
    /\ UNCHANGED <<up, boots, closed, row, attempts, flag, set, pc, seen, queue, merged>>

-----------------------------------------------------------------------------
(* The executor threads: _run(job, handler, cancel_flag) of run r.         *)

\* (Mutant) A thread starts nothing once the queue is closed.
MutStart(p) ==
    /\ up /\ ~closed /\ queue[p] # <<>>
    /\ Cardinality(Busy(p)) < PoolSize[p]
    /\ pc' = [pc EXCEPT ![Head(queue[p])] = "handler"]
    /\ row' = [row EXCEPT ![Head(queue[p])[1]] = "running"]
    /\ queue' = [queue EXCEPT ![p] = Tail(@)]
    /\ UNCHANGED <<up, boots, closed, attempts, flag, set, seen, api, merged>>

\* A free thread takes the oldest task and saves the row as running, built
\* from the object captured at submission.  Taking the task and saving touch
\* nothing that a third step could change in between but the queue itself.
Start(p) ==
    /\ up /\ queue[p] # <<>>
    /\ Cardinality(Busy(p)) < PoolSize[p]
    /\ LET r == Head(queue[p])
       IN  /\ pc' = [pc EXCEPT ![r] = "handler"]
           /\ row' = [row EXCEPT ![r[1]] = "running"]
    /\ queue' = [queue EXCEPT ![p] = Tail(@)]
    /\ UNCHANGED <<up, boots, closed, attempts, flag, set, seen, api, merged>>

\* (Mutant) update() builds on the job captured at submission.
MutUpdateRead(r) ==
    /\ up /\ pc[r] = "handler"
    /\ IF r \in set
       THEN pc' = [pc EXCEPT ![r] = "cancelled"] /\ UNCHANGED seen
       ELSE pc' = [pc EXCEPT ![r] = "updating"] /\ seen' = [seen EXCEPT ![r] = "pending"]
    /\ UNCHANGED <<up, boots, closed, row, attempts, flag, set, queue, api, merged>>

\* update(): the read and the test of the Event.  A read before and a test
\* after the Event is set ends like both after it, for the read is dropped.
UpdateRead(r) ==
    /\ up /\ pc[r] = "handler"
    /\ IF row[r[1]] = Absent
       THEN pc' = [pc EXCEPT ![r] = "failed"] /\ UNCHANGED seen
       ELSE IF r \in set
       THEN pc' = [pc EXCEPT ![r] = "cancelled"] /\ UNCHANGED seen
       ELSE pc' = [pc EXCEPT ![r] = "updating"] /\ seen' = [seen EXCEPT ![r] = row[r[1]]]
    /\ UNCHANGED <<up, boots, closed, row, attempts, flag, set, queue, api, merged>>

\* The _merge_payload of a download's handler (progress, registration) reads
\* and saves in the same way, but never looks at the Event.
ReportRead(r) ==
    /\ up /\ pc[r] = "handler"
    /\ IF row[r[1]] = Absent
       THEN pc' = [pc EXCEPT ![r] = "failed"] /\ UNCHANGED seen
       ELSE pc' = [pc EXCEPT ![r] = "updating"] /\ seen' = [seen EXCEPT ![r] = row[r[1]]]
    /\ UNCHANGED <<up, boots, closed, row, attempts, flag, set, queue, api, merged>>

\* The write of what was read, its status included.
UpdateSave(r) ==
    /\ up /\ pc[r] = "updating"
    /\ row' = [row EXCEPT ![r[1]] = seen[r]]
    /\ seen' = [seen EXCEPT ![r] = Absent]
    /\ pc' = [pc EXCEPT ![r] = "handler"]
    /\ UNCHANGED <<up, boots, closed, attempts, flag, set, queue, api, merged>>

\* The handler returns, fails, or notices its Event itself and raises
\* JobCancelledError.
HandlerEnds(r) ==
    /\ up /\ pc[r] = "handler"
    /\ \E outcome \in {"succeeded", "failed", "cancelled"} :
         /\ outcome = "cancelled" => r \in set
         /\ pc' = [pc EXCEPT ![r] = outcome]
    /\ UNCHANGED <<up, boots, closed, row, attempts, flag, set, seen, queue, api, merged>>

\* The final write: the status is replaced whatever was read.  Without a row
\* the read raises JobNotFoundError and nothing is written.
Finish(r) ==
    /\ up /\ pc[r] \in {"succeeded", "failed", "cancelled"}
    /\ row' = IF row[r[1]] = Absent THEN row ELSE [row EXCEPT ![r[1]] = pc[r]]
    /\ pc' = [pc EXCEPT ![r] = "popping"]
    /\ UNCHANGED <<up, boots, closed, attempts, flag, set, seen, queue, api, merged>>

\* finally: _cancel_flags.pop(job.id), whichever run registered the entry.
Pop(r) ==
    /\ up /\ pc[r] = "popping"
    /\ flag' = [flag EXCEPT ![r[1]] = 0]
    /\ pc' = [pc EXCEPT ![r] = "done"]
    /\ UNCHANGED <<up, boots, closed, row, attempts, set, seen, queue, api, merged>>

Work(r) == UpdateRead(r) \/ ReportRead(r) \/ UpdateSave(r) \/ HandlerEnds(r) \/ Finish(r) \/ Pop(r)

-----------------------------------------------------------------------------
(* The process.                                                            *)

\* The process ends: at any time when it is killed, after shutdown() once the
\* executors' threads are joined.  The table is all that is left.
Exit ==
    /\ up
    /\ up' = FALSE
    /\ closed' = FALSE
    /\ flag' = [j \in Jobs |-> 0]
    /\ set' = {}
    /\ pc' = [r \in Runs |-> IF pc[r] \in {"unborn", "done"} THEN pc[r] ELSE "lost"]
    /\ seen' = [r \in Runs |-> Absent]
    /\ queue' = [p \in Pools |-> <<>>]
    /\ api' = Idle
    /\ merged' = {}
    /\ UNCHANGED <<boots, row, attempts>>

\* (Mutant) Only the rows that were being cancelled are recovered.
MutInterrupted(status) == IF status = "cancelling" THEN "interrupted" ELSE status

\* JobRepository.__init__ of the next process: mark_running_interrupted.
Interrupted(status) == IF status \in {"running", "cancelling"} THEN "interrupted" ELSE status

Restart ==
    /\ ~up /\ boots < MaxBoots
    /\ up' = TRUE
    /\ boots' = boots + 1
    /\ row' = [j \in Jobs |-> Interrupted(row[j])]
    /\ UNCHANGED <<closed, attempts, flag, set, pc, seen, queue, api, merged>>

-----------------------------------------------------------------------------
ApiStep == Enqueue \/ ResubmitAccepted \/ Refuse \/ CancelFlag \/ CancelSave \/ MergeRead \/ MergeSave \/ Delete
           \/ ShutdownFlag \/ ShutdownFlagsDone \/ ShutdownAborts \/ DropQueue \/ ShutdownReturns

Request == \/ \E j \in Jobs : Submit(j) \/ ResubmitRead(j) \/ CancelRead(j) \/ DeleteRead(j)
           \/ \E wait \in BOOLEAN : Shutdown(wait)

Next == Request \/ ApiStep \/ (\E p \in Pools : Start(p)) \/ (\E r \in Runs : Work(r)) \/ Exit \/ Restart

Spec == Init /\ [][Next]_vars

\* The event loop finishes the call it is in; threads run; a handler does not
\* run for ever.  Nothing is assumed of requests or of the process's end.
Fairness ==
    /\ WF_vars(ApiStep)
    /\ \A p \in Pools : WF_vars(Start(p))
    /\ \A r \in Runs : WF_vars(UpdateSave(r)) /\ SF_vars(HandlerEnds(r)) /\ WF_vars(Finish(r)) /\ WF_vars(Pop(r))

LiveSpec == Spec /\ Fairness

-----------------------------------------------------------------------------
(* What the queue promises.                                                *)

\* A run is live from its acceptance to the write of its final status.
Live(r) == \/ pc[r] \in Executing \cup {"queued"}
           \/ api.call = "enqueue" /\ r = <<api.job, attempts[api.job]>>

\* Every variable stays in its domain, and only accepted runs have started.
TypeOK ==
    /\ up \in BOOLEAN
    /\ boots \in 1..MaxBoots
    /\ closed \in BOOLEAN
    /\ row \in [Jobs -> Status]
    /\ attempts \in [Jobs -> 0..MaxAttempts]
    /\ flag \in [Jobs -> 0..MaxAttempts]
    /\ set \in SUBSET Runs
    /\ pc \in [Runs -> PCs]
    /\ seen \in [Runs -> Status]
    /\ queue \in [Pools -> Seq(Runs)]
    /\ api \in ApiCalls
    /\ merged \in SUBSET Jobs

\* A row that shows an end, or no row, means that no run of the job can still
\* write: the retry and the delete that rely on a terminal status never meet
\* a live run, although they act on a row read earlier (queue.py:64, the
\* delete handler of downloads.py) and although cancel() and update() write
\* back stale rows.
EndedRowIsAtRest ==
    up => \A r \in Runs : Live(r) => row[r[1]] \in Active

\* No two runs of one job are live at once, whatever the interleaving of a
\* retry with the tail of the previous run.
OneLiveRun ==
    \A q, r \in Runs : q[1] = r[1] /\ Live(q) /\ Live(r) => q = r

\* While a process is up a row says running only if a thread executes its
\* job, whatever order update(), cancel(), retries, deletes, final writes and
\* restarts come in: no stale save outlives the run it was made for.  Only the
\* merge of the download route (manager.py:98) breaks this, and only until the
\* job is accepted again or the process ends: it can read running after a
\* worker's stale progress and save that over the worker's final status.
RunningRowHasRun ==
    up => \A j \in Jobs \ merged : row[j] = "running" => \E n \in Attempts : pc[<<j, n>>] \in Executing

\* A row says pending only if its run waits for a thread, in a process that has
\* not begun to shut down and whose rows are all its own: no stale write of
\* update() or cancel() brings a started job back to pending.
PendingRowIsScheduled ==
    up /\ boots = 1 /\ ~closed =>
        \A j \in Jobs : row[j] = "pending" =>
            \E n \in Attempts : Live(<<j, n>>) /\ pc[<<j, n>>] \notin Executing

\* A cancel that was accepted reaches its run: once the row says cancelling
\* the Event of the job's live run is set, for a job that was never retried
\* (a retry can lose its Event to the previous run's final pop).
AcceptedCancelIsSignalled ==
    \A j \in Jobs : row[j] = "cancelling" /\ up /\ Live(<<j, 1>>) => <<j, 1>> \in set

\* The registered Event is never that of an earlier run: a cancel cannot be
\* spent on a run that is over while a newer one is live.
RegisteredIsLatest ==
    \A j \in Jobs : flag[j] \in {0, attempts[j]}

\* Every accepted run leaves its executor, executed or dropped: FIFO queues,
\* finite handlers and a bounded number of threads starve nobody.
EveryRunEnds ==
    \A r \in Runs : Live(r) ~> ~Live(r)

\* The event loop returns from every call, shutdown(wait=True) included.
EveryCallReturns == (api # Idle) ~> (api = Idle)

\* A cancel that was accepted reaches the run it was meant for: the Event it
\* sets is registered for the latest run, and is that of the live run whose row
\* says cancelling (queue.py:56-72 against the pop at the end of _run).
CancelReachesItsRun == RegisteredIsLatest /\ AcceptedCancelIsSignalled
=============================================================================
