--------------------------- MODULE JobQueueProofs ---------------------------
(***************************************************************************)
(* Proofs about JobQueue: type correctness; that a row showing an end (or  *)
(* no row) belongs to a job without a live run, so that at most one run of *)
(* a job is ever live; that a running row has a thread and a pending one   *)
(* is still scheduled; and that an accepted cancel reaches its run.        *)
(*                                                                         *)
(* The inductive invariant adds what the executors and the event loop rely *)
(* on: queued tasks are runs that wait, each once; only the latest run of  *)
(* a job is live; a terminal status read by a retry, a delete or a merge   *)
(* still holds; an update() under way read an active row.                  *)
(***************************************************************************)
EXTENDS JobQueue, TLAPS

\* Queued tasks wait, in the queue of their own executor, each once.
QueueInv ==
    \A p \in Pools :
        /\ \A i \in 1..Len(queue[p]) : pc[queue[p][i]] = "queued" /\ PoolOf[queue[p][i][1]] = p
        /\ \A i, k \in 1..Len(queue[p]) : queue[p][i] = queue[p][k] => i = k

\* Runs are numbered by acceptance; the one about to be enqueued is new; the
\* flags a shutdown still has to set were registered when it began.
AttemptInv ==
    /\ api.todo \subseteq api.keys
    /\ \A r \in Runs : pc[r] # "unborn" => r[2] <= attempts[r[1]]
    /\ api.call = "enqueue" => /\ attempts[api.job] \in Attempts
                               /\ pc[<<api.job, attempts[api.job]>>] = "unborn"

\* Only the latest run is live, and then its row is active.
LiveInv == \A r \in Runs : Live(r) => r[2] = attempts[r[1]] /\ row[r[1]] \in Active

\* What was read and is still going to be used.
ReadInv ==
    /\ \A r \in Runs : pc[r] = "updating" => seen[r] \in Active
    /\ api.call \in {"resubmit", "delete"} /\ api.seen \in Terminal => row[api.job] \in Terminal
    /\ api.call = "mergeSave" /\ api.seen \notin Active => row[api.job] \notin Active

\* Only a cancel of the download route goes on to the merge, and it is noted.
MergeInv == api.call \in {"mergeRead", "mergeSave"} => api.job \in merged

\* What cancel() and the merge save over a row is not pending.
SavedInv ==
    /\ api.call \in {"cancelFlag", "cancelSave"} /\ api.seen = "cancelling" => row[api.job] # "pending"
    /\ api.call = "mergeRead" => row[api.job] # "pending"
    /\ api.call = "mergeSave" => api.seen # "pending"

\* Between two processes nothing is held.
DownInv == ~up => api = Idle /\ \A r \in Runs : pc[r] \in {"unborn", "done", "lost"}

\* The cancel signal of a job's first run, on its way from the flag to the row:
\* while that run is live its Event is the registered one, it is set before
\* cancel() writes its row back, and it is set where a thread's or the event
\* loop's save of a row that was cancelling is still to come.
SignalInv ==
    /\ RegisteredIsLatest
    /\ \A j \in Jobs : up /\ Live(<<j, 1>>) =>
         /\ flag[j] = 1
         /\ row[j] = "cancelling" => <<j, 1>> \in set
         /\ api.call = "cancelSave" /\ api.job = j => <<j, 1>> \in set
         /\ api.call = "mergeSave" /\ api.job = j /\ api.seen = "cancelling" => <<j, 1>> \in set
         /\ pc[<<j, 1>>] = "updating" /\ seen[<<j, 1>>] = "cancelling" => <<j, 1>> \in set

\* A run that has started is not pending, in its row or in what its update()
\* read; the queues are dropped only by a shutdown.
ScheduleInv ==
    /\ \A r \in Runs :
         /\ pc[r] \in Executing => row[r[1]] # "pending"
         /\ pc[r] = "updating" => seen[r] # "pending"
    /\ api.call \in {"flagAll", "dropQueues", "drain"} => closed
    /\ PendingRowIsScheduled

IInv == TypeOK /\ QueueInv /\ AttemptInv /\ LiveInv /\ ReadInv /\ DownInv /\ RunningRowHasRun
        /\ SignalInv /\ ScheduleInv /\ MergeInv /\ SavedInv

-----------------------------------------------------------------------------
LEMMA CallType ==
    /\ Idle \in ApiCalls /\ Idle.call = "idle"
    /\ \A c \in Calls, j \in Jobs, s \in Status :
         /\ Call(c, j, s) \in ApiCalls
         /\ Call(c, j, s).call = c /\ Call(c, j, s).job = j /\ Call(c, j, s).seen = s
<1>1. (CHOOSE j \in Jobs : TRUE) \in Jobs
  BY JobsAssumption
<1>2. Idle \in ApiCalls /\ Idle.call = "idle"
  BY <1>1 DEF Idle, ApiCalls, Calls, Status
<1>3. ASSUME NEW c \in Calls, NEW j \in Jobs, NEW s \in Status
      PROVE  /\ Call(c, j, s) \in ApiCalls
             /\ Call(c, j, s).call = c /\ Call(c, j, s).job = j /\ Call(c, j, s).seen = s
  <2>1. [Idle EXCEPT !.call = c, !.job = j, !.seen = s] \in ApiCalls
    BY <1>2 DEF ApiCalls
  <2> QED
    BY <2>1, <1>2 DEF ApiCalls, Call
<1> QED
  BY <1>2, <1>3

\* Where the event loop stands after the saves and the read of a cancel.
LEMMA MergeFacts ==
    ASSUME TypeOK
    PROVE  /\ CancelSave => /\ api' \in ApiCalls /\ api'.todo = {} /\ api'.call \in {"idle", "mergeRead"}
                            /\ api'.call = "mergeRead" => api'.job = api.job /\ merged' = merged \cup {api.job}
           /\ MergeRead => /\ api' \in ApiCalls /\ api'.todo = {} /\ api'.call = "mergeSave"
                           /\ api'.job = api.job /\ api'.seen = row[api.job]
           /\ MergeSave => api' = Idle /\ api'.call = "idle" /\ api'.todo = {}
<1>1. api.job \in Jobs /\ row[api.job] \in Status /\ Absent \in Status
  BY DEF TypeOK, ApiCalls, Status
<1>2. Idle.todo = {} /\ \A c \in Calls, j \in Jobs, s \in Status : Call(c, j, s).todo = {}
  BY DEF Idle, Call
<1>3. CancelSave => api' = Idle \/ (api' = Call("mergeRead", api.job, Absent) /\ merged' = merged \cup {api.job})
  BY DEF CancelSave
<1>4. MergeRead => api' = Call("mergeSave", api.job, row[api.job])
  BY DEF MergeRead
<1>5. MergeSave => api' = Idle
  BY DEF MergeSave
<1>6. "mergeRead" \in Calls /\ "mergeSave" \in Calls
  BY DEF Calls
<1> QED
  BY <1>1, <1>2, <1>3, <1>4, <1>5, <1>6, CallType

LEMMA TypeInit == Init => TypeOK
<1> SUFFICES ASSUME Init PROVE TypeOK
  OBVIOUS
<1>0. 0 \in 0..MaxAttempts /\ 1 \in 1..MaxBoots
  BY BoundAssumption
<1>1. /\ up \in BOOLEAN /\ boots \in 1..MaxBoots /\ closed \in BOOLEAN
      /\ attempts \in [Jobs -> 0..MaxAttempts] /\ flag \in [Jobs -> 0..MaxAttempts]
  BY <1>0 DEF Init
<1>2. row \in [Jobs -> Status] /\ set \in SUBSET Runs /\ seen \in [Runs -> Status]
  BY DEF Init, Status
<1>3. pc \in [Runs -> PCs]
  BY DEF Init, PCs
<1>4. queue \in [Pools -> Seq(Runs)]
  BY DEF Init
<1>5. api \in ApiCalls /\ merged \in SUBSET Jobs
  BY CallType DEF Init
<1> QED
  BY <1>1, <1>2, <1>3, <1>4, <1>5 DEF TypeOK

LEMMA TypeNext == TypeOK /\ AttemptInv /\ [Next]_vars => TypeOK'
<1> SUFFICES ASSUME TypeOK, AttemptInv, [Next]_vars PROVE TypeOK'
  OBVIOUS
<1> USE DEF TypeOK
<1>1. ASSUME NEW j \in Jobs, Submit(j) PROVE TypeOK'
  <2>1. api' \in ApiCalls
    BY <1>1, CallType DEF Submit, Accept, Calls, Status
  <2>2. attempts'[j] \in 0..MaxAttempts /\ attempts[j] + 1 \in 0..MaxAttempts
    BY <1>1, BoundAssumption DEF Submit, Accept
  <2> QED
    BY <1>1, <2>1, <2>2 DEF Submit, Accept, Status, Active
<1>2. ASSUME NEW j \in Jobs, ResubmitRead(j) PROVE TypeOK'
  BY <1>2, CallType DEF ResubmitRead, Calls
<1>3. ASSUME NEW j \in Jobs, CancelRead(j) PROVE TypeOK'
  BY <1>3, CallType DEF CancelRead, Calls
<1>4. ASSUME NEW j \in Jobs, DeleteRead(j) PROVE TypeOK'
  BY <1>4, CallType DEF DeleteRead, Calls
<1>5. ASSUME NEW wait \in BOOLEAN, Shutdown(wait) PROVE TypeOK'
  <2>1. Registered \in SUBSET Jobs /\ Idle \in ApiCalls
    BY CallType DEF Registered
  <2>2. [Idle EXCEPT !.call = "drain"] \in ApiCalls
    BY <2>1 DEF ApiCalls, Calls
  <2>3. [Idle EXCEPT !.call = "flagAll", !.todo = Registered, !.keys = Registered] \in ApiCalls
    BY <2>1 DEF ApiCalls, Calls
  <2> QED
    BY <1>5, <2>2, <2>3 DEF Shutdown
<1>6. CASE Enqueue
  <2>1. <<api.job, attempts[api.job]>> \in Runs /\ PoolOf[api.job] \in Pools
    BY <1>6, PoolAssumption DEF Enqueue, AttemptInv, ApiCalls, Runs
  <2>2. Append(queue[PoolOf[api.job]], <<api.job, attempts[api.job]>>) \in Seq(Runs)
    BY <2>1
  <2> QED
    BY <1>6, <2>1, <2>2, CallType DEF Enqueue, PCs
<1>7. CASE ResubmitAccepted
  <2>1. api' \in ApiCalls
    BY <1>7, CallType DEF ResubmitAccepted, Accept, Calls, Status, ApiCalls
  <2>2. api.job \in Jobs /\ attempts[api.job] + 1 \in 0..MaxAttempts
    BY <1>7, BoundAssumption DEF ResubmitAccepted, ApiCalls
  <2> QED
    BY <1>7, <2>1, <2>2 DEF ResubmitAccepted, Accept, Status, Active
<1>8. CASE Refuse
  BY <1>8, CallType DEF Refuse
<1>9. CASE CancelFlag
  <2>1. api' \in ApiCalls
    BY <1>9, CallType DEF CancelFlag, Calls, ApiCalls
  <2>2. flag[api.job] # 0 => <<api.job, flag[api.job]>> \in Runs
    BY BoundAssumption DEF Runs, Attempts, ApiCalls
  <2> QED
    BY <1>9, <2>1, <2>2 DEF CancelFlag
<1>10. CASE CancelSave \/ MergeRead \/ MergeSave
  <2>1. api' \in ApiCalls /\ api.job \in Jobs /\ api.seen \in Status
    BY <1>10, MergeFacts, CallType DEF ApiCalls
  <2> QED
    BY <1>10, <2>1 DEF CancelSave, MergeRead, MergeSave, Status, Active
<1>11. CASE Delete
  BY <1>11, CallType DEF Delete, Status, ApiCalls
<1>12. CASE ShutdownFlag
  <2>1. PICK j \in api.todo : /\ set' = set \cup {<<j, flag[j]>>}
                              /\ api' = [api EXCEPT !.todo = @ \ {j}]
    BY <1>12, Zenon DEF ShutdownFlag
  <2>2. j \in Jobs /\ api' \in ApiCalls
    BY <2>1 DEF ApiCalls
  <2>3. <<j, flag[j]>> \in Runs
    <3>1. j \in Registered
      BY <1>12 DEF ShutdownFlag, AttemptInv
    <3>2. flag[j] \in 1..MaxAttempts
      BY <2>2, <3>1, BoundAssumption DEF Registered
    <3> QED
      BY <2>2, <3>2 DEF Runs, Attempts
  <2> QED
    BY <1>12, <2>1, <2>2, <2>3 DEF ShutdownFlag
<1>13. CASE ShutdownFlagsDone
  BY <1>13, CallType DEF ShutdownFlagsDone, ApiCalls, Calls
<1>14. CASE ShutdownAborts
  BY <1>14, CallType DEF ShutdownAborts
<1>15. CASE DropQueue
  BY <1>15 DEF DropQueue, PCs
<1>16. CASE ShutdownReturns
  BY <1>16, CallType DEF ShutdownReturns
<1>17. ASSUME NEW p \in Pools, Start(p) PROVE TypeOK'
  <2>1. Head(queue[p]) \in Runs /\ Tail(queue[p]) \in Seq(Runs)
    BY <1>17 DEF Start
  <2>2. Head(queue[p])[1] \in Jobs
    BY <2>1 DEF Runs
  <2> QED
    BY <1>17, <2>1, <2>2 DEF Start, PCs, Holding, Executing, Status, Active
<1>18. ASSUME NEW r \in Runs, Work(r) PROVE TypeOK'
  <2>0. r[1] \in Jobs
    BY DEF Runs
  <2>1. CASE UpdateRead(r) \/ ReportRead(r)
    BY <2>0, <2>1 DEF UpdateRead, ReportRead, PCs, Holding, Executing
  <2>2. CASE UpdateSave(r)
    BY <2>0, <2>2 DEF UpdateSave, PCs, Holding, Executing, Status
  <2>3. CASE HandlerEnds(r)
    BY <2>3 DEF HandlerEnds, PCs, Holding, Executing
  <2>4. CASE Finish(r)
    BY <2>0, <2>4 DEF Finish, PCs, Holding, Executing, Status, Terminal
  <2>5. CASE Pop(r)
    BY <2>0, <2>5, BoundAssumption DEF Pop, PCs
  <2> QED
    BY <1>18, <2>1, <2>2, <2>3, <2>4, <2>5 DEF Work
<1>19. CASE Exit
  <2>0. up' \in BOOLEAN /\ closed' \in BOOLEAN /\ set' \in SUBSET Runs
    BY <1>19 DEF Exit
  <2>1. flag' \in [Jobs -> 0..MaxAttempts] /\ seen' \in [Runs -> Status] /\ queue' \in [Pools -> Seq(Runs)]
    <3>1. 0 \in 0..MaxAttempts /\ Absent \in Status
      BY BoundAssumption DEF Status
    <3> QED
      BY <1>19, <3>1 DEF Exit
  <2>2. pc' \in [Runs -> PCs]
    BY <1>19 DEF Exit, PCs
  <2>3. api' \in ApiCalls /\ merged' \in SUBSET Jobs /\ UNCHANGED <<boots, row, attempts>>
    BY <1>19, CallType DEF Exit
  <2> QED
    BY <2>0, <2>1, <2>2, <2>3
<1>20. CASE Restart
  BY <1>20, BoundAssumption DEF Restart, Interrupted, Status, Terminal
<1>21. CASE UNCHANGED vars
  BY <1>21 DEF vars
<1> QED
  BY <1>1, <1>2, <1>3, <1>4, <1>5, <1>6, <1>7, <1>8, <1>9, <1>10, <1>11, <1>12, <1>13,
     <1>14, <1>15, <1>16, <1>17, <1>18, <1>19, <1>20, <1>21 DEF Next, Request, ApiStep

-----------------------------------------------------------------------------
(* The executors: only Enqueue puts a task in, and that run is new.        *)

LEMMA QueueNext == TypeOK /\ QueueInv /\ AttemptInv /\ [Next]_vars => QueueInv'
<1> SUFFICES ASSUME TypeOK, QueueInv, AttemptInv, [Next]_vars PROVE QueueInv'
  OBVIOUS
<1>1. CASE UNCHANGED <<pc, queue>>
  BY <1>1 DEF QueueInv
<1>2. CASE Enqueue
  <2> DEFINE r == <<api.job, attempts[api.job]>>
             q == PoolOf[api.job]
  <2>1. r \in Runs /\ q \in Pools /\ pc[r] = "unborn" /\ api.job \in Jobs
    BY <1>2, PoolAssumption DEF Enqueue, AttemptInv, TypeOK, ApiCalls, Runs
  <2>2. pc' = [pc EXCEPT ![r] = "queued"] /\ queue' = [queue EXCEPT ![q] = Append(@, r)]
    BY <1>2 DEF Enqueue
  <2>5. PoolOf[r[1]] = q
    OBVIOUS
  <2> HIDE DEF r, q
  <2>3. ASSUME NEW p \in Pools, p # q
        PROVE  /\ \A i \in 1..Len(queue'[p]) : pc'[queue'[p][i]] = "queued" /\ PoolOf[queue'[p][i][1]] = p
               /\ \A i, k \in 1..Len(queue'[p]) : queue'[p][i] = queue'[p][k] => i = k
    <3>1. queue'[p] = queue[p] /\ queue[p] \in Seq(Runs)
      BY <2>2, <2>3 DEF TypeOK
    <3>2. \A s \in Runs : pc[s] = "queued" => pc'[s] = "queued"
      BY <2>1, <2>2 DEF TypeOK
    <3>3. \A i \in 1..Len(queue[p]) : queue[p][i] \in Runs
      BY <3>1
    <3> QED
      BY <3>1, <3>2, <3>3 DEF QueueInv
  <2>4. /\ \A i \in 1..Len(queue'[q]) : pc'[queue'[q][i]] = "queued" /\ PoolOf[queue'[q][i][1]] = q
        /\ \A i, k \in 1..Len(queue'[q]) : queue'[q][i] = queue'[q][k] => i = k
    <3>1. queue[q] \in Seq(Runs) /\ queue'[q] = Append(queue[q], r)
      BY <2>1, <2>2 DEF TypeOK
    <3>2. /\ Len(queue'[q]) = Len(queue[q]) + 1
          /\ \A i \in 1..Len(queue[q]) : queue'[q][i] = queue[q][i] /\ queue[q][i] \in Runs
          /\ queue'[q][Len(queue[q]) + 1] = r
          /\ Len(queue[q]) \in Nat
      BY <3>1, <2>1
    <3>3. \A i \in 1..Len(queue[q]) : queue[q][i] # r
      BY <2>1 DEF QueueInv
    <3>4. \A i \in 1..Len(queue'[q]) : i \in 1..Len(queue[q]) \/ i = Len(queue[q]) + 1
      BY <3>2
    <3>5. pc'[r] = "queued" /\ PoolOf[r[1]] = q
      BY <2>1, <2>2, <2>5 DEF TypeOK
    <3>6. \A s \in Runs : s # r => pc'[s] = pc[s]
      BY <2>1, <2>2 DEF TypeOK
    <3>7. \A i \in 1..Len(queue[q]) : pc'[queue'[q][i]] = "queued" /\ PoolOf[queue'[q][i][1]] = q
      BY <3>2, <3>3, <3>6, <2>1 DEF QueueInv
    <3>8. \A i, k \in 1..Len(queue[q]) : queue'[q][i] = queue'[q][k] => i = k
      BY <3>2, <2>1 DEF QueueInv
    <3> QED
      BY <3>2, <3>3, <3>4, <3>5, <3>7, <3>8
  <2> QED
    BY <2>3, <2>4 DEF QueueInv
<1>3. ASSUME NEW p \in Pools, Start(p) PROVE QueueInv'
  <2> DEFINE r == Head(queue[p])
  <2>1. queue[p] \in Seq(Runs) /\ queue[p] # <<>>
    BY <1>3 DEF Start, TypeOK
  <2>2. /\ r = queue[p][1] /\ r \in Runs /\ Len(queue[p]) \in Nat \ {0} /\ 1 \in 1..Len(queue[p])
        /\ Len(Tail(queue[p])) = Len(queue[p]) - 1
        /\ \A i \in 1..Len(Tail(queue[p])) : Tail(queue[p])[i] = queue[p][i + 1] /\ i + 1 \in 1..Len(queue[p])
    BY <2>1
  <2>3. /\ pc' = [pc EXCEPT ![r] = "handler"] /\ queue' = [queue EXCEPT ![p] = Tail(@)]
        /\ queue'[p] = Tail(queue[p])
    BY <1>3 DEF Start, TypeOK
  <2>4. PoolOf[r[1]] = p
    BY <2>2 DEF QueueInv
  <2> HIDE DEF r
  <2>5. \A s \in Runs : s # r => pc'[s] = pc[s]
    BY <2>2, <2>3 DEF TypeOK
  <2>6. ASSUME NEW o \in Pools, o # p
        PROVE  /\ \A i \in 1..Len(queue'[o]) : pc'[queue'[o][i]] = "queued" /\ PoolOf[queue'[o][i][1]] = o
               /\ \A i, k \in 1..Len(queue'[o]) : queue'[o][i] = queue'[o][k] => i = k
    <3>1. queue'[o] = queue[o] /\ queue[o] \in Seq(Runs)
      BY <2>3, <2>6 DEF TypeOK
    <3>2. \A i \in 1..Len(queue[o]) : queue[o][i] \in Runs /\ queue[o][i] # r
      BY <3>1, <2>4, <2>6 DEF QueueInv
    <3> QED
      BY <3>1, <3>2, <2>5 DEF QueueInv
  <2>7. /\ \A i \in 1..Len(queue'[p]) : pc'[queue'[p][i]] = "queued" /\ PoolOf[queue'[p][i][1]] = p
        /\ \A i, k \in 1..Len(queue'[p]) : queue'[p][i] = queue'[p][k] => i = k
    <3>1. \A i \in 1..Len(queue[p]) : queue[p][i] \in Runs /\ (i # 1 => queue[p][i] # r)
      BY <2>1, <2>2 DEF QueueInv
    <3>2. \A i \in 1..Len(queue'[p]) : /\ queue'[p][i] = queue[p][i + 1] /\ i + 1 \in 1..Len(queue[p])
                                       /\ queue'[p][i] \in Runs /\ queue'[p][i] # r /\ i \in Nat
      <4>1. \A i \in 1..Len(queue'[p]) : queue'[p][i] = queue[p][i + 1] /\ i + 1 \in 1..Len(queue[p])
        BY <2>2, <2>3
      <4>2. Len(queue'[p]) \in Nat /\ \A i \in 1..Len(queue'[p]) : i \in Nat /\ i + 1 # 1
        BY <2>2, <2>3
      <4> QED
        BY <4>1, <4>2, <3>1
    <3>3. \A i \in 1..Len(queue'[p]) : pc'[queue'[p][i]] = "queued" /\ PoolOf[queue'[p][i][1]] = p
      BY <3>2, <2>5 DEF QueueInv
    <3>4. ASSUME NEW i \in 1..Len(queue'[p]), NEW k \in 1..Len(queue'[p]), queue'[p][i] = queue'[p][k]
          PROVE  i = k
      <4>1. i + 1 = k + 1
        BY <3>2, <3>4 DEF QueueInv
      <4> QED
        BY <4>1, <3>2
    <3> QED
      BY <3>3, <3>4
  <2> QED
    BY <2>6, <2>7 DEF QueueInv
<1>4. ASSUME NEW r \in Runs, Work(r) PROVE QueueInv'
  <2>1. queue' = queue /\ pc[r] # "queued"
    BY <1>4 DEF Work, UpdateRead, ReportRead, UpdateSave, HandlerEnds, Finish, Pop
  <2>2. \A s \in Runs : s # r => pc'[s] = pc[s]
    BY <1>4 DEF Work, UpdateRead, ReportRead, UpdateSave, HandlerEnds, Finish, Pop, TypeOK
  <2>3. \A p \in Pools : \A i \in 1..Len(queue[p]) : queue[p][i] \in Runs /\ queue[p][i] # r
    BY <2>1 DEF QueueInv, TypeOK
  <2> QED
    BY <2>1, <2>2, <2>3 DEF QueueInv
<1>5. CASE DropQueue
  <2>1. PICK p \in Pools :
          /\ queue' = [queue EXCEPT ![p] = <<>>]
          /\ pc' = [r \in Runs |-> IF PoolOf[r[1]] = p /\ pc[r] = "queued" THEN "lost" ELSE pc[r]]
    BY <1>5 DEF DropQueue
  <2>2. queue'[p] = <<>>
    BY <2>1 DEF TypeOK
  <2>3. ASSUME NEW o \in Pools, o # p, NEW i \in 1..Len(queue[o])
        PROVE  queue'[o] = queue[o] /\ pc'[queue[o][i]] = "queued"
    <3>1. queue[o][i] \in Runs
      BY DEF TypeOK
    <3> QED
      BY <2>1, <2>3, <3>1 DEF TypeOK, QueueInv
  <2>4. \A o \in Pools : o # p => queue'[o] = queue[o]
    BY <2>1 DEF TypeOK
  <2> QED
    BY <2>2, <2>3, <2>4 DEF QueueInv
<1>6. CASE Exit
  <2>1. \A p \in Pools : queue'[p] = <<>>
    BY <1>6 DEF Exit
  <2> QED
    BY <2>1 DEF QueueInv
<1> QED
  <2>1. CASE \E j \in Jobs : Submit(j) \/ ResubmitRead(j) \/ CancelRead(j) \/ DeleteRead(j)
    BY <2>1, <1>1 DEF Submit, Accept, ResubmitRead, CancelRead, DeleteRead
  <2>2. CASE ApiStep /\ ~Enqueue /\ ~DropQueue
    BY <2>2, <1>1 DEF ApiStep, ResubmitAccepted, Accept, Refuse, CancelFlag, CancelSave,
     MergeRead, MergeSave, Delete,
       ShutdownFlag, ShutdownFlagsDone, ShutdownAborts, ShutdownReturns
  <2>3. CASE (\E wait \in BOOLEAN : Shutdown(wait)) \/ Restart \/ UNCHANGED vars
    BY <2>3, <1>1 DEF Shutdown, Restart, vars
  <2> QED
    BY <2>1, <2>2, <2>3, <1>2, <1>3, <1>4, <1>5, <1>6 DEF Next, Request, ApiStep

-----------------------------------------------------------------------------
(* Runs and what is read of them.                                          *)

LEMMA AcceptFacts ==
    ASSUME TypeOK, NEW j \in Jobs, Accept(j)
    PROVE  /\ api'.call = "enqueue" /\ api'.job = j /\ api'.todo = {} /\ api'.keys = {}
           /\ attempts'[j] = attempts[j] + 1 /\ row'[j] = "pending" /\ pc' = pc /\ seen' = seen
           /\ \A i \in Jobs : i # j => attempts'[i] = attempts[i] /\ row'[i] = row[i]
<1>1. Call("enqueue", j, Absent).call = "enqueue" /\ Call("enqueue", j, Absent).job = j
  BY CallType DEF Calls, Status
<1>2. Call("enqueue", j, Absent).todo = {} /\ Call("enqueue", j, Absent).keys = {}
  BY DEF Call, Idle
<1> QED
  BY <1>1, <1>2 DEF Accept, TypeOK

LEMMA AttemptNext == TypeOK /\ QueueInv /\ AttemptInv /\ [Next]_vars => AttemptInv'
<1> SUFFICES ASSUME TypeOK, QueueInv, AttemptInv, [Next]_vars PROVE AttemptInv'
  OBVIOUS
<1>0. \A r \in Runs : r[1] \in Jobs /\ r[2] \in Attempts /\ r = <<r[1], r[2]>>
  BY DEF Runs
<1>00. Idle.todo = {} /\ \A c \in Calls, j \in Jobs, s \in Status : Call(c, j, s).todo = {}
  BY DEF Idle, Call
<1>1. ASSUME NEW j \in Jobs, Accept(j), attempts[j] < MaxAttempts PROVE AttemptInv'
  <2>1. attempts'[j] \in Attempts /\ attempts[j] \in 0..MaxAttempts
    BY <1>1, AcceptFacts, BoundAssumption DEF Attempts, TypeOK
  <2>2. pc[<<j, attempts'[j]>>] = "unborn"
    <3>1. <<j, attempts'[j]>> \in Runs
      BY <2>1 DEF Runs
    <3> QED
      BY <3>1, <1>1, <2>1, AcceptFacts DEF AttemptInv
  <2>3. \A r \in Runs : pc'[r] # "unborn" => r[2] <= attempts'[r[1]]
    BY <1>0, <1>1, <2>1, AcceptFacts DEF AttemptInv, TypeOK, Attempts
  <2> QED
    BY <2>1, <2>2, <2>3, <1>1, AcceptFacts DEF AttemptInv
<1>2. ASSUME UNCHANGED attempts, api'.todo \subseteq api'.keys, api'.call # "enqueue",
             \A r \in Runs : pc'[r] # "unborn" => pc[r] # "unborn"
      PROVE  AttemptInv'
  BY <1>2 DEF AttemptInv
<1>3. ASSUME NEW j \in Jobs, Submit(j) PROVE AttemptInv'
  BY <1>1, <1>3, BoundAssumption DEF Submit
<1>4. CASE ResubmitAccepted
  BY <1>1, <1>4 DEF ResubmitAccepted, TypeOK, ApiCalls
<1>5. ASSUME NEW j \in Jobs, ResubmitRead(j) \/ CancelRead(j) \/ DeleteRead(j) PROVE AttemptInv'
  <2>1. row[j] \in Status
    BY DEF TypeOK
  <2> QED
    BY <2>1, <1>00, <1>2, <1>5, CallType DEF ResubmitRead, CancelRead, DeleteRead, Calls
<1>6. ASSUME NEW wait \in BOOLEAN, Shutdown(wait) PROVE AttemptInv'
  <2>1. api'.todo \subseteq api'.keys /\ api'.call # "enqueue"
    BY <1>6 DEF Shutdown, Idle
  <2> QED
    BY <2>1, <1>2, <1>6 DEF Shutdown
<1>7. CASE Enqueue
  <2> DEFINE r == <<api.job, attempts[api.job]>>
  <2>1. r \in Runs /\ api.job \in Jobs
    BY <1>7 DEF Enqueue, AttemptInv, TypeOK, ApiCalls, Runs
  <2>2. \A q \in Runs : q # r => pc'[q] = pc[q]
    BY <1>7, <2>1 DEF Enqueue, TypeOK
  <2>3. r[2] <= attempts[r[1]]
    BY <2>1 DEF TypeOK
  <2>4. api'.call # "enqueue" /\ api'.todo = {} /\ attempts' = attempts
    BY <1>7, <1>00, CallType DEF Enqueue
  <2> QED
    BY <2>1, <2>2, <2>3, <2>4 DEF AttemptInv
<1>8. CASE Refuse \/ CancelSave \/ MergeRead \/ MergeSave \/ Delete \/ ShutdownAborts \/ ShutdownReturns
  <2>1. UNCHANGED <<attempts, pc>>
    BY <1>8 DEF Refuse, CancelSave, MergeRead, MergeSave, Delete, ShutdownAborts, ShutdownReturns
  <2>2. api'.todo = {} /\ api'.call # "enqueue"
    BY <1>8, <1>00, CallType, MergeFacts DEF Refuse, Delete, ShutdownAborts, ShutdownReturns
  <2> QED
    BY <2>1, <2>2, <1>2
<1>9. CASE CancelFlag
  BY <1>9, <1>00, <1>2, CallType DEF CancelFlag, Calls, TypeOK, ApiCalls
<1>10. CASE ShutdownFlag
  <2>1. PICK j \in api.todo : api' = [api EXCEPT !.todo = @ \ {j}]
    BY <1>10 DEF ShutdownFlag
  <2>2. api'.todo = api.todo \ {j} /\ api'.keys = api.keys /\ api'.call = api.call
    BY <2>1 DEF TypeOK, ApiCalls
  <2>3. UNCHANGED <<attempts, pc>> /\ api'.call # "enqueue"
    BY <1>10, <2>2 DEF ShutdownFlag
  <2> QED
    BY <2>2, <2>3, <1>2 DEF AttemptInv
<1>11. CASE ShutdownFlagsDone
  <2>1. api'.todo \subseteq api'.keys /\ api'.call # "enqueue"
    BY <1>11 DEF ShutdownFlagsDone, Idle
  <2> QED
    BY <1>11, <2>1, <1>2 DEF ShutdownFlagsDone
<1>12. CASE DropQueue
  <2>1. \A r \in Runs : pc'[r] # "unborn" => pc[r] # "unborn"
    BY <1>12 DEF DropQueue
  <2>2. UNCHANGED <<attempts, api>> /\ api.call = "dropQueues"
    BY <1>12 DEF DropQueue
  <2> QED
    BY <2>1, <2>2, <1>2 DEF AttemptInv
<1>13. ASSUME NEW r \in Runs, pc[r] # "unborn", \A q \in Runs : q # r => pc'[q] = pc[q],
              UNCHANGED <<attempts, api>>
       PROVE  AttemptInv'
  <2>1. \A q \in Runs : pc'[q] # "unborn" => q[2] <= attempts'[q[1]]
    BY <1>13 DEF AttemptInv
  <2>2. api.call = "enqueue" => <<api.job, attempts[api.job]>> \in Runs
    BY DEF AttemptInv, TypeOK, ApiCalls, Runs
  <2>3. api.call = "enqueue" => pc'[<<api.job, attempts[api.job]>>] = "unborn"
    BY <1>13, <2>2 DEF AttemptInv
  <2> QED
    BY <1>13, <2>1, <2>3 DEF AttemptInv
<1>14. ASSUME NEW p \in Pools, Start(p) PROVE AttemptInv'
  <2>1. Head(queue[p]) \in Runs /\ pc[Head(queue[p])] = "queued"
    <3>1. queue[p] \in Seq(Runs) /\ queue[p] # <<>>
      BY <1>14 DEF Start, TypeOK
    <3>2. Head(queue[p]) = queue[p][1] /\ 1 \in 1..Len(queue[p]) /\ Head(queue[p]) \in Runs
      BY <3>1
    <3> QED
      BY <3>2 DEF QueueInv
  <2>2. \A q \in Runs : q # Head(queue[p]) => pc'[q] = pc[q]
    BY <1>14, <2>1 DEF Start, TypeOK
  <2> QED
    BY <1>13, <1>14, <2>1, <2>2 DEF Start
<1>15. ASSUME NEW r \in Runs, Work(r) PROVE AttemptInv'
  <2>1. pc[r] # "unborn" /\ UNCHANGED <<attempts, api>>
    BY <1>15 DEF Work, UpdateRead, ReportRead, UpdateSave, HandlerEnds, Finish, Pop
  <2>2. \A q \in Runs : q # r => pc'[q] = pc[q]
    BY <1>15 DEF Work, UpdateRead, ReportRead, UpdateSave, HandlerEnds, Finish, Pop, TypeOK
  <2> QED
    BY <1>13, <2>1, <2>2
<1>16. CASE Exit
  <2>1. \A r \in Runs : pc'[r] # "unborn" => pc[r] # "unborn"
    BY <1>16 DEF Exit
  <2> QED
    BY <1>16, <2>1, <1>00, <1>2, CallType DEF Exit
<1>17. CASE Restart \/ UNCHANGED vars
  BY <1>17 DEF Restart, vars, AttemptInv
<1> QED
  BY <1>3, <1>4, <1>5, <1>6, <1>7, <1>8, <1>9, <1>10, <1>11, <1>12, <1>14, <1>15, <1>16, <1>17
     DEF Next, Request, ApiStep

LEMMA LiveNext == TypeOK /\ QueueInv /\ AttemptInv /\ LiveInv /\ ReadInv /\ DownInv /\ [Next]_vars => LiveInv'
<1> SUFFICES ASSUME TypeOK, QueueInv, AttemptInv, LiveInv, ReadInv, DownInv, [Next]_vars PROVE LiveInv'
  OBVIOUS
<1>0. \A r \in Runs : r[1] \in Jobs /\ r[2] \in Attempts /\ r = <<r[1], r[2]>>
  BY DEF Runs
<1>00. Idle.call = "idle" /\ \A c \in Calls, j \in Jobs, s \in Status : Call(c, j, s).call = c
  BY CallType
<1>01. Terminal \cap Active = {} /\ Absent \notin Active /\ {"pending", "running", "cancelling"} \subseteq Active
  BY DEF Terminal, Active, Absent
<1>1. ASSUME NEW j \in Jobs, Accept(j), api.call # "enqueue", \A r \in Runs : r[1] = j => ~Live(r)
      PROVE  LiveInv'
  <2>1. ASSUME NEW r \in Runs, Live(r)'
        PROVE  r[2] = attempts'[r[1]] /\ row'[r[1]] \in Active
    <3>1. CASE r[1] = j
      <4>1. pc'[r] \notin Executing \cup {"queued"}
        BY <1>1, <3>1, AcceptFacts DEF Live
      <4>2. r = <<j, attempts'[j]>>
        BY <1>1, <2>1, <4>1, AcceptFacts DEF Live
      <4> QED
        BY <4>2, <3>1, <1>1, <1>01, AcceptFacts
    <3>2. CASE r[1] # j
      <4>1. Live(r)
        BY <1>1, <2>1, <3>2, AcceptFacts DEF Live
      <4> QED
        BY <4>1, <3>2, <1>0, <1>1, AcceptFacts DEF LiveInv
    <3> QED
      BY <3>1, <3>2
  <2> QED
    BY <2>1 DEF LiveInv
<1>2. ASSUME UNCHANGED attempts,
             \A r \in Runs : Live(r)' => Live(r) /\ row'[r[1]] \in Active
      PROVE  LiveInv'
  BY <1>2 DEF LiveInv
<1>3. ASSUME NEW j \in Jobs, Submit(j) PROVE LiveInv'
  <2>1. \A r \in Runs : r[1] = j => ~Live(r)
    <3>1. ASSUME NEW r \in Runs, r[1] = j PROVE pc[r] = "unborn"
      BY <3>1, <1>0, <1>3 DEF Submit, AttemptInv, Attempts
    <3> QED
      BY <3>1, <1>3, <1>00 DEF Submit, Live, Executing
  <2> QED
    BY <1>1, <1>3, <1>00, <2>1 DEF Submit
<1>4. CASE ResubmitAccepted
  <2>1. row[api.job] \in Terminal /\ api.job \in Jobs
    BY <1>4 DEF ResubmitAccepted, ReadInv, Resubmittable, TypeOK, ApiCalls
  <2>2. \A r \in Runs : r[1] = api.job => ~Live(r)
    BY <2>1, <1>01 DEF LiveInv
  <2> QED
    BY <1>1, <1>4, <2>1, <2>2 DEF ResubmitAccepted
<1>5. CASE Enqueue
  <2> DEFINE e == <<api.job, attempts[api.job]>>
  <2>1. e \in Runs /\ Live(e) /\ UNCHANGED <<row, attempts>> /\ api'.call # "enqueue"
    BY <1>5, <1>00 DEF Enqueue, AttemptInv, TypeOK, ApiCalls, Runs, Live
  <2>2. \A r \in Runs : r # e => pc'[r] = pc[r]
    BY <1>5, <2>1 DEF Enqueue, TypeOK
  <2>3. \A r \in Runs : Live(r)' => Live(r)
    BY <2>1, <2>2 DEF Live
  <2> QED
    BY <2>1, <2>3, <1>2 DEF LiveInv
<1>6. ASSUME UNCHANGED <<row, attempts, pc>>, api'.call = "enqueue" => api' = api
      PROVE  LiveInv'
  BY <1>6 DEF LiveInv, Live
<1>7. ASSUME NEW j \in Jobs, ResubmitRead(j) \/ CancelRead(j) \/ DeleteRead(j) PROVE LiveInv'
  <2>1. row[j] \in Status
    BY DEF TypeOK
  <2> QED
    BY <2>1, <1>00, <1>6, <1>7 DEF ResubmitRead, CancelRead, DeleteRead, Calls
<1>8. ASSUME NEW wait \in BOOLEAN, Shutdown(wait) PROVE LiveInv'
  <2>1. api'.call # "enqueue"
    BY <1>8 DEF Shutdown, Idle
  <2> QED
    BY <2>1, <1>6, <1>8 DEF Shutdown
<1>9. CASE Refuse \/ ShutdownAborts \/ ShutdownReturns
  BY <1>9, <1>00, <1>6 DEF Refuse, ShutdownAborts, ShutdownReturns
<1>10. CASE CancelFlag
  BY <1>10, <1>00, <1>6 DEF CancelFlag, Calls, TypeOK, ApiCalls
<1>11. CASE ShutdownFlag
  <2>1. PICK j \in api.todo : api' = [api EXCEPT !.todo = @ \ {j}]
    BY <1>11 DEF ShutdownFlag
  <2>2. api'.call # "enqueue"
    BY <2>1, <1>11 DEF ShutdownFlag, TypeOK, ApiCalls
  <2> QED
    BY <2>2, <1>6, <1>11 DEF ShutdownFlag
<1>12. CASE ShutdownFlagsDone
  <2>1. api'.call # "enqueue"
    BY <1>12 DEF ShutdownFlagsDone, Idle
  <2> QED
    BY <1>12, <2>1, <1>6 DEF ShutdownFlagsDone
<1>13. CASE CancelSave
  <2>1. UNCHANGED <<attempts, pc>> /\ api'.call # "enqueue"
    BY <1>13, MergeFacts DEF CancelSave
  <2>2. \A j \in Jobs : row'[j] = row[j] \/ row'[j] \in Active
    BY <1>13, <1>01 DEF CancelSave, TypeOK
  <2>3. \A r \in Runs : Live(r)' => Live(r)
    BY <2>1 DEF Live
  <2> QED
    BY <1>0, <1>2, <2>1, <2>2, <2>3 DEF LiveInv
<1>21. CASE MergeRead
  <2>1. UNCHANGED <<row, attempts, pc>> /\ api'.call # "enqueue"
    BY <1>21, MergeFacts DEF MergeRead
  <2> QED
    BY <2>1, <1>6
<1>22. CASE MergeSave
  <2>1. UNCHANGED <<attempts, pc>> /\ api'.call # "enqueue"
    BY <1>22, MergeFacts DEF MergeSave
  <2>2. \A r \in Runs : Live(r)' => Live(r)
    BY <2>1 DEF Live
  <2>3. \A r \in Runs : Live(r) => row'[r[1]] \in Active
    <3>1. api.seen \in Active \/ \A r \in Runs : Live(r) => r[1] # api.job
      BY <1>22 DEF MergeSave, ReadInv, LiveInv
    <3>2. \A j \in Jobs : row'[j] = IF j = api.job THEN api.seen ELSE row[j]
      BY <1>22 DEF MergeSave, TypeOK
    <3> QED
      BY <1>0, <3>1, <3>2 DEF LiveInv
  <2> QED
    BY <1>2, <2>1, <2>2, <2>3
<1>14. CASE Delete
  <2>1. UNCHANGED <<attempts, pc>> /\ api'.call # "enqueue"
    BY <1>14, <1>00 DEF Delete
  <2>2. \A r \in Runs : Live(r) => r[1] # api.job
    BY <1>14, <1>01 DEF Delete, ReadInv, LiveInv
  <2>3. \A j \in Jobs : j # api.job => row'[j] = row[j]
    BY <1>14 DEF Delete, TypeOK
  <2>4. \A r \in Runs : Live(r)' => Live(r)
    BY <2>1 DEF Live
  <2> QED
    BY <1>0, <1>2, <2>1, <2>2, <2>3, <2>4 DEF LiveInv
<1>15. CASE DropQueue
  <2>1. UNCHANGED <<row, attempts, api>>
    BY <1>15 DEF DropQueue
  <2>2. \A r \in Runs : pc'[r] = pc[r] \/ pc'[r] = "lost"
    BY <1>15 DEF DropQueue
  <2>3. \A r \in Runs : Live(r)' => Live(r)
    BY <2>1, <2>2 DEF Live, Executing
  <2> QED
    BY <1>2, <2>1, <2>3 DEF LiveInv
<1>16. ASSUME NEW p \in Pools, Start(p) PROVE LiveInv'
  <2> DEFINE h == Head(queue[p])
  <2>1. h \in Runs /\ Live(h)
    <3>1. queue[p] \in Seq(Runs) /\ queue[p] # <<>>
      BY <1>16 DEF Start, TypeOK
    <3>2. h = queue[p][1] /\ 1 \in 1..Len(queue[p]) /\ h \in Runs
      BY <3>1
    <3> QED
      BY <3>2 DEF QueueInv, Live
  <2> HIDE DEF h
  <2>2. /\ pc' = [pc EXCEPT ![h] = "handler"] /\ row' = [row EXCEPT ![h[1]] = "running"]
        /\ UNCHANGED <<attempts, api>>
    BY <1>16 DEF Start, h
  <2>3. \A r \in Runs : r # h => pc'[r] = pc[r]
    BY <2>1, <2>2 DEF TypeOK
  <2>4. \A r \in Runs : Live(r)' => Live(r)
    BY <2>1, <2>2, <2>3 DEF Live
  <2>5. \A j \in Jobs : row'[j] = row[j] \/ row'[j] \in Active
    BY <2>2, <1>01 DEF TypeOK
  <2> QED
    BY <1>0, <1>2, <2>2, <2>4, <2>5 DEF LiveInv
<1>17. ASSUME NEW r \in Runs, Work(r) PROVE LiveInv'
  <2>1. UNCHANGED <<attempts, api>>
    BY <1>17 DEF Work, UpdateRead, ReportRead, UpdateSave, HandlerEnds, Finish, Pop
  <2>2. \A q \in Runs : q # r => pc'[q] = pc[q]
    BY <1>17 DEF Work, UpdateRead, ReportRead, UpdateSave, HandlerEnds, Finish, Pop, TypeOK
  <2>3. CASE UpdateRead(r) \/ ReportRead(r) \/ HandlerEnds(r) \/ UpdateSave(r)
    <3>1. Live(r)
      BY <2>3 DEF UpdateRead, ReportRead, HandlerEnds, UpdateSave, Live, Executing
    <3>2. \A q \in Runs : Live(q)' => Live(q)
      BY <3>1, <2>1, <2>2 DEF Live
    <3>3. \A j \in Jobs : row'[j] = row[j] \/ row'[j] \in Active
      BY <2>3 DEF UpdateRead, ReportRead, HandlerEnds, UpdateSave, ReadInv, TypeOK
    <3> QED
      BY <1>0, <1>2, <2>1, <3>2, <3>3 DEF LiveInv
  <2>4. CASE Finish(r)
    <3>1. Live(r) /\ pc'[r] = "popping"
      BY <2>4 DEF Finish, Live, Executing, TypeOK
    <3>2. \A q \in Runs : Live(q)' => Live(q) /\ q # r
      <4>1. ~Live(r)'
        <5>1. pc[r] # "unborn"
          BY <2>4 DEF Finish
        <5>2. ~(api.call = "enqueue" /\ r = <<api.job, attempts[api.job]>>)
          BY <5>1 DEF AttemptInv
        <5> QED
          BY <3>1, <5>2, <2>1 DEF Live, Executing
      <4> QED
        BY <4>1, <2>1, <2>2 DEF Live
    <3>3. \A q \in Runs : Live(q)' => q[1] # r[1]
      BY <1>0, <3>1, <3>2 DEF LiveInv
    <3>4. \A j \in Jobs : j # r[1] => row'[j] = row[j]
      BY <2>4 DEF Finish, TypeOK
    <3> QED
      BY <1>0, <1>2, <2>1, <3>2, <3>3, <3>4 DEF LiveInv
  <2>5. CASE Pop(r)
    <3>1. row' = row /\ pc'[r] = "done"
      BY <2>5 DEF Pop, TypeOK
    <3>2. \A q \in Runs : Live(q)' => Live(q)
      BY <3>1, <2>1, <2>2 DEF Live, Executing
    <3> QED
      BY <1>2, <2>1, <3>1, <3>2 DEF LiveInv
  <2> QED
    BY <1>17, <2>3, <2>4, <2>5 DEF Work
<1>18. CASE Exit
  <2>1. \A r \in Runs : pc'[r] \in {"unborn", "done", "lost"}
    BY <1>18 DEF Exit
  <2>2. api'.call # "enqueue"
    BY <1>18, <1>00 DEF Exit
  <2> QED
    BY <2>1, <2>2 DEF LiveInv, Live, Executing
<1>19. CASE Restart
  <2>1. \A r \in Runs : pc'[r] \in {"unborn", "done", "lost"}
    BY <1>19 DEF Restart, DownInv
  <2>2. api'.call # "enqueue"
    BY <1>19, <1>00 DEF Restart, DownInv
  <2> QED
    BY <2>1, <2>2 DEF LiveInv, Live, Executing
<1>20. CASE UNCHANGED vars
  BY <1>20, <1>6 DEF vars
<1> QED
  BY <1>3, <1>4, <1>5, <1>7, <1>8, <1>9, <1>10, <1>11, <1>12, <1>13, <1>14, <1>15, <1>16,
     <1>17, <1>18, <1>19, <1>20, <1>21, <1>22 DEF Next, Request, ApiStep

\* A thread writes only the row of a run that is live, and changes only the pc
\* of that run.
LEMMA ThreadFacts ==
    ASSUME TypeOK, QueueInv, NEW r \in Runs,
           Work(r) \/ \E p \in Pools : Start(p) /\ r = Head(queue[p])
    PROVE  /\ r[1] \in Jobs
           /\ row' # row => Live(r)
           /\ pc[r] \notin {"unborn", "done", "lost"}
           /\ \A j \in Jobs : j # r[1] => row'[j] = row[j]
           /\ \A q \in Runs : q # r => pc'[q] = pc[q]
           /\ UNCHANGED <<up, boots, closed, attempts, set, api, merged>>
<1>0. r[1] \in Jobs
  BY DEF Runs
<1>1. CASE Work(r)
  <2>1. row' # row => UpdateSave(r) \/ Finish(r)
    BY <1>1 DEF Work, UpdateRead, ReportRead, HandlerEnds, Pop
  <2>2. row' # row => Live(r)
    BY <2>1 DEF UpdateSave, Finish, Live, Executing
  <2>3. \A j \in Jobs : j # r[1] => row'[j] = row[j]
    BY <1>1 DEF Work, UpdateRead, ReportRead, UpdateSave, HandlerEnds, Finish, Pop, TypeOK
  <2>4. \A q \in Runs : q # r => pc'[q] = pc[q]
    BY <1>1 DEF Work, UpdateRead, ReportRead, UpdateSave, HandlerEnds, Finish, Pop, TypeOK
  <2>5. pc[r] \notin {"unborn", "done", "lost"} /\ UNCHANGED <<up, boots, closed, attempts, set, api, merged>>
    BY <1>1 DEF Work, UpdateRead, ReportRead, UpdateSave, HandlerEnds, Finish, Pop
  <2> QED
    BY <1>0, <2>2, <2>3, <2>4, <2>5
<1>2. ASSUME NEW p \in Pools, Start(p), r = Head(queue[p])
      PROVE  /\ Live(r) /\ pc[r] = "queued"
             /\ \A j \in Jobs : j # r[1] => row'[j] = row[j]
             /\ \A q \in Runs : q # r => pc'[q] = pc[q]
             /\ UNCHANGED <<up, boots, closed, attempts, set, api, merged>>
  <2>1. queue[p] \in Seq(Runs) /\ queue[p] # <<>>
    BY <1>2 DEF Start, TypeOK
  <2>2. r = queue[p][1] /\ 1 \in 1..Len(queue[p])
    BY <1>2, <2>1
  <2> QED
    BY <1>2, <2>2 DEF Start, QueueInv, Live, TypeOK
<1> QED
  BY <1>0, <1>1, <1>2

LEMMA HeadIsRun == ASSUME TypeOK, NEW p \in Pools, Start(p) PROVE Head(queue[p]) \in Runs
<1>1. queue[p] \in Seq(Runs) /\ queue[p] # <<>>
  BY DEF Start, TypeOK
<1> QED
  BY <1>1

LEMMA ReadNext == TypeOK /\ QueueInv /\ LiveInv /\ ReadInv /\ DownInv /\ [Next]_vars => ReadInv'
<1> SUFFICES ASSUME TypeOK, QueueInv, LiveInv, ReadInv, DownInv, [Next]_vars PROVE ReadInv'
  OBVIOUS
<1>00. Idle.call = "idle" /\ \A c \in Calls, j \in Jobs, s \in Status :
          Call(c, j, s).call = c /\ Call(c, j, s).job = j /\ Call(c, j, s).seen = s
  BY CallType
<1>01. Terminal \cap Active = {}
  BY DEF Terminal, Active
<1>1. ASSUME UNCHANGED <<pc, seen>>, api'.call \notin {"resubmit", "delete", "mergeSave"} PROVE ReadInv'
  BY <1>1 DEF ReadInv
<1>2. ASSUME NEW j \in Jobs, Submit(j) PROVE ReadInv'
  BY <1>1, <1>2, AcceptFacts DEF Submit
<1>3. ASSUME NEW j \in Jobs, ResubmitRead(j) \/ DeleteRead(j) PROVE ReadInv'
  <2>1. row[j] \in Status
    BY DEF TypeOK
  <2>2. api'.job = j /\ api'.seen = row[j] /\ UNCHANGED <<row, pc, seen>>
    BY <2>1, <1>00, <1>3 DEF ResubmitRead, DeleteRead, Calls
  <2> QED
    BY <2>2 DEF ReadInv
<1>4. ASSUME NEW j \in Jobs, CancelRead(j) PROVE ReadInv'
  <2>1. row[j] \in Status
    BY DEF TypeOK
  <2> QED
    BY <2>1, <1>00, <1>1, <1>4 DEF CancelRead, Calls
<1>18. CASE CancelSave
  BY <1>18, <1>1, MergeFacts DEF CancelSave
<1>19. CASE MergeRead
  <2>1. api'.call = "mergeSave" /\ api'.job = api.job /\ api'.seen = row[api.job] /\ UNCHANGED <<row, pc, seen>>
    BY <1>19, MergeFacts DEF MergeRead
  <2> QED
    BY <2>1 DEF ReadInv
<1>5. CASE \/ Enqueue \/ Refuse \/ ShutdownAborts \/ ShutdownReturns \/ MergeSave \/ Delete
  <2>1. api' = Idle /\ seen' = seen
    BY <1>5 DEF Enqueue, Refuse, ShutdownAborts, ShutdownReturns, MergeSave, Delete
  <2>2. \A r \in Runs : pc'[r] = "updating" => pc[r] = "updating"
    BY <1>5 DEF Enqueue, Refuse, ShutdownAborts, ShutdownReturns, MergeSave, Delete, TypeOK
  <2> QED
    BY <2>1, <2>2, <1>00 DEF ReadInv
<1>6. CASE ResubmitAccepted
  BY <1>1, <1>6, AcceptFacts DEF ResubmitAccepted, TypeOK, ApiCalls
<1>7. CASE CancelFlag
  BY <1>7, <1>00, <1>1 DEF CancelFlag, Calls, TypeOK, ApiCalls
<1>8. ASSUME NEW wait \in BOOLEAN, Shutdown(wait) PROVE ReadInv'
  <2>1. api'.call \notin {"resubmit", "delete", "mergeSave"}
    BY <1>8 DEF Shutdown, Idle
  <2> QED
    BY <2>1, <1>1, <1>8 DEF Shutdown
<1>9. CASE ShutdownFlag
  <2>1. PICK j \in api.todo : api' = [api EXCEPT !.todo = @ \ {j}]
    BY <1>9 DEF ShutdownFlag
  <2>2. api'.call \notin {"resubmit", "delete", "mergeSave"}
    BY <2>1, <1>9 DEF ShutdownFlag, TypeOK, ApiCalls
  <2> QED
    BY <2>2, <1>1, <1>9 DEF ShutdownFlag
<1>10. CASE ShutdownFlagsDone
  <2>1. api'.call \notin {"resubmit", "delete", "mergeSave"}
    BY <1>10 DEF ShutdownFlagsDone, Idle
  <2> QED
    BY <1>10, <2>1, <1>1 DEF ShutdownFlagsDone
<1>11. CASE DropQueue
  <2>1. \A r \in Runs : pc'[r] = "updating" => pc[r] = "updating"
    BY <1>11 DEF DropQueue
  <2> QED
    BY <1>11, <2>1 DEF DropQueue, ReadInv
<1>12. ASSUME NEW r \in Runs, UNCHANGED api, row' # row => Live(r),
              \A j \in Jobs : j # r[1] => row'[j] = row[j],
              \A q \in Runs : pc'[q] = "updating" => seen'[q] \in Active
       PROVE  ReadInv'
  <2>1. ASSUME api.call \in {"resubmit", "delete"}, api.seen \in Terminal PROVE row'[api.job] \in Terminal
    <3>1. row[api.job] \in Terminal /\ api.job \in Jobs
      BY <2>1 DEF ReadInv, TypeOK, ApiCalls
    <3>2. row' # row => api.job # r[1]
      BY <3>1, <1>12, <1>01 DEF LiveInv
    <3> QED
      BY <3>1, <3>2, <1>12
  <2>2. ASSUME api.call = "mergeSave", api.seen \notin Active PROVE row'[api.job] \notin Active
    <3>1. row[api.job] \notin Active /\ api.job \in Jobs
      BY <2>2 DEF ReadInv, TypeOK, ApiCalls
    <3>2. row' # row => api.job # r[1]
      BY <3>1, <1>12 DEF LiveInv
    <3> QED
      BY <3>1, <3>2, <1>12
  <2> QED
    BY <2>1, <2>2, <1>12 DEF ReadInv
<1>13. ASSUME NEW p \in Pools, Start(p) PROVE ReadInv'
  <2> DEFINE h == Head(queue[p])
  <2>1. h \in Runs
    BY <1>13, HeadIsRun
  <2>2. \A q \in Runs : pc'[q] = "updating" => seen'[q] \in Active
    BY <1>13, <2>1 DEF Start, ReadInv, TypeOK
  <2> QED
    BY <1>12, <1>13, <2>1, <2>2, ThreadFacts
<1>14. ASSUME NEW r \in Runs, Work(r) PROVE ReadInv'
  <2>1. CASE UpdateRead(r) \/ ReportRead(r)
    <3>1. row[r[1]] \in Active
      BY <2>1 DEF UpdateRead, ReportRead, LiveInv, Live, Executing
    <3>2. \A q \in Runs : pc'[q] = "updating" => seen'[q] \in Active
      BY <2>1, <3>1 DEF UpdateRead, ReportRead, ReadInv, TypeOK
    <3> QED
      BY <1>12, <1>14, <3>2, ThreadFacts
  <2>2. CASE UpdateSave(r) \/ HandlerEnds(r) \/ Finish(r) \/ Pop(r)
    <3>1. \A q \in Runs : pc'[q] = "updating" => pc[q] = "updating" /\ seen'[q] = seen[q]
      BY <2>2 DEF UpdateSave, HandlerEnds, Finish, Pop, TypeOK
    <3> QED
      BY <1>12, <1>14, <3>1, ThreadFacts DEF ReadInv
  <2> QED
    BY <1>14, <2>1, <2>2 DEF Work
<1>15. CASE Exit
  <2>1. \A r \in Runs : pc'[r] # "updating"
    BY <1>15 DEF Exit
  <2> QED
    BY <1>15, <2>1, <1>00 DEF Exit, ReadInv
<1>16. CASE Restart
  BY <1>16, <1>1, <1>00 DEF Restart, DownInv
<1>17. CASE UNCHANGED vars
  BY <1>17 DEF vars, ReadInv
<1> QED
  BY <1>2, <1>3, <1>4, <1>5, <1>6, <1>7, <1>8, <1>9, <1>10, <1>11, <1>13, <1>14, <1>15, <1>16,
     <1>17, <1>18, <1>19 DEF Next, Request, ApiStep

LEMMA DownNext == TypeOK /\ DownInv /\ [Next]_vars => DownInv'
<1> SUFFICES ASSUME TypeOK, DownInv, [Next]_vars PROVE DownInv'
  OBVIOUS
<1>1. ASSUME up' PROVE DownInv'
  BY <1>1 DEF DownInv
<1>2. CASE \E j \in Jobs : Submit(j) \/ ResubmitRead(j) \/ CancelRead(j) \/ DeleteRead(j)
  BY <1>2, <1>1 DEF Submit, Accept, ResubmitRead, CancelRead, DeleteRead
<1>3. CASE ApiStep
  BY <1>3, <1>1 DEF ApiStep, Enqueue, ResubmitAccepted, Accept, Refuse, CancelFlag, CancelSave,
     MergeRead, MergeSave, Delete,
     ShutdownFlag, ShutdownFlagsDone, ShutdownAborts, DropQueue, ShutdownReturns
<1>4. CASE (\E wait \in BOOLEAN : Shutdown(wait)) \/ \E p \in Pools : Start(p)
  BY <1>4, <1>1 DEF Shutdown, Start
<1>5. CASE \E r \in Runs : Work(r)
  BY <1>5, <1>1 DEF Work, UpdateRead, ReportRead, UpdateSave, HandlerEnds, Finish, Pop
<1>6. CASE Exit
  BY <1>6 DEF Exit, DownInv
<1>7. CASE Restart \/ UNCHANGED vars
  BY <1>7, <1>1 DEF Restart, vars, DownInv
<1> QED
  BY <1>2, <1>3, <1>4, <1>5, <1>6, <1>7 DEF Next, Request

LEMMA MergeNext == TypeOK /\ DownInv /\ MergeInv /\ [Next]_vars => MergeInv'
<1> SUFFICES ASSUME TypeOK, DownInv, MergeInv, [Next]_vars PROVE MergeInv'
  OBVIOUS
<1> DEFINE Out == api'.call \notin {"mergeRead", "mergeSave"}
<1>0. Idle.call = "idle" /\ \A c \in Calls, j \in Jobs, s \in Status : Call(c, j, s).call = c
  BY CallType
<1>1. ASSUME Out PROVE MergeInv'
  BY <1>1 DEF MergeInv
<1>2. ASSUME UNCHANGED <<api, merged>> PROVE MergeInv'
  BY <1>2 DEF MergeInv
<1>3. ASSUME NEW j \in Jobs, Submit(j) PROVE Out
  BY <1>3, AcceptFacts DEF Submit
<1>4. ASSUME NEW j \in Jobs, ResubmitRead(j) \/ CancelRead(j) \/ DeleteRead(j) PROVE Out
  <2>1. row[j] \in Status
    BY DEF TypeOK
  <2> QED
    BY <2>1, <1>0, <1>4 DEF ResubmitRead, CancelRead, DeleteRead, Calls
<1>5. ASSUME NEW wait \in BOOLEAN, Shutdown(wait) PROVE Out
  BY <1>5 DEF Shutdown, Idle
<1>6. ASSUME ResubmitAccepted PROVE Out
  BY <1>6, AcceptFacts DEF ResubmitAccepted, TypeOK, ApiCalls
<1>7. ASSUME Enqueue \/ Refuse \/ Delete \/ ShutdownAborts \/ ShutdownReturns \/ MergeSave \/ Exit PROVE Out
  BY <1>7, <1>0 DEF Enqueue, Refuse, Delete, ShutdownAborts, ShutdownReturns, MergeSave, Exit
<1>8. ASSUME CancelFlag PROVE Out
  BY <1>8, <1>0 DEF CancelFlag, Calls, TypeOK, ApiCalls
<1>9. CASE CancelSave \/ MergeRead
  BY <1>9, MergeFacts DEF MergeRead, MergeInv
<1>10. ASSUME ShutdownFlag PROVE Out
  <2>1. PICK j \in api.todo : api' = [api EXCEPT !.todo = @ \ {j}]
    BY <1>10 DEF ShutdownFlag
  <2> QED
    BY <2>1, <1>10 DEF ShutdownFlag, TypeOK, ApiCalls
<1>11. ASSUME ShutdownFlagsDone PROVE Out
  BY <1>11 DEF ShutdownFlagsDone, Idle
<1>12. CASE DropQueue \/ Restart \/ UNCHANGED vars \/ \E p \in Pools : Start(p)
  BY <1>2, <1>12 DEF DropQueue, Restart, vars, Start
<1>13. CASE \E r \in Runs : Work(r)
  BY <1>2, <1>13 DEF Work, UpdateRead, ReportRead, UpdateSave, HandlerEnds, Finish, Pop
<1> HIDE DEF Out
<1> QED
  BY <1>1, <1>3, <1>4, <1>5, <1>6, <1>7, <1>8, <1>9, <1>10, <1>11, <1>12, <1>13 DEF Next, Request, ApiStep

LEMMA RunningNext ==
    TypeOK /\ QueueInv /\ AttemptInv /\ LiveInv /\ DownInv /\ MergeInv /\ RunningRowHasRun /\ [Next]_vars
      => RunningRowHasRun'
<1> SUFFICES ASSUME TypeOK, QueueInv, AttemptInv, LiveInv, DownInv, MergeInv, RunningRowHasRun, [Next]_vars,
                    up', NEW j \in Jobs, j \notin merged', row'[j] = "running"
             PROVE  \E n \in Attempts : pc'[<<j, n>>] \in Executing
  BY DEF RunningRowHasRun
<1>0. \A r \in Runs : r[1] \in Jobs /\ r[2] \in Attempts /\ r = <<r[1], r[2]>>
  BY DEF Runs
<1>1. ASSUME up, j \notin merged, row[j] = "running", \A r \in Runs : pc[r] \in Executing => pc'[r] \in Executing
      PROVE  \E n \in Attempts : pc'[<<j, n>>] \in Executing
  BY <1>1 DEF RunningRowHasRun, Runs
<1>2. CASE \E i \in Jobs : Submit(i) \/ ResubmitRead(i) \/ CancelRead(i) \/ DeleteRead(i)
  BY <1>1, <1>2 DEF Submit, Accept, ResubmitRead, CancelRead, DeleteRead, TypeOK
<1>3. CASE ApiStep
  <2>1. up /\ j \notin merged /\ row[j] = "running"
    <3>1. CASE ResubmitAccepted
      BY <3>1 DEF ResubmitAccepted, Accept, TypeOK
    <3>2. CASE MergeSave
      BY <3>2 DEF MergeSave, MergeInv, TypeOK
    <3>3. CASE CancelSave \/ Delete
      BY <3>3 DEF CancelSave, Delete, TypeOK, Absent
    <3>4. CASE ApiStep /\ ~ResubmitAccepted /\ ~MergeSave /\ ~CancelSave /\ ~Delete
      BY <3>4 DEF ApiStep, Enqueue, Refuse, CancelFlag, MergeRead, ShutdownFlag, ShutdownFlagsDone,
         ShutdownAborts, DropQueue, ShutdownReturns
    <3> QED
      BY <1>3, <3>1, <3>2, <3>3, <3>4
  <2>2. CASE Enqueue
    <3>1. pc[<<api.job, attempts[api.job]>>] = "unborn"
      BY <2>2 DEF Enqueue, AttemptInv
    <3>2. \A r \in Runs : pc[r] \in Executing => pc'[r] = pc[r]
      BY <2>2, <3>1 DEF Enqueue, TypeOK, Executing
    <3> QED
      BY <2>1, <3>2, <1>1
  <2>3. CASE DropQueue
    <3>1. \A r \in Runs : pc[r] \in Executing => pc'[r] = pc[r]
      BY <2>3 DEF DropQueue, Executing
    <3> QED
      BY <2>1, <3>1, <1>1
  <2>4. CASE ~Enqueue /\ ~DropQueue
    <3>1. pc' = pc
      BY <1>3, <2>4 DEF ApiStep, ResubmitAccepted, Accept, Refuse, CancelFlag, CancelSave,
     MergeRead, MergeSave, Delete,
         ShutdownFlag, ShutdownFlagsDone, ShutdownAborts, ShutdownReturns
    <3> QED
      BY <2>1, <3>1, <1>1
  <2> QED
    BY <2>2, <2>3, <2>4
<1>4. CASE (\E wait \in BOOLEAN : Shutdown(wait)) \/ UNCHANGED vars
  BY <1>1, <1>4 DEF Shutdown, vars
<1>5. ASSUME NEW p \in Pools, Start(p) PROVE \E n \in Attempts : pc'[<<j, n>>] \in Executing
  <2> DEFINE h == Head(queue[p])
  <2>1. h \in Runs /\ up /\ merged' = merged
    BY <1>5, HeadIsRun DEF Start
  <2> HIDE DEF h
  <2>2. pc' = [pc EXCEPT ![h] = "handler"] /\ row' = [row EXCEPT ![h[1]] = "running"]
    BY <1>5 DEF Start, h
  <2>3. \A r \in Runs : pc[r] \in Executing => pc'[r] \in Executing
    BY <2>1, <2>2 DEF TypeOK, Executing
  <2>4. CASE j = h[1]
    <3>1. pc'[<<j, h[2]>>] = "handler"
      BY <2>1, <2>2, <2>4, <1>0 DEF TypeOK
    <3> QED
      BY <3>1, <2>1, <1>0 DEF Executing
  <2>5. CASE j # h[1]
    BY <2>1, <2>2, <2>3, <2>5, <1>1 DEF TypeOK
  <2> QED
    BY <2>4, <2>5
<1>6. ASSUME NEW r \in Runs, Work(r) PROVE \E n \in Attempts : pc'[<<j, n>>] \in Executing
  <2>1. up /\ merged' = merged /\ \A q \in Runs : q # r => pc'[q] = pc[q]
    BY <1>6, ThreadFacts DEF Work, UpdateRead, ReportRead, UpdateSave, HandlerEnds, Finish, Pop
  <2>2. CASE UpdateRead(r) \/ ReportRead(r) \/ UpdateSave(r) \/ HandlerEnds(r)
    <3>1. pc'[r] \in Executing
      BY <2>2 DEF UpdateRead, ReportRead, UpdateSave, HandlerEnds, Executing, TypeOK
    <3>2. CASE j = r[1]
      BY <3>1, <3>2, <1>0
    <3>3. CASE j # r[1]
      BY <3>1, <3>3, <1>1, <1>6, <2>1, ThreadFacts
    <3> QED
      BY <3>2, <3>3
  <2>3. CASE Finish(r)
    <3>1. j # r[1]
      <4>1. row[r[1]] \in Active
        BY <2>3 DEF Finish, LiveInv, Live, Executing
      <4> QED
        BY <4>1, <2>3, <1>0 DEF Finish, TypeOK, Active, Absent
    <3>2. row[j] = "running"
      BY <3>1, <1>6, ThreadFacts
    <3>3. PICK n \in Attempts : pc[<<j, n>>] \in Executing
      BY <3>2, <2>1 DEF RunningRowHasRun
    <3> QED
      BY <3>1, <3>3, <2>1 DEF Runs
  <2>4. CASE Pop(r)
    BY <2>1, <2>4, <1>1 DEF Pop, Executing
  <2> QED
    BY <1>6, <2>2, <2>3, <2>4 DEF Work
<1>7. CASE Exit
  BY <1>7 DEF Exit
<1>8. CASE Restart
  BY <1>8 DEF Restart, Interrupted, TypeOK
<1> QED
  BY <1>2, <1>3, <1>4, <1>5, <1>6, <1>7, <1>8 DEF Next, Request

-----------------------------------------------------------------------------
(* The cancel signal.                                                      *)

\* Only Accept makes a run live.
LEMMA LiveStays ==
    ASSUME TypeOK, QueueInv, AttemptInv, DownInv, [Next]_vars,
           \A j \in Jobs : ~Accept(j)
    PROVE  /\ \A r \in Runs : Live(r)' => Live(r)
           /\ attempts' = attempts
           /\ api'.call = "enqueue" => api' = api
<1>00. Idle.call = "idle" /\ \A c \in Calls, j \in Jobs, s \in Status : Call(c, j, s).call = c
  BY CallType
<1>1. ASSUME UNCHANGED attempts, api'.call = "enqueue" => api' = api,
             \A r \in Runs : pc'[r] \in Executing \cup {"queued"} => Live(r)
      PROVE  /\ \A r \in Runs : Live(r)' => Live(r)
             /\ attempts' = attempts
             /\ api'.call = "enqueue" => api' = api
  BY <1>1 DEF Live
<1>2. ASSUME NEW j \in Jobs, Submit(j) PROVE FALSE
  BY <1>2 DEF Submit
<1>3. CASE ResubmitAccepted
  BY <1>3 DEF ResubmitAccepted, TypeOK, ApiCalls
<1>4. ASSUME NEW j \in Jobs, ResubmitRead(j) \/ CancelRead(j) \/ DeleteRead(j)
      PROVE  UNCHANGED <<attempts, pc>> /\ api'.call # "enqueue"
  <2>1. row[j] \in Status
    BY DEF TypeOK
  <2> QED
    BY <2>1, <1>00, <1>4 DEF ResubmitRead, CancelRead, DeleteRead, Calls
<1>5. ASSUME NEW wait \in BOOLEAN, Shutdown(wait)
      PROVE  UNCHANGED <<attempts, pc>> /\ api'.call # "enqueue"
  BY <1>5 DEF Shutdown, Idle
<1>6. ASSUME Refuse \/ CancelSave \/ MergeRead \/ MergeSave \/ Delete \/ ShutdownAborts \/ ShutdownReturns
      PROVE  UNCHANGED <<attempts, pc>> /\ api'.call # "enqueue"
  <2>1. UNCHANGED <<attempts, pc>>
    BY <1>6 DEF Refuse, CancelSave, MergeRead, MergeSave, Delete, ShutdownAborts, ShutdownReturns
  <2>2. api'.call # "enqueue"
    BY <1>6, <1>00, MergeFacts DEF Refuse, Delete, ShutdownAborts, ShutdownReturns
  <2> QED
    BY <2>1, <2>2
<1>7. ASSUME CancelFlag PROVE UNCHANGED <<attempts, pc>> /\ api'.call # "enqueue"
  BY <1>7, <1>00 DEF CancelFlag, Calls, TypeOK, ApiCalls
<1>8. ASSUME ShutdownFlag PROVE UNCHANGED <<attempts, pc>> /\ api'.call # "enqueue"
  <2>1. PICK j \in api.todo : api' = [api EXCEPT !.todo = @ \ {j}]
    BY <1>8 DEF ShutdownFlag
  <2> QED
    BY <2>1, <1>8 DEF ShutdownFlag, TypeOK, ApiCalls
<1>9. ASSUME ShutdownFlagsDone PROVE UNCHANGED <<attempts, pc>> /\ api'.call # "enqueue"
  BY <1>9 DEF ShutdownFlagsDone, Idle
<1>10. ASSUME UNCHANGED <<attempts, pc>> /\ api'.call # "enqueue"
       PROVE  /\ \A r \in Runs : Live(r)' => Live(r)
              /\ attempts' = attempts
              /\ api'.call = "enqueue" => api' = api
  BY <1>10 DEF Live
<1>11. CASE Enqueue
  <2> DEFINE e == <<api.job, attempts[api.job]>>
  <2>1. e \in Runs /\ Live(e) /\ UNCHANGED attempts /\ api'.call # "enqueue"
    BY <1>11, <1>00 DEF Enqueue, AttemptInv, TypeOK, ApiCalls, Runs, Live
  <2>2. \A r \in Runs : r # e => pc'[r] = pc[r]
    BY <1>11, <2>1 DEF Enqueue, TypeOK
  <2>3. \A r \in Runs : pc'[r] \in Executing \cup {"queued"} => Live(r)
    BY <2>1, <2>2 DEF Live
  <2> QED
    BY <2>1, <2>3, <1>1
<1>12. CASE DropQueue
  <2>1. UNCHANGED <<attempts, api>> /\ \A r \in Runs : pc'[r] \in {pc[r], "lost"}
    BY <1>12 DEF DropQueue
  <2> QED
    BY <2>1, <1>1 DEF Live, Executing
<1>13. ASSUME NEW r \in Runs, UNCHANGED <<attempts, api>>, \A q \in Runs : q # r => pc'[q] = pc[q],
              pc'[r] \in Executing \cup {"queued"} => pc[r] \in Executing \cup {"queued"}
       PROVE  /\ \A q \in Runs : Live(q)' => Live(q)
              /\ attempts' = attempts
              /\ api'.call = "enqueue" => api' = api
  BY <1>13 DEF Live
<1>14. ASSUME NEW p \in Pools, Start(p)
       PROVE  /\ \A q \in Runs : Live(q)' => Live(q)
              /\ attempts' = attempts
              /\ api'.call = "enqueue" => api' = api
  <2>1. Head(queue[p]) \in Runs
    BY <1>14, HeadIsRun
  <2>2. pc[Head(queue[p])] = "queued"
    <3>1. queue[p] \in Seq(Runs) /\ queue[p] # <<>>
      BY <1>14 DEF Start, TypeOK
    <3>2. Head(queue[p]) = queue[p][1] /\ 1 \in 1..Len(queue[p])
      BY <3>1
    <3> QED
      BY <3>2 DEF QueueInv
  <2> QED
    BY <2>1, <2>2, <1>13, <1>14, ThreadFacts
<1>15. ASSUME NEW r \in Runs, Work(r)
       PROVE  /\ \A q \in Runs : Live(q)' => Live(q)
              /\ attempts' = attempts
              /\ api'.call = "enqueue" => api' = api
  <2>1. pc'[r] \in Executing \cup {"queued"} => pc[r] \in Executing \cup {"queued"}
    BY <1>15 DEF Work, UpdateRead, ReportRead, UpdateSave, HandlerEnds, Finish, Pop, Executing, TypeOK
  <2> QED
    BY <2>1, <1>13, <1>15, ThreadFacts
<1>16. CASE Exit
  <2>1. \A r \in Runs : pc'[r] \in {"unborn", "done", "lost"}
    BY <1>16 DEF Exit
  <2> QED
    BY <1>16, <2>1, <1>00, <1>1 DEF Exit, Executing
<1>17. CASE Restart
  BY <1>17 DEF Restart, Live
<1>18. CASE UNCHANGED vars
  BY <1>18 DEF vars, Live
<1> QED
  BY <1>2, <1>3, <1>4, <1>5, <1>6, <1>7, <1>8, <1>9, <1>10, <1>11, <1>12, <1>14, <1>15, <1>16,
     <1>17, <1>18 DEF Next, Request, ApiStep

\* The registered Event is that of the latest run: only a submission registers
\* one, and it numbers the run.
LEMMA RegisteredNext == TypeOK /\ RegisteredIsLatest /\ [Next]_vars => RegisteredIsLatest'
<1> SUFFICES ASSUME TypeOK, RegisteredIsLatest, [Next]_vars PROVE RegisteredIsLatest'
  OBVIOUS
<1> USE DEF RegisteredIsLatest, TypeOK
<1>1. CASE UNCHANGED <<flag, attempts>>
  BY <1>1
<1>2. ASSUME NEW j \in Jobs, Accept(j) PROVE RegisteredIsLatest'
  BY <1>2 DEF Accept
<1>3. ASSUME NEW r \in Runs, Pop(r) PROVE RegisteredIsLatest'
  BY <1>3 DEF Pop
<1>4. CASE Exit
  BY <1>4 DEF Exit
<1>5. CASE \E j \in Jobs : Submit(j)
  BY <1>2, <1>5 DEF Submit
<1>6. CASE ResubmitAccepted
  BY <1>2, <1>6 DEF ResubmitAccepted, ApiCalls
<1>7. CASE \E j \in Jobs : ResubmitRead(j) \/ CancelRead(j) \/ DeleteRead(j)
  BY <1>1, <1>7 DEF ResubmitRead, CancelRead, DeleteRead
<1>8. CASE ApiStep /\ ~ResubmitAccepted
  BY <1>1, <1>8 DEF ApiStep, Enqueue, Refuse, CancelFlag, CancelSave, MergeRead, MergeSave, Delete, ShutdownFlag,
     ShutdownFlagsDone, ShutdownAborts, DropQueue, ShutdownReturns
<1>9. CASE (\E wait \in BOOLEAN : Shutdown(wait)) \/ (\E p \in Pools : Start(p)) \/ Restart \/ UNCHANGED vars
  BY <1>1, <1>9 DEF Shutdown, Start, Restart, vars
<1>10. CASE \E r \in Runs : Work(r) /\ ~Pop(r)
  BY <1>1, <1>10 DEF Work, UpdateRead, ReportRead, UpdateSave, HandlerEnds, Finish
<1> QED
  BY <1>3, <1>4, <1>5, <1>6, <1>7, <1>8, <1>9, <1>10 DEF Next, Request, Work

LEMMA SignalNext ==
    TypeOK /\ QueueInv /\ AttemptInv /\ LiveInv /\ LiveInv' /\ DownInv /\ SignalInv /\ [Next]_vars => SignalInv'
<1> SUFFICES ASSUME TypeOK, QueueInv, AttemptInv, LiveInv, LiveInv', DownInv, SignalInv, [Next]_vars
             PROVE  SignalInv'
  OBVIOUS
<1> DEFINE Signalled(j) ==
             up /\ Live(<<j, 1>>) =>
               /\ flag[j] = 1
               /\ row[j] = "cancelling" => <<j, 1>> \in set
               /\ api.call = "cancelSave" /\ api.job = j => <<j, 1>> \in set
               /\ api.call = "mergeSave" /\ api.job = j /\ api.seen = "cancelling" => <<j, 1>> \in set
               /\ pc[<<j, 1>>] = "updating" /\ seen[<<j, 1>>] = "cancelling" => <<j, 1>> \in set
<1>00. Idle.call = "idle" /\ \A c \in Calls, j \in Jobs, s \in Status :
          Call(c, j, s).call = c /\ Call(c, j, s).job = j
  BY CallType
<1>0. \A j \in Jobs : <<j, 1>> \in Runs /\ <<j, 1>>[1] = j /\ <<j, 1>>[2] = 1
  BY BoundAssumption DEF Runs, Attempts
<1>01. \A r \in Runs : r[1] \in Jobs /\ r[2] \in Attempts /\ r = <<r[1], r[2]>>
  BY DEF Runs
<1>02. \A j \in Jobs : Signalled(j)
  BY DEF SignalInv
<1> SUFFICES \A j \in Jobs : Signalled(j)'
  <2>1. RegisteredIsLatest'
    BY RegisteredNext DEF SignalInv
  <2> QED
    BY <2>1 DEF SignalInv
<1>1. ASSUME NEW j \in Jobs, Accept(j), NEW i \in Jobs PROVE Signalled(i)'
  <2>1. api'.call = "enqueue" /\ flag' = [flag EXCEPT ![j] = attempts[j] + 1] /\ UNCHANGED <<up, set>>
    BY <1>1, AcceptFacts DEF Accept
  <2>2. CASE i = j
    <3> SUFFICES ASSUME Live(<<j, 1>>)' PROVE flag'[j] = 1 /\ row'[j] # "cancelling" /\ pc'[<<j, 1>>] # "updating"
      BY <2>1, <2>2
    <3>1. attempts'[j] = 1 /\ attempts[j] \in 0..MaxAttempts /\ attempts'[j] = attempts[j] + 1
      BY <1>0, <1>1, AcceptFacts DEF LiveInv, TypeOK
    <3>2. attempts[j] = 0
      BY <3>1, BoundAssumption
    <3>3. pc[<<j, 1>>] = "unborn"
      BY <3>2, <1>0 DEF AttemptInv
    <3> QED
      BY <2>1, <3>2, <3>3, <1>1, AcceptFacts DEF TypeOK
  <2>3. CASE i # j
    <3>1. Live(<<i, 1>>)' => Live(<<i, 1>>)
      BY <1>1, <2>3, AcceptFacts DEF Live
    <3>2. flag'[i] = flag[i] /\ row'[i] = row[i] /\ UNCHANGED <<pc, seen>>
      BY <1>1, <2>1, <2>3, AcceptFacts DEF TypeOK
    <3> QED
      BY <1>02, <2>1, <3>1, <3>2
  <2> QED
    BY <2>2, <2>3
<1>2. ASSUME \A j \in Jobs : ~Accept(j)
      PROVE  /\ \A r \in Runs : Live(r)' => Live(r)
             /\ \A j \in Jobs : Live(<<j, 1>>)' => Live(<<j, 1>>)
  BY <1>0, <1>2, LiveStays
<1>3. ASSUME \A j \in Jobs : ~Accept(j), UNCHANGED <<row, flag, pc, seen>>, up' => up, set \subseteq set',
             api'.call \in {"cancelSave", "mergeSave"} => api' = api
      PROVE  \A j \in Jobs : Signalled(j)'
  BY <1>2, <1>3, <1>02
<1>4. CASE \E j \in Jobs : Accept(j)
  BY <1>1, <1>4
<1>5. ASSUME \A j \in Jobs : ~Accept(j) PROVE \A j \in Jobs : Signalled(j)'
  <2> DEFINE NoAccept == \A j \in Jobs : ~Accept(j)
  <2>0. NoAccept
    BY <1>5
  <2> HIDE DEF NoAccept
  <2>1. CASE Enqueue
    <3> DEFINE e == <<api.job, attempts[api.job]>>
    <3>1. e \in Runs /\ UNCHANGED <<up, row, flag, set, seen>> /\ api'.call = "idle"
      BY <2>1, <1>00 DEF Enqueue, AttemptInv, TypeOK, ApiCalls, Runs
    <3>2. \A r \in Runs : pc'[r] = "updating" => pc[r] = "updating"
      BY <2>1, <3>1 DEF Enqueue, TypeOK
    <3> QED
      BY <3>1, <3>2, <1>0, <1>02, <1>2, <1>5
  <2>2. CASE CancelFlag
    <3>1. api'.call = "cancelSave" /\ api'.job = api.job /\ UNCHANGED <<up, row, flag, pc, seen>> /\ set \subseteq set'
      BY <2>2, <1>00 DEF CancelFlag, Calls, TypeOK, ApiCalls
    <3>2. flag[api.job] = 1 => <<api.job, 1>> \in set'
      BY <2>2 DEF CancelFlag
    <3> QED
      BY <3>1, <3>2, <1>02, <1>2, <1>5
  <2>3. CASE CancelSave
    <3>1. /\ UNCHANGED <<up, flag, set, pc, seen>> /\ api.call = "cancelSave"
          /\ api'.call \notin {"cancelSave", "mergeSave"}
      BY <2>3, MergeFacts DEF CancelSave
    <3>2. \A j \in Jobs : row'[j] = row[j] \/ j = api.job
      BY <2>3 DEF CancelSave, TypeOK
    <3> QED
      BY <3>1, <3>2, <1>02, <1>2, <1>5
  <2>18. CASE MergeRead
    <3>1. /\ api'.call = "mergeSave" /\ api'.job = api.job /\ api'.seen = row[api.job]
          /\ UNCHANGED <<up, row, flag, set, pc, seen>>
      BY <2>18, MergeFacts DEF MergeRead
    <3> QED
      BY <3>1, <1>02, <1>2, <1>5
  <2>19. CASE MergeSave
    <3>1. api'.call = "idle" /\ UNCHANGED <<up, flag, set, pc, seen>> /\ api.call = "mergeSave"
      BY <2>19, MergeFacts DEF MergeSave
    <3>2. \A j \in Jobs : row'[j] = row[j] \/ (j = api.job /\ row'[j] = api.seen)
      BY <2>19 DEF MergeSave, TypeOK
    <3> QED
      BY <3>1, <3>2, <1>02, <1>2, <1>5
  <2>4. CASE Delete
    <3>1. api'.call = "idle" /\ UNCHANGED <<up, flag, set, pc, seen>>
      BY <2>4, <1>00 DEF Delete
    <3>2. \A j \in Jobs : row'[j] = row[j] \/ row'[j] = Absent
      BY <2>4 DEF Delete, TypeOK
    <3> QED
      BY <3>1, <3>2, <1>02, <1>2, <1>5 DEF Absent
  <2>5. CASE ShutdownFlag
    <3>1. PICK j \in api.todo : api' = [api EXCEPT !.todo = @ \ {j}] /\ set' = set \cup {<<j, flag[j]>>}
      BY <2>5, Zenon DEF ShutdownFlag
    <3>2. api'.call \notin {"cancelSave", "mergeSave"}
      BY <2>5, <3>1 DEF ShutdownFlag, TypeOK, ApiCalls
    <3> QED
      BY <2>5, <3>1, <3>2, <1>3, <1>5 DEF ShutdownFlag
  <2>6. CASE Refuse \/ ShutdownAborts \/ ShutdownReturns
    BY <2>6, <1>00, <1>3, <1>5 DEF Refuse, ShutdownAborts, ShutdownReturns
  <2>7. CASE ShutdownFlagsDone
    <3>1. api'.call \notin {"cancelSave", "mergeSave"}
      BY <2>7 DEF ShutdownFlagsDone, Idle
    <3> QED
      BY <2>7, <3>1, <1>3, <1>5 DEF ShutdownFlagsDone
  <2>8. ASSUME NEW j \in Jobs, ResubmitRead(j) \/ CancelRead(j) \/ DeleteRead(j)
        PROVE  \A i \in Jobs : Signalled(i)'
    <3>1. row[j] \in Status
      BY DEF TypeOK
    <3>2. api'.call \notin {"cancelSave", "mergeSave"} /\ UNCHANGED <<up, row, flag, set, pc, seen>>
      BY <3>1, <1>00, <2>8 DEF ResubmitRead, CancelRead, DeleteRead, Calls
    <3> QED
      BY <3>2, <1>3, <1>5
  <2>9. ASSUME NEW wait \in BOOLEAN, Shutdown(wait) PROVE \A j \in Jobs : Signalled(j)'
    <3>1. api'.call \notin {"cancelSave", "mergeSave"}
      BY <2>9 DEF Shutdown, Idle
    <3> QED
      BY <2>9, <3>1, <1>3, <1>5 DEF Shutdown
  <2>10. CASE DropQueue
    <3>1. UNCHANGED <<up, row, flag, set, seen, api>> /\ \A r \in Runs : pc'[r] \in {pc[r], "lost"}
      BY <2>10 DEF DropQueue
    <3> QED
      BY <3>1, <1>0, <1>02, <1>2, <1>5
  <2>11. ASSUME NEW p \in Pools, Start(p) PROVE \A j \in Jobs : Signalled(j)'
    <3> DEFINE h == Head(queue[p])
    <3>1. h \in Runs /\ UNCHANGED <<up, flag, set, seen, api>>
      BY <2>11, HeadIsRun DEF Start
    <3>2. \A r \in Runs : pc'[r] = "updating" => pc[r] = "updating"
      BY <2>11, <3>1 DEF Start, TypeOK
    <3>3. \A j \in Jobs : row'[j] = row[j] \/ row'[j] = "running"
      BY <2>11 DEF Start, TypeOK
    <3> QED
      BY <3>1, <3>2, <3>3, <1>0, <1>02, <1>2, <1>5
  <2>12. ASSUME NEW r \in Runs, Work(r) PROVE \A j \in Jobs : Signalled(j)'
    <3>0. UNCHANGED <<up, set, api>> /\ r[1] \in Jobs /\ \A q \in Runs : q # r => pc'[q] = pc[q]
      BY <2>12, ThreadFacts
    <3>1. CASE UpdateRead(r) \/ ReportRead(r)
      <4>1. UNCHANGED <<row, flag>> /\ Live(r) /\ up
        BY <3>1 DEF UpdateRead, ReportRead, Live, Executing
      <4>2. \A j \in Jobs : <<j, 1>> = r /\ row[j] = "cancelling" => r \in set
        BY <4>1, <1>02
      <4>3. \A q \in Runs : pc'[q] = "updating" =>
              \/ pc[q] = "updating" /\ seen'[q] = seen[q]
              \/ q = r /\ seen'[q] = row[r[1]]
        BY <3>1, <3>0 DEF UpdateRead, ReportRead, TypeOK
      <4> QED
        BY <3>0, <4>1, <4>2, <4>3, <1>0, <1>02, <1>2, <1>5
    <3>2. CASE UpdateSave(r)
      <4>1. /\ Live(r)' /\ Live(r) /\ UNCHANGED flag /\ up
            /\ row' = [row EXCEPT ![r[1]] = seen[r]] /\ pc[r] = "updating"
        BY <3>2 DEF UpdateSave, Live, Executing, TypeOK
      <4>2. \A q \in Runs : pc'[q] = "updating" => pc[q] = "updating" /\ seen'[q] = seen[q]
        BY <3>2 DEF UpdateSave, TypeOK
      <4>3. \A j \in Jobs : Live(<<j, 1>>)' => row'[j] = row[j] \/ (r = <<j, 1>> /\ row'[j] = seen[r])
        <5> SUFFICES ASSUME NEW j \in Jobs, Live(<<j, 1>>)', row'[j] # row[j]
                     PROVE  r = <<j, 1>> /\ row'[j] = seen[r]
          OBVIOUS
        <5>1. r[1] = j /\ row'[j] = seen[r]
          BY <4>1 DEF TypeOK
        <5>2. r[2] = attempts'[r[1]]
          BY <4>1 DEF LiveInv
        <5>3. attempts'[j] = 1
          BY <1>0 DEF LiveInv
        <5> QED
          BY <5>1, <5>2, <5>3, <1>01
      <4> QED
        BY <3>0, <4>1, <4>2, <4>3, <1>0, <1>02, <1>2, <1>5
    <3>3. CASE HandlerEnds(r)
      <4>1. UNCHANGED <<row, flag, seen>> /\ \A q \in Runs : pc'[q] = "updating" => pc[q] = "updating"
        BY <3>3, <3>0 DEF HandlerEnds, TypeOK
      <4> QED
        BY <3>0, <4>1, <1>0, <1>02, <1>2, <1>5
    <3>4. CASE Finish(r)
      <4>1. UNCHANGED <<flag, seen>> /\ \A q \in Runs : pc'[q] = "updating" => pc[q] = "updating"
        BY <3>4, <3>0 DEF Finish, TypeOK
      <4>2. \A j \in Jobs : row'[j] = row[j] \/ row'[j] \in {"succeeded", "failed", "cancelled"}
        BY <3>4 DEF Finish, TypeOK
      <4> QED
        BY <3>0, <4>1, <4>2, <1>0, <1>02, <1>2, <1>5
    <3>5. CASE Pop(r)
      <4>1. UNCHANGED <<row, seen, attempts, api>> /\ flag' = [flag EXCEPT ![r[1]] = 0] /\ pc[r] = "popping" /\ pc'[r] = "done"
        BY <3>5 DEF Pop, TypeOK
      <4>2. ~Live(r) /\ r[2] <= attempts[r[1]]
        BY <4>1 DEF Live, Executing, AttemptInv
      <4>3. \A j \in Jobs : Live(<<j, 1>>)' => j # r[1]
        <5> SUFFICES ASSUME Live(<<r[1], 1>>) PROVE FALSE
          BY <1>2, <1>5, <3>0
        <5>1. attempts[r[1]] = 1
          BY <1>0, <3>0 DEF LiveInv
        <5>2. r = <<r[1], 1>>
          BY <5>1, <4>2, <1>01 DEF Attempts
        <5> QED
          BY <5>2, <4>2
      <4>4. \A q \in Runs : pc'[q] = "updating" => pc[q] = "updating"
        BY <3>0, <4>1
      <4>5. \A j \in Jobs : j # r[1] => flag'[j] = flag[j]
        BY <4>1 DEF TypeOK
      <4> QED
        BY <3>0, <4>1, <4>3, <4>4, <4>5, <1>0, <1>02, <1>2, <1>5
    <3> QED
      BY <2>12, <3>1, <3>2, <3>3, <3>4, <3>5 DEF Work
  <2>13. CASE Exit
    BY <2>13 DEF Exit
  <2>14. CASE Restart
    <3>1. \A r \in Runs : pc'[r] \in {"unborn", "done", "lost"}
      BY <2>14 DEF Restart, DownInv
    <3>2. api'.call # "enqueue"
      BY <2>14, <1>00 DEF Restart, DownInv
    <3> QED
      BY <3>1, <3>2, <1>0 DEF Live, Executing
  <2>15. CASE UNCHANGED vars
    BY <2>15, <1>3, <1>5 DEF vars
  <2>16. \A j \in Jobs : ~Submit(j)
    BY <1>5 DEF Submit
  <2>17. ~ResubmitAccepted
    BY <1>5 DEF ResubmitAccepted, TypeOK, ApiCalls
  <2> QED
    BY <2>1, <2>2, <2>3, <2>4, <2>5, <2>6, <2>7, <2>8, <2>9, <2>10, <2>11, <2>12, <2>13, <2>14, <2>15,
       <2>16, <2>17, <2>18, <2>19 DEF Next, Request, ApiStep
<1> QED
  BY <1>4, <1>5

-----------------------------------------------------------------------------
(* The pending rows.                                                       *)

LEMMA SavedNext ==
    TypeOK /\ QueueInv /\ DownInv /\ ScheduleInv /\ SavedInv /\ [Next]_vars => SavedInv'
<1> SUFFICES ASSUME TypeOK, QueueInv, DownInv, ScheduleInv, SavedInv, [Next]_vars PROVE SavedInv'
  OBVIOUS
<1> DEFINE Out == api'.call \notin {"cancelFlag", "cancelSave", "mergeRead", "mergeSave"}
<1>0. Idle.call = "idle" /\ \A c \in Calls, j \in Jobs, s \in Status :
          Call(c, j, s).call = c /\ Call(c, j, s).job = j /\ Call(c, j, s).seen = s
  BY CallType
<1>1. ASSUME Out PROVE SavedInv'
  BY <1>1 DEF SavedInv
<1>2. ASSUME api' = api, \A j \in Jobs : row'[j] = "pending" => row[j] = "pending" PROVE SavedInv'
  BY <1>2 DEF SavedInv, TypeOK, ApiCalls
<1>3. ASSUME NEW j \in Jobs, Submit(j) PROVE Out
  BY <1>3, AcceptFacts DEF Submit
<1>4. ASSUME NEW j \in Jobs, ResubmitRead(j) \/ DeleteRead(j) PROVE Out
  <2>1. row[j] \in Status
    BY DEF TypeOK
  <2> QED
    BY <2>1, <1>0, <1>4 DEF ResubmitRead, DeleteRead, Calls
<1>5. ASSUME NEW wait \in BOOLEAN, Shutdown(wait) PROVE Out
  BY <1>5 DEF Shutdown, Idle
<1>6. ASSUME ResubmitAccepted PROVE Out
  BY <1>6, AcceptFacts DEF ResubmitAccepted, TypeOK, ApiCalls
<1>7. ASSUME Enqueue \/ Refuse \/ Delete \/ ShutdownAborts \/ ShutdownReturns \/ MergeSave \/ Exit PROVE Out
  BY <1>7, <1>0 DEF Enqueue, Refuse, Delete, ShutdownAborts, ShutdownReturns, MergeSave, Exit
<1>8. ASSUME NEW j \in Jobs, CancelRead(j) PROVE SavedInv'
  <2>1. row[j] \in Status
    BY DEF TypeOK
  <2>2. api'.call = "cancelFlag" /\ api'.job = j /\ api'.seen = row[j] /\ row' = row
    BY <2>1, <1>0, <1>8 DEF CancelRead, Calls
  <2> QED
    BY <2>2 DEF SavedInv
<1>9. CASE CancelFlag
  <2>1. api.job \in Jobs /\ api.seen \in Status
    BY DEF TypeOK, ApiCalls
  <2>2. api'.call = "cancelSave" /\ api'.job = api.job /\ api'.seen = api.seen /\ row' = row /\ api.call = "cancelFlag"
    BY <2>1, <1>0, <1>9 DEF CancelFlag, Calls
  <2> QED
    BY <2>2 DEF SavedInv
<1>10. CASE CancelSave
  <2>1. api'.call \in {"idle", "mergeRead"} /\ (api'.call = "mergeRead" => api'.job = api.job)
    BY <1>10, MergeFacts
  <2>2. row'[api.job] # "pending"
    BY <1>10 DEF CancelSave, SavedInv, TypeOK, ApiCalls
  <2> QED
    BY <2>1, <2>2 DEF SavedInv
<1>11. CASE MergeRead
  BY <1>11, MergeFacts DEF MergeRead, SavedInv
<1>12. ASSUME ShutdownFlag PROVE Out
  <2>1. PICK j \in api.todo : api' = [api EXCEPT !.todo = @ \ {j}]
    BY <1>12 DEF ShutdownFlag
  <2> QED
    BY <2>1, <1>12 DEF ShutdownFlag, TypeOK, ApiCalls
<1>13. ASSUME ShutdownFlagsDone PROVE Out
  BY <1>13 DEF ShutdownFlagsDone, Idle
<1>14. CASE DropQueue \/ UNCHANGED vars
  BY <1>2, <1>14 DEF DropQueue, vars
<1>15. CASE \E p \in Pools : Start(p)
  <2>1. api' = api /\ \A j \in Jobs : row'[j] = row[j] \/ row'[j] = "running"
    BY <1>15 DEF Start, TypeOK
  <2> QED
    BY <2>1, <1>2
<1>16. ASSUME NEW r \in Runs, Work(r) PROVE SavedInv'
  <2>1. \A j \in Jobs : row'[j] = "pending" => row[j] = "pending"
    BY <1>16 DEF Work, UpdateRead, ReportRead, UpdateSave, HandlerEnds, Finish, Pop, ScheduleInv, TypeOK
  <2> QED
    BY <2>1, <1>2, <1>16, ThreadFacts
<1>17. CASE Restart
  BY <1>17, <1>0, <1>1 DEF Restart, DownInv
<1> HIDE DEF Out
<1> QED
  BY <1>1, <1>3, <1>4, <1>5, <1>6, <1>7, <1>8, <1>9, <1>10, <1>11, <1>12, <1>13, <1>14, <1>15, <1>16, <1>17
     DEF Next, Request, ApiStep

LEMMA ScheduleNext ==
    TypeOK /\ QueueInv /\ AttemptInv /\ LiveInv /\ ReadInv /\ DownInv /\ SavedInv /\ ScheduleInv /\ [Next]_vars
      => ScheduleInv'
<1> SUFFICES ASSUME TypeOK, QueueInv, AttemptInv, LiveInv, ReadInv, DownInv, SavedInv, ScheduleInv, [Next]_vars
             PROVE  ScheduleInv'
  OBVIOUS
<1> DEFINE Waits(j) == \E n \in Attempts : Live(<<j, n>>) /\ pc[<<j, n>>] \notin Executing
           Started(r) == /\ pc[r] \in Executing => row[r[1]] # "pending"
                         /\ pc[r] = "updating" => seen[r] # "pending"
           Closing == api.call \in {"flagAll", "dropQueues", "drain"} => closed
           Up == up /\ boots = 1 /\ ~closed
           Scheduled(j) == Up /\ row[j] = "pending" => Waits(j)
           Goal == (\A r \in Runs : Started(r)') /\ Closing' /\ \A j \in Jobs : Scheduled(j)'
<1>0. \A r \in Runs : r[1] \in Jobs /\ r[2] \in Attempts /\ r = <<r[1], r[2]>>
  BY DEF Runs
<1>00. Idle.call = "idle" /\ \A c \in Calls, j \in Jobs, s \in Status : Call(c, j, s).call = c
  BY CallType
<1>01. (\A r \in Runs : Started(r)) /\ Closing /\ \A j \in Jobs : Scheduled(j)
  BY DEF ScheduleInv, PendingRowIsScheduled
<1>02. \A j \in Jobs, n \in Attempts : <<j, n>> \in Runs /\ <<j, n>>[1] = j
  BY DEF Runs
<1> SUFFICES Goal
  BY DEF ScheduleInv, PendingRowIsScheduled
<1>1. ASSUME NEW j \in Jobs, Accept(j), attempts[j] < MaxAttempts, api.call # "enqueue",
             \A r \in Runs : r[1] = j => pc[r] \notin Executing
      PROVE  Goal
  <2>1. api'.call = "enqueue" /\ api'.job = j /\ UNCHANGED <<up, boots, closed, pc, seen>>
    BY <1>1, AcceptFacts DEF Accept
  <2>2. \A r \in Runs : Started(r)'
    BY <1>0, <1>01, <1>1, <2>1, AcceptFacts DEF Executing
  <2>3. Waits(j)'
    <3>1. attempts'[j] \in Attempts
      BY <1>1, AcceptFacts, BoundAssumption DEF TypeOK, Attempts
    <3>2. PICK n \in Attempts : n = attempts'[j]
      BY <3>1
    <3>3. Live(<<j, n>>)'
      BY <2>1, <3>2 DEF Live
    <3>4. pc'[<<j, n>>] \notin Executing
      BY <2>1, <1>02, <1>1
    <3> QED
      BY <3>3, <3>4
  <2>4. ASSUME NEW i \in Jobs, i # j PROVE Scheduled(i)'
    <3>1. Waits(i) => Waits(i)'
      BY <2>1, <1>1 DEF Live
    <3> QED
      BY <1>01, <2>1, <2>4, <3>1, <1>1, AcceptFacts
  <2> QED
    BY <2>1, <2>2, <2>3, <2>4
<1>2. ASSUME UNCHANGED <<attempts, pc, seen>>, Up' => Up, api.call = "enqueue" => api' = api,
             \A j \in Jobs : row'[j] = row[j] \/ row'[j] # "pending", Closing'
      PROVE  Goal
  <2>1. \A j \in Jobs : Waits(j) => Waits(j)'
    BY <1>2 DEF Live
  <2>2. \A r \in Runs : Started(r)'
    BY <1>0, <1>01, <1>2
  <2> QED
    BY <2>1, <2>2, <1>01, <1>2
<1>3. ASSUME NEW r \in Runs, UNCHANGED <<attempts, boots, closed, api>>, Up' => Up,
             \A q \in Runs : q # r => pc'[q] = pc[q] /\ seen'[q] = seen[q],
             \A j \in Jobs : j # r[1] => row'[j] = row[j],
             row'[r[1]] = "pending" => row[r[1]] = "pending" /\ pc[r] \notin Executing /\ pc'[r] \notin Executing
                                       /\ (Live(r) => Live(r)'),
             pc'[r] = "updating" => seen'[r] # "pending"
      PROVE  Goal
  <2>1. \A j \in Jobs : row'[j] = "pending" => row[j] = "pending"
    BY <1>3
  <2>2. ASSUME NEW j \in Jobs, row'[j] = "pending", Waits(j) PROVE Waits(j)'
    <3>1. PICK n \in Attempts : Live(<<j, n>>) /\ pc[<<j, n>>] \notin Executing
      BY <2>2
    <3>2. CASE <<j, n>> = r
      <4>1. r[1] = j
        BY <3>2
      <4> QED
        BY <4>1, <3>1, <3>2, <2>2, <1>3
    <3>3. CASE <<j, n>> # r
      <4>1. pc'[<<j, n>>] = pc[<<j, n>>]
        BY <3>3, <1>02, <1>3
      <4> QED
        BY <4>1, <3>1, <1>3 DEF Live
    <3> QED
      BY <3>2, <3>3
  <2>3. ASSUME NEW q \in Runs PROVE Started(q)'
    <3>1. CASE q = r
      BY <3>1, <1>3
    <3>2. CASE q # r
      BY <3>2, <2>1, <1>0, <1>01, <1>3
    <3> QED
      BY <3>1, <3>2
  <2> QED
    BY <2>1, <2>2, <2>3, <1>01, <1>3
<1>4. ASSUME NEW j \in Jobs, Submit(j) PROVE Goal
  <2>1. \A r \in Runs : r[1] = j => pc[r] = "unborn"
    BY <1>0, <1>4 DEF Submit, AttemptInv, Attempts
  <2> QED
    BY <1>1, <1>4, <1>00, <2>1, BoundAssumption DEF Submit, Executing
<1>5. CASE ResubmitAccepted
  <2>1. row[api.job] \in Terminal /\ api.job \in Jobs
    BY <1>5 DEF ResubmitAccepted, ReadInv, Resubmittable, TypeOK, ApiCalls
  <2>2. \A r \in Runs : r[1] = api.job => pc[r] \notin Executing
    BY <2>1 DEF LiveInv, Live, Terminal, Active
  <2> QED
    BY <1>1, <1>5, <2>1, <2>2 DEF ResubmitAccepted
<1>6. ASSUME NEW j \in Jobs, ResubmitRead(j) \/ CancelRead(j) \/ DeleteRead(j) PROVE Goal
  <2>1. row[j] \in Status
    BY DEF TypeOK
  <2>2. /\ UNCHANGED <<up, boots, closed, row, attempts, pc, seen>>
        /\ api'.call \in {"resubmit", "cancelFlag", "delete"} /\ api.call = "idle"
    BY <2>1, <1>00, <1>6 DEF ResubmitRead, CancelRead, DeleteRead, Calls
  <2> QED
    BY <2>2, <1>2
<1>7. ASSUME NEW wait \in BOOLEAN, Shutdown(wait) PROVE Goal
  <2>1. closed' /\ UNCHANGED <<up, boots, row, attempts, pc, seen>> /\ api.call = "idle"
    BY <1>7, <1>00 DEF Shutdown
  <2> QED
    BY <2>1, <1>2
<1>8. CASE CancelSave \/ MergeRead \/ MergeSave \/ Delete \/ Refuse \/ ShutdownAborts \/ ShutdownReturns
  <2>1. UNCHANGED <<up, boots, closed, attempts, pc, seen>> /\ api.call # "enqueue"
    BY <1>8 DEF CancelSave, MergeRead, MergeSave, Delete, Refuse, ShutdownAborts, ShutdownReturns
  <2>2. \A j \in Jobs : row'[j] = row[j] \/ row'[j] # "pending"
    BY <1>8 DEF CancelSave, MergeRead, MergeSave, Delete, Refuse, ShutdownAborts, ShutdownReturns, TypeOK,
       Absent, SavedInv
  <2>3. api'.call \in {"idle", "mergeRead", "mergeSave"}
    BY <1>8, <1>00, MergeFacts DEF Delete, Refuse, ShutdownAborts, ShutdownReturns
  <2> QED
    BY <2>1, <2>2, <2>3, <1>2
<1>9. CASE CancelFlag
  BY <1>9, <1>00, <1>2 DEF CancelFlag, Calls, TypeOK, ApiCalls
<1>10. CASE ShutdownFlag
  <2>1. PICK j \in api.todo : api' = [api EXCEPT !.todo = @ \ {j}]
    BY <1>10 DEF ShutdownFlag
  <2>2. api'.call = api.call /\ api.call = "flagAll"
    BY <2>1, <1>10 DEF ShutdownFlag, TypeOK, ApiCalls
  <2> QED
    BY <2>2, <1>01, <1>2, <1>10 DEF ShutdownFlag
<1>11. CASE ShutdownFlagsDone
  BY <1>01, <1>2, <1>11 DEF ShutdownFlagsDone
<1>12. CASE Enqueue
  <2> DEFINE e == <<api.job, attempts[api.job]>>
  <2>1. /\ e \in Runs /\ pc[e] = "unborn" /\ e[1] = api.job
        /\ UNCHANGED <<up, boots, closed, row, attempts, seen>> /\ api'.call = "idle"
    BY <1>12, <1>00 DEF Enqueue, AttemptInv, TypeOK, ApiCalls, Runs
  <2>2. pc' = [pc EXCEPT ![e] = "queued"]
    BY <1>12 DEF Enqueue
  <2> HIDE DEF e
  <2>3. pc'[e] = "queued" /\ \A q \in Runs : q # e => pc'[q] = pc[q]
    BY <2>1, <2>2 DEF TypeOK
  <2>4. \A q \in Runs : Started(q)'
    BY <2>1, <2>3, <1>01 DEF Executing
  <2>5. \A q \in Runs : Live(q) /\ pc[q] \notin Executing => Live(q)' /\ pc'[q] \notin Executing
    <3>1. \A q \in Runs : Live(q) /\ q # e => pc[q] \in Executing \cup {"queued"}
      BY DEF Live, e
    <3> QED
      BY <2>3, <3>1 DEF Live, Executing
  <2>6. \A j \in Jobs : Waits(j) => Waits(j)'
    BY <2>5, <1>02
  <2> QED
    BY <2>1, <2>4, <2>6, <1>01
<1>13. CASE DropQueue
  <2>1. closed /\ UNCHANGED <<up, boots, closed, row, seen, api>> /\ \A q \in Runs : pc'[q] \in {pc[q], "lost"}
    BY <1>13, <1>01 DEF DropQueue
  <2> QED
    BY <2>1, <1>01 DEF Executing
<1>14. ASSUME NEW p \in Pools, Start(p) PROVE Goal
  <2> DEFINE h == Head(queue[p])
  <2>1. h \in Runs /\ UNCHANGED <<up, boots, closed, attempts, seen, api>> /\ row'[h[1]] = "running" /\ pc'[h] = "handler"
    BY <1>14, <1>0, HeadIsRun DEF Start, TypeOK
  <2>2. (\A q \in Runs : q # h => pc'[q] = pc[q]) /\ \A j \in Jobs : j # h[1] => row'[j] = row[j]
    BY <2>1, <1>14, ThreadFacts
  <2> HIDE DEF h
  <2> QED
    BY <2>1, <2>2, <1>3
<1>15. ASSUME NEW r \in Runs, Work(r) PROVE Goal
  <2>0. /\ UNCHANGED <<up, boots, closed, attempts, api>> /\ r[1] \in Jobs
        /\ \A q \in Runs : q # r => pc'[q] = pc[q]
        /\ \A j \in Jobs : j # r[1] => row'[j] = row[j]
    BY <1>15, ThreadFacts
  <2>1. \A q \in Runs : q # r => seen'[q] = seen[q]
    BY <1>15 DEF Work, UpdateRead, ReportRead, UpdateSave, HandlerEnds, Finish, Pop, TypeOK
  <2>2. CASE UpdateRead(r) \/ ReportRead(r) \/ UpdateSave(r) \/ HandlerEnds(r)
    <3>1. row'[r[1]] # "pending"
      BY <2>2, <1>01, <2>0 DEF UpdateRead, ReportRead, UpdateSave, HandlerEnds, Executing, TypeOK
    <3>2. pc'[r] = "updating" => seen'[r] # "pending"
      BY <2>2, <1>01 DEF UpdateRead, ReportRead, UpdateSave, HandlerEnds, Executing, TypeOK
    <3> QED
      BY <2>0, <2>1, <3>1, <3>2, <1>3
  <2>3. CASE Finish(r)
    <3>1. row'[r[1]] # "pending"
      BY <2>3, <1>01, <2>0 DEF Finish, Executing, TypeOK, Absent
    <3>2. pc'[r] # "updating"
      BY <2>3 DEF Finish, TypeOK
    <3> QED
      BY <2>0, <2>1, <3>1, <3>2, <1>3
  <2>4. CASE Pop(r)
    <3>1. row' = row /\ pc[r] = "popping" /\ pc'[r] = "done"
      BY <2>4 DEF Pop, TypeOK
    <3>2. ~Live(r)
      BY <3>1 DEF Live, Executing, AttemptInv
    <3> QED
      BY <2>0, <2>1, <3>1, <3>2, <1>3 DEF Executing
  <2> QED
    BY <1>15, <2>2, <2>3, <2>4 DEF Work
<1>16. CASE Exit
  <2>1. ~up' /\ api' = Idle /\ \A r \in Runs : pc'[r] \in {"unborn", "done", "lost"}
    BY <1>16 DEF Exit
  <2> QED
    BY <2>1, <1>00 DEF Executing
<1>17. CASE Restart
  <2>1. boots' # 1
    BY <1>17 DEF Restart, TypeOK
  <2>2. \A r \in Runs : pc'[r] \in {"unborn", "done", "lost"}
    BY <1>17 DEF Restart, DownInv
  <2>3. api'.call = "idle"
    BY <1>17, <1>00 DEF Restart, DownInv
  <2> QED
    BY <2>1, <2>2, <2>3 DEF Executing
<1>18. CASE UNCHANGED vars
  BY <1>18, <1>2, <1>01 DEF vars
<1> QED
  BY <1>4, <1>5, <1>6, <1>7, <1>8, <1>9, <1>10, <1>11, <1>12, <1>13, <1>14, <1>15, <1>16, <1>17, <1>18
     DEF Next, Request, ApiStep

-----------------------------------------------------------------------------
LEMMA IInvInit == Init => IInv
<1> SUFFICES ASSUME Init PROVE IInv
  OBVIOUS
<1>1. Idle.call = "idle" /\ Idle.todo = {} /\ Idle.keys = {}
  BY DEF Idle
<1>2. TypeOK
  BY TypeInit
<1>3. QueueInv
  BY DEF Init, QueueInv
<1>4. AttemptInv /\ LiveInv /\ ReadInv /\ DownInv
  BY <1>1 DEF Init, AttemptInv, LiveInv, ReadInv, DownInv, Live, Executing
<1>5. RunningRowHasRun
  BY DEF Init, RunningRowHasRun, Absent
<1>6. \A j \in Jobs : <<j, 1>> \in Runs
  BY BoundAssumption DEF Runs, Attempts
<1>7. SignalInv
  BY <1>1, <1>6 DEF Init, SignalInv, RegisteredIsLatest, Live, Executing
<1>8. ScheduleInv
  BY <1>1 DEF Init, ScheduleInv, PendingRowIsScheduled, Executing, Absent, Runs
<1>9. MergeInv /\ SavedInv
  BY <1>1 DEF Init, MergeInv, SavedInv
<1> QED
  BY <1>2, <1>3, <1>4, <1>5, <1>7, <1>8, <1>9 DEF IInv

\* The strengthened invariant holds in every reachable state.
THEOREM Invariance == Spec => []IInv
<1>1. IInv /\ [Next]_vars => IInv'
  BY TypeNext, QueueNext, AttemptNext, LiveNext, ReadNext, DownNext, RunningNext, SignalNext, ScheduleNext, MergeNext,
     SavedNext DEF IInv
<1> QED
  BY <1>1, IInvInit, PTL DEF Spec

\* Type correctness (JobQueue.TypeOK), for every set of jobs, every executor
\* size and every bound.
THEOREM TypeCorrect == Spec => []TypeOK
<1>1. IInv => TypeOK
  BY DEF IInv
<1> QED
  BY <1>1, Invariance, PTL

\* No row shows an end while a run of its job can still write it: the retry
\* and the delete that rely on a terminal status never meet a live run.
THEOREM EndedRowsRest == Spec => []EndedRowIsAtRest
<1>1. IInv => EndedRowIsAtRest
  BY DEF IInv, LiveInv, EndedRowIsAtRest
<1> QED
  BY <1>1, Invariance, PTL

\* At most one run of a job is live, whatever the interleaving of requests,
\* threads, crashes and restarts.
THEOREM SingleRun == Spec => []OneLiveRun
<1>1. IInv => OneLiveRun
  <2> SUFFICES ASSUME IInv, NEW q \in Runs, NEW r \in Runs, q[1] = r[1], Live(q), Live(r)
               PROVE  q = r
    BY DEF OneLiveRun
  <2>1. q = <<q[1], q[2]>> /\ r = <<r[1], r[2]>>
    BY DEF Runs
  <2> QED
    BY <2>1 DEF IInv, LiveInv
<1> QED
  BY <1>1, Invariance, PTL

\* While a process is up, every running row has a thread that executes it,
\* whatever update(), cancel(), retries, final writes and restarts do; the row
\* of a job cancelled through the download route is excepted, for the merge of
\* that route can save running over a final status.
THEOREM RunningRowsRun == Spec => []RunningRowHasRun
<1>1. IInv => RunningRowHasRun
  BY DEF IInv
<1> QED
  BY <1>1, Invariance, PTL

\* A cancel that was accepted reaches its run: the registered Event is that of
\* the job's latest run, and once the row says cancelling the Event of the live
\* first run is set, whatever the order of cancel()'s and update()'s accesses.
THEOREM CancelsReach == Spec => []CancelReachesItsRun
<1>1. IInv => CancelReachesItsRun
  BY DEF IInv, SignalInv, CancelReachesItsRun, AcceptedCancelIsSignalled
<1> QED
  BY <1>1, Invariance, PTL

\* In the first process, until it begins to shut down, a pending row has a run
\* that waits for a thread: no stale write takes a started job back to pending.
THEOREM PendingRowsWait == Spec => []PendingRowIsScheduled
<1>1. IInv => PendingRowIsScheduled
  BY DEF IInv, ScheduleInv
<1> QED
  BY <1>1, Invariance, PTL
=============================================================================
