---------------------------- MODULE GpuScheduler ----------------------------
(***************************************************************************)
(* runtime/gpu_scheduler.py: one bounded semaphore that model loading,     *)
(* unloading, inference, benchmarks and fine-tuning share.                 *)
(*                                                                         *)
(* A task takes the semaphore either on a worker thread (acquire_sync) or  *)
(* for a coroutine (acquire), which runs _acquire_sync and _release_sync   *)
(* on a pool thread and awaits it.  When the client of a coroutine goes    *)
(* away, the coroutine is cancelled; the pool thread is not: an _acquire_  *)
(* sync that still waits will get the semaphore for nobody.                *)
(*                                                                         *)
(* Each access under _lock and each semaphore operation is one action.     *)
(***************************************************************************)
EXTENDS Naturals, FiniteSets

CONSTANTS
    Tasks,          \* the calls that ask for the GPU
    Coroutines,     \* those that wait in a coroutine, by asyncio.to_thread
    MaxHeavyTasks,  \* size of the semaphore
    Enabled         \* gpu_scheduler.enabled of the configuration

ASSUME GpuAssumption ==
    /\ IsFiniteSet(Tasks) /\ Coroutines \subseteq Tasks
    /\ MaxHeavyTasks \in Nat \ {0}
    /\ Enabled \in BOOLEAN

VARIABLES
    gpu,      \* where each task stands in acquire / release
    free,     \* permits left in the semaphore
    running,  \* _running
    queued,   \* _queued_count
    gone      \* tasks whose coroutine was cancelled while a pool thread waited for it

gpuVars == <<gpu, free, running, queued, gone>>

\* out        no call, or the call is over
\* waiting    counted, blocked on the semaphore
\* granted    has a permit, not yet listed
\* listed     has a permit and is listed, still counted as queued
\* refused    timed out, still counted as queued
\* held       _acquire_sync returned: the caller is in its with block
\* unlisted   left the block, taken off the list, permit not yet returned
Stages == {"out", "waiting", "granted", "listed", "refused", "held", "unlisted"}
Owning == {"granted", "listed", "held", "unlisted"}
Counted == {"waiting", "granted", "listed", "refused"}

GpuInit ==
    /\ gpu = [t \in Tasks |-> "out"]
    /\ free = MaxHeavyTasks
    /\ running = {}
    /\ queued = 0
    /\ gone = {}

Holds(t) == gpu[t] = "held" /\ t \notin gone

Move(t, stage) == gpu' = [gpu EXCEPT ![t] = stage]

\* _acquire_sync begins.  A disabled scheduler hands out the empty token.
Ask(t) ==
    /\ gpu[t] = "out" /\ t \notin gone
    /\ IF Enabled
       THEN Move(t, "waiting") /\ queued' = queued + 1
       ELSE Move(t, "held") /\ UNCHANGED queued
    /\ UNCHANGED <<free, running, gone>>

Grant(t) ==
    /\ gpu[t] = "waiting" /\ free > 0
    /\ free' = free - 1
    /\ Move(t, "granted")
    /\ UNCHANGED <<running, queued, gone>>

\* (Mutant) A wait that times out gives back a permit it never had.
MutExpire(t) ==
    /\ gpu[t] = "waiting" /\ free = 0
    /\ free' = free + 1
    /\ Move(t, "refused")
    /\ UNCHANGED <<running, queued, gone>>

\* (Mutant) A wait has no timeout while the task ahead of it was cancelled.
MutExpireLate(t) ==
    /\ gpu[t] = "waiting" /\ free = 0 /\ gone = {}
    /\ Move(t, "refused")
    /\ UNCHANGED <<free, running, queued, gone>>

\* semaphore.acquire(timeout=...) gives up: GpuTaskTimeoutError.
Expire(t) ==
    /\ gpu[t] = "waiting" /\ free = 0
    /\ Move(t, "refused")
    /\ UNCHANGED <<free, running, queued, gone>>

List(t) ==
    /\ gpu[t] = "granted"
    /\ running' = running \cup {t}
    /\ Move(t, "listed")
    /\ UNCHANGED <<free, queued, gone>>

\* finally: the count goes down, not below 0; the caller gets the token, or
\* the timeout.
Uncount(t) ==
    /\ gpu[t] \in {"listed", "refused"}
    /\ queued' = IF queued > 0 THEN queued - 1 ELSE 0
    /\ Move(t, IF gpu[t] = "listed" THEN "held" ELSE "out")
    /\ UNCHANGED <<free, running, gone>>

\* The with block is left, normally or by an exception.  A cancelled
\* coroutine leaves it too: only the wait is at risk.
Unlist(t) ==
    /\ Holds(t)
    /\ IF Enabled
       THEN Move(t, "unlisted") /\ running' = running \ {t}
       ELSE Move(t, "out") /\ UNCHANGED running
    /\ UNCHANGED <<free, queued, gone>>

\* semaphore.release(): a BoundedSemaphore raises when this takes it beyond its
\* size, so GpuTypeOK says that it never does.
Return(t) ==
    /\ gpu[t] = "unlisted"
    /\ free' = free + 1
    /\ Move(t, "out")
    /\ UNCHANGED <<running, queued, gone>>

\* The coroutine of t is cancelled at `await asyncio.to_thread(_acquire_sync)`:
\* the try block that would release is never entered.
Cancel(t) ==
    /\ t \in Coroutines /\ t \notin gone
    /\ gpu[t] \in Counted
    /\ gone' = gone \cup {t}
    /\ UNCHANGED <<gpu, free, running, queued>>

GpuThread(t) == Grant(t) \/ List(t) \/ Uncount(t) \/ Return(t)
GpuStep(t) == GpuThread(t) \/ Expire(t)

GpuNext == \E t \in Tasks : Ask(t) \/ GpuStep(t) \/ Unlist(t) \/ Cancel(t)

GpuSpec == GpuInit /\ [][GpuNext]_gpuVars

\* Pool threads run and a block that holds the GPU is left in the end; a
\* wait that is not served ends with its timeout.
GpuFairness ==
    \A t \in Tasks : WF_gpuVars(GpuStep(t)) /\ WF_gpuVars(Unlist(t))

-----------------------------------------------------------------------------
GpuTypeOK ==
    /\ gpu \in [Tasks -> Stages]
    /\ free \in 0..MaxHeavyTasks
    /\ running \in SUBSET Tasks
    /\ queued \in Nat
    /\ gone \in SUBSET Coroutines

Owners == {t \in Tasks : gpu[t] \in Owning}
Waiters == {t \in Tasks : gpu[t] \in Counted}

\* No permit is lost or made up: what is not free has an owner.
PermitsAccounted == Enabled => free + Cardinality(Owners) = MaxHeavyTasks

\* The reported queue length is that of the calls between the two sections
\* that count: the max(0, ...) of the decrement never hides an error.
QueueCounted == queued = Cardinality(Waiters)

\* Every call for the GPU is answered, served or refused.
EveryAskAnswered == \A t \in Tasks : gpu[t] = "waiting" ~> gpu[t] \in {"held", "out"}

\* A refusal says that the GPU is executing another task (gpu_scheduler.py:105):
\* some call that will return its permit has it.
RefusalMeansBusy ==
    [][\A t \in Tasks : gpu[t] = "waiting" /\ gpu'[t] = "refused" => \E s \in Owners : s \notin gone]_gpuVars
=============================================================================
