---------------------------- MODULE ModelRuntime ----------------------------
(***************************************************************************)
(* How api_server.py loads, uses and unloads text models: _get_or_load_    *)
(* runner and _load_text_model, /v1/models/unload and the non-streaming    *)
(* branch of /v1/chat/completions, over the load lock and the inference    *)
(* gate of runtime/concurrency.py and the GPU scheduler (GpuScheduler).    *)
(*                                                                         *)
(* A request is a coroutine on the event loop: what it does between two    *)
(* awaits is one action.  It awaits the load lock, the gate, the GPU and   *)
(* the pool threads that load, unload or generate; in each of those gaps   *)
(* any other request may run.  A runner object is named by the request     *)
(* that created it, so a reloaded model is a different runner.             *)
(***************************************************************************)
EXTENDS GpuScheduler

CONSTANTS
    Models,       \* paths of models in the repository
    Kind,         \* "load", "unload" or "chat" for each request
    Model,        \* the model a request names
    Slots,        \* inference_concurrency
    QueueLimit,   \* queue_limit: requests waiting for or using a slot
    None

ASSUME RuntimeAssumption ==
    /\ Kind \in [Tasks -> {"load", "unload", "chat"}]
    /\ Model \in [Tasks -> Models]
    /\ Slots \in Nat \ {0} /\ QueueLimit \in Nat
    /\ None \notin Tasks \cup Models

VARIABLES
    at,       \* where each request stands
    lock,     \* holder of _load_lock
    runners,  \* _runners
    current,  \* _current_model_id
    got,      \* the runner a chat request works with
    model,    \* is a runner's model in memory: "none", "loaded", "unloaded"
    gate,     \* requests counted in _queued
    slots     \* requests that hold the inference semaphore

runtimeVars == <<at, lock, runners, current, got, model, gate, slots>>
vars == <<gpuVars, runtimeVars>>

Points == {"start", "lockWait", "locked", "loadGpu", "loading", "loadDone", "loadFailed",
           "unloadGpu", "unloading", "unloadDone", "gate", "slotWait", "slot", "chatGpu",
           "generating", "chatDone", "slotFree", "over"}

Init ==
    /\ GpuInit
    /\ at = [r \in Tasks |-> "start"]
    /\ lock = None
    /\ runners = [m \in Models |-> None]
    /\ current = None
    /\ got = [r \in Tasks |-> None]
    /\ model = [r \in Tasks |-> "none"]
    /\ gate = {}
    /\ slots = {}

Go(r, point) == at' = [at EXCEPT ![r] = point]
After(r) == IF Kind[r] = "chat" THEN "gate" ELSE "over"

-----------------------------------------------------------------------------
(* Finding or loading the runner.                                          *)

\* The runner is there: the model becomes the current one and the request
\* keeps the object.
UseRunner(r) ==
    /\ current' = Model[r]
    /\ got' = [got EXCEPT ![r] = runners[Model[r]]]
    /\ Go(r, After(r))

\* First test of `model_path in _runners`, outside the lock.
Resolve(r) ==
    /\ at[r] = "start" /\ Kind[r] # "unload"
    /\ IF runners[Model[r]] # None
       THEN UseRunner(r)
       ELSE Go(r, "lockWait") /\ UNCHANGED <<current, got>>
    /\ UNCHANGED <<gpuVars, lock, runners, model, gate, slots>>

AskUnload(r) ==
    /\ at[r] = "start" /\ Kind[r] = "unload"
    /\ Go(r, "lockWait")
    /\ UNCHANGED <<gpuVars, lock, runners, current, got, model, gate, slots>>

Lock(r) ==
    /\ at[r] = "lockWait" /\ lock = None
    /\ lock' = r
    /\ Go(r, "locked")
    /\ UNCHANGED <<gpuVars, runners, current, got, model, gate, slots>>

\* (Mutant) The second test, under the lock, is missing.
MutLoadLocked(r) ==
    /\ at[r] = "locked" /\ Kind[r] # "unload"
    /\ Ask(r) /\ Go(r, "loadGpu")
    /\ UNCHANGED <<lock, runners, current, got, model, gate, slots>>

\* Second test, under the lock: somebody else may have loaded it meanwhile.
LoadLocked(r) ==
    /\ at[r] = "locked" /\ Kind[r] # "unload"
    /\ IF runners[Model[r]] # None
       THEN UseRunner(r) /\ lock' = None /\ UNCHANGED gpuVars
       ELSE Ask(r) /\ Go(r, "loadGpu") /\ UNCHANGED <<current, got, lock>>
    /\ UNCHANGED <<runners, model, gate, slots>>

Load(r) ==
    /\ at[r] = "loadGpu" /\ gpu[r] = "held"
    /\ Go(r, "loading")
    /\ UNCHANGED <<gpuVars, lock, runners, current, got, model, gate, slots>>

\* runner.load returns on its thread, or raises: either way the GPU block is
\* left.  A runner that failed to load is dropped with its exception.
Loaded(r) ==
    /\ at[r] = "loading"
    /\ Unlist(r)
    /\ \/ Go(r, "loadDone") /\ model' = [model EXCEPT ![r] = "loaded"]
       \/ Go(r, "loadFailed") /\ UNCHANGED model
    /\ UNCHANGED <<lock, runners, current, got, gate, slots>>

\* (Mutant) A load that fails leaves the lock taken.
MutLoadEnd(r) ==
    /\ gpu[r] = "out"
    /\ \/ /\ at[r] = "loadDone"
          /\ runners' = [runners EXCEPT ![Model[r]] = r]
          /\ current' = Model[r]
          /\ got' = [got EXCEPT ![r] = r]
          /\ Go(r, After(r))
          /\ lock' = None
       \/ /\ at[r] \in {"loadFailed", "loadGpu"}
          /\ Go(r, "over")
          /\ UNCHANGED <<lock, runners, current, got>>
    /\ UNCHANGED <<gpuVars, model, gate, slots>>

\* The GPU has been given back, or was refused: the runner is registered, or
\* the error answered, and the lock released.
LoadEnd(r) ==
    /\ gpu[r] = "out"
    /\ \/ /\ at[r] = "loadDone"
          /\ runners' = [runners EXCEPT ![Model[r]] = r]
          /\ current' = Model[r]
          /\ got' = [got EXCEPT ![r] = r]
          /\ Go(r, After(r))
       \/ /\ at[r] \in {"loadFailed", "loadGpu"}
          /\ Go(r, "over")
          /\ UNCHANGED <<runners, current, got>>
    /\ lock' = None
    /\ UNCHANGED <<gpuVars, model, gate, slots>>

-----------------------------------------------------------------------------
(* Unloading.                                                              *)

\* (Mutant) Unloading does not ask for the GPU.
MutUnloadLocked(r) ==
    /\ at[r] = "locked" /\ Kind[r] = "unload"
    /\ runners[Model[r]] # None
    /\ model' = [model EXCEPT ![runners[Model[r]]] = "unloaded"]
    /\ runners' = [runners EXCEPT ![Model[r]] = None]
    /\ current' = None
    /\ Go(r, "unloadDone")
    /\ UNCHANGED <<gpuVars, lock, got, gate, slots>>

UnloadLocked(r) ==
    /\ at[r] = "locked" /\ Kind[r] = "unload"
    /\ Ask(r) /\ Go(r, "unloadGpu")
    /\ UNCHANGED <<lock, runners, current, got, model, gate, slots>>

\* With the GPU in hand the runner is looked up.
Unload(r) ==
    /\ at[r] = "unloadGpu" /\ gpu[r] = "held"
    /\ Go(r, "unloading")
    /\ got' = [got EXCEPT ![r] = runners[Model[r]]]
    /\ UNCHANGED <<gpuVars, lock, runners, current, model, gate, slots>>

\* runner.unload is done: the runner is deleted and, if it was the current
\* model or no runner is left, no model is current.
Unloaded(r) ==
    /\ at[r] = "unloading"
    /\ Unlist(r)
    /\ model' = IF got[r] # None THEN [model EXCEPT ![got[r]] = "unloaded"] ELSE model
    /\ runners' = [runners EXCEPT ![Model[r]] = None]
    /\ current' = IF current = Model[r] \/ \A m \in Models : runners'[m] = None THEN None ELSE current
    /\ Go(r, "unloadDone")
    /\ UNCHANGED <<lock, got, gate, slots>>

UnloadEnd(r) ==
    /\ gpu[r] = "out" /\ at[r] \in {"unloadDone", "unloadGpu"}
    /\ lock' = None
    /\ Go(r, "over")
    /\ UNCHANGED <<gpuVars, runners, current, got, model, gate, slots>>

-----------------------------------------------------------------------------
(* The inference gate and generation.                                      *)

\* inference(): counted from here until the answer, or QueueFullError.
EnterGate(r) ==
    /\ at[r] = "gate"
    /\ IF Cardinality(gate) >= QueueLimit
       THEN Go(r, "over") /\ UNCHANGED gate
       ELSE Go(r, "slotWait") /\ gate' = gate \cup {r}
    /\ UNCHANGED <<gpuVars, lock, runners, current, got, model, slots>>

TakeSlot(r) ==
    /\ at[r] = "slotWait" /\ Cardinality(slots) < Slots
    /\ slots' = slots \cup {r}
    /\ Go(r, "slot")
    /\ UNCHANGED <<gpuVars, lock, runners, current, got, model, gate>>

\* wait_for(...) times out: the count is taken back, no slot was taken.
SlotTimeout(r) ==
    /\ at[r] = "slotWait" /\ Cardinality(slots) = Slots
    /\ gate' = gate \ {r}
    /\ Go(r, "over")
    /\ UNCHANGED <<gpuVars, lock, runners, current, got, model, slots>>

AskChatGpu(r) ==
    /\ at[r] = "slot"
    /\ Ask(r) /\ Go(r, "chatGpu")
    /\ UNCHANGED <<lock, runners, current, got, model, gate, slots>>

\* runner.generate starts on a pool thread, on the object got long before.
\* Without a model it raises at once.
Generate(r) ==
    /\ at[r] = "chatGpu" /\ gpu[r] = "held"
    /\ IF model[got[r]] = "loaded"
       THEN Go(r, "generating") /\ UNCHANGED gpuVars
       ELSE Unlist(r) /\ Go(r, "chatDone")
    /\ UNCHANGED <<lock, runners, current, got, model, gate, slots>>

Generated(r) ==
    /\ at[r] = "generating"
    /\ Unlist(r)
    /\ Go(r, "chatDone")
    /\ UNCHANGED <<lock, runners, current, got, model, gate, slots>>

\* The GPU is back (or was refused): the slot is released ...
FreeSlot(r) ==
    /\ gpu[r] = "out" /\ at[r] \in {"chatDone", "chatGpu"}
    /\ slots' = slots \ {r}
    /\ Go(r, "slotFree")
    /\ UNCHANGED <<gpuVars, lock, runners, current, got, model, gate>>

\* ... and, under _queue_lock, the count.
LeaveGate(r) ==
    /\ at[r] = "slotFree"
    /\ gate' = gate \ {r}
    /\ Go(r, "over")
    /\ UNCHANGED <<gpuVars, lock, runners, current, got, model, slots>>

-----------------------------------------------------------------------------
Gpu(r) == GpuStep(r) /\ UNCHANGED runtimeVars

Request(r) ==
    \/ Resolve(r) \/ AskUnload(r) \/ Lock(r) \/ LoadLocked(r) \/ Load(r) \/ Loaded(r) \/ LoadEnd(r)
    \/ UnloadLocked(r) \/ Unload(r) \/ Unloaded(r) \/ UnloadEnd(r)
    \/ EnterGate(r) \/ TakeSlot(r) \/ SlotTimeout(r) \/ AskChatGpu(r) \/ Generate(r) \/ Generated(r)
    \/ FreeSlot(r) \/ LeaveGate(r)

Next == \E r \in Tasks : Gpu(r) \/ Request(r)

Spec == Init /\ [][Next]_vars

\* The event loop runs what is ready, threads run, and a wait that is not
\* served times out; only the lock has no timeout.
Fairness == \A r \in Tasks : WF_vars(Gpu(r)) /\ WF_vars(Request(r))

LiveSpec == Spec /\ Fairness
-----------------------------------------------------------------------------
RuntimeTypeOK ==
    /\ GpuTypeOK
    /\ at \in [Tasks -> Points]
    /\ lock \in Tasks \cup {None}
    /\ runners \in [Models -> Tasks \cup {None}]
    /\ current \in Models \cup {None}
    /\ got \in [Tasks -> Tasks \cup {None}]
    /\ model \in [Tasks -> {"none", "loaded", "unloaded"}]
    /\ gate \in SUBSET Tasks
    /\ slots \in SUBSET Tasks

\* A model is in memory at most once: two requests that both missed it outside
\* the lock do not both load it, and a reload waits for the unload.
LoadedOnce ==
    \A q, r \in Tasks : model[q] = "loaded" /\ model[r] = "loaded" /\ Model[q] = Model[r] => q = r

\* A model is not taken out of memory under a generation that uses it: with
\* one heavy task at a time the GPU scheduler keeps them apart, although the
\* generation does not hold the load lock.
NoUnloadUnderGeneration ==
    \A r \in Tasks : at[r] = "generating" => model[got[r]] = "loaded"

\* No more requests than the limit wait for or use a slot, and no more
\* generations run than there are slots.
GateBound ==
    /\ Cardinality(gate) <= QueueLimit
    /\ Cardinality({r \in Tasks : at[r] = "generating"}) <= Slots
    /\ slots \subseteq gate

\* Every request is answered: lock, gate and GPU are always taken in an order
\* that cannot close a cycle, and each is released on every path.
EveryRequestEnds == \A r \in Tasks : <>(at[r] = "over")
=============================================================================
