------------------------- MODULE ModelRuntimeProofs -------------------------
(***************************************************************************)
(* Proofs about ModelRuntime, for any number of requests, models, slots    *)
(* and permits.                                                            *)
(*                                                                         *)
(* First, the runtime uses the GPU scheduler as it is meant to be used:    *)
(* each of its steps is a step of GpuScheduler or leaves the scheduler     *)
(* alone, so all that is proved of the scheduler holds here.  Then three   *)
(* invariants: who is between lock and unlock holds the lock; a model in   *)
(* memory is registered, or about to be by the holder of the lock; the     *)
(* gate counts exactly the requests inside it.                             *)
(***************************************************************************)
EXTENDS ModelRuntime, GpuSchedulerProofs

LoadPoints == {"loadGpu", "loading", "loadDone", "loadFailed"}
UnloadPoints == {"unloadGpu", "unloading", "unloadDone"}
LockPoints == {"locked"} \cup LoadPoints \cup UnloadPoints
GatePoints == {"slotWait", "slot", "chatGpu", "generating", "chatDone", "slotFree"}
SlotPoints == {"slot", "chatGpu", "generating", "chatDone"}
ChatPoints == {"gate", "slotWait", "slot", "chatGpu", "generating"}

LocalTypeOK ==
    /\ at \in [Tasks -> Points]
    /\ lock \in Tasks \cup {None}
    /\ runners \in [Models -> Tasks \cup {None}]
    /\ current \in Models \cup {None}
    /\ got \in [Tasks -> Tasks \cup {None}]
    /\ model \in [Tasks -> {"none", "loaded", "unloaded"}]
    /\ gate \in SUBSET Tasks
    /\ slots \in SUBSET Tasks

\* Only the holder of the load lock is between its two ends.
LockInv == \A r \in Tasks : at[r] \in LockPoints => lock = r

\* What the holder of the lock has found out still holds.
PlaceInv ==
    \A r \in Tasks :
      /\ at[r] \in LoadPoints => Kind[r] # "unload" /\ runners[Model[r]] = None
      /\ at[r] \in UnloadPoints => Kind[r] = "unload"
      /\ at[r] = "unloading" => got[r] = runners[Model[r]]
      /\ at[r] \in {"loading", "unloading", "generating"} => gpu[r] = "held"
      /\ at[r] \in ChatPoints => got[r] \in Tasks

\* A model in memory is registered, or its load has just come to its end.
LoadedInv ==
    \A r \in Tasks : model[r] = "loaded" => runners[Model[r]] = r \/ at[r] = "loadDone"

GateInv ==
    /\ gate = {r \in Tasks : at[r] \in GatePoints}
    /\ slots = {r \in Tasks : at[r] \in SlotPoints}
    /\ Cardinality(gate) <= QueueLimit
    /\ Cardinality(slots) <= Slots

RInv == LocalTypeOK /\ LockInv /\ PlaceInv /\ LoadedInv

-----------------------------------------------------------------------------
(* Every step is a step of the scheduler, or none.                         *)

LEMMA SchedulerStep == [Next]_vars => [GpuNext]_gpuVars
<1>1. ASSUME NEW r \in Tasks, Gpu(r) PROVE GpuNext
  BY <1>1 DEF Gpu, GpuNext
<1>2. ASSUME NEW r \in Tasks, Request(r) PROVE Ask(r) \/ Unlist(r) \/ UNCHANGED gpuVars
  BY <1>2 DEF Request, Resolve, AskUnload, Lock, LoadLocked, Load, Loaded, LoadEnd, UnloadLocked, Unload,
     Unloaded, UnloadEnd, EnterGate, TakeSlot, SlotTimeout, AskChatGpu, Generate, Generated, FreeSlot, LeaveGate
<1> QED
  BY <1>1, <1>2 DEF Next, GpuNext, vars

\* Loading, unloading and chatting keep the protocol of the GPU scheduler:
\* nobody releases what it does not hold or asks twice.
THEOREM UsesScheduler == Spec => GpuSpec
<1>1. Init => GpuInit
  BY DEF Init
<1> QED
  BY <1>1, SchedulerStep, PTL DEF Spec, GpuSpec

\* No load that fails, no refused or finished chat and no unload keeps a permit.
THEOREM RuntimePermits == Spec => []PermitsAccounted
BY UsesScheduler, EveryPermitHasAnOwner, PTL
-----------------------------------------------------------------------------
LEMMA LocalInit == Init => RInv
<1> SUFFICES ASSUME Init PROVE RInv
  OBVIOUS
<1>1. LocalTypeOK
  BY DEF Init, LocalTypeOK, Points
<1>2. LockInv /\ PlaceInv
  BY DEF Init, LockInv, PlaceInv, LockPoints, LoadPoints, UnloadPoints, ChatPoints
<1>3. LoadedInv
  BY DEF Init, LoadedInv
<1> QED
  BY <1>1, <1>2, <1>3 DEF RInv

\* The requests that find, load or unload a model ...
Loading(r) ==
    \/ Resolve(r) \/ AskUnload(r) \/ Lock(r) \/ LoadLocked(r) \/ Load(r) \/ Loaded(r) \/ LoadEnd(r)
    \/ UnloadLocked(r) \/ Unload(r) \/ Unloaded(r) \/ UnloadEnd(r)

\* ... and those that are past it.
Chatting(r) ==
    \/ EnterGate(r) \/ TakeSlot(r) \/ SlotTimeout(r) \/ AskChatGpu(r) \/ Generate(r) \/ Generated(r)
    \/ FreeSlot(r) \/ LeaveGate(r)

LEMMA ChattingFrame ==
    ASSUME NEW r \in Tasks, Chatting(r)
    PROVE  /\ UNCHANGED <<lock, runners, current, got, model>>
           /\ \E p \in GatePoints \cup {"over"} : at' = [at EXCEPT ![r] = p]
           /\ at[r] \in GatePoints \cup {"gate"}
BY DEF Chatting, EnterGate, TakeSlot, SlotTimeout, AskChatGpu, Generate, Generated, FreeSlot, LeaveGate, Go, GatePoints

LEMMA TypeStep == LocalTypeOK /\ [Next]_vars => LocalTypeOK'
<1> SUFFICES ASSUME LocalTypeOK, [Next]_vars PROVE LocalTypeOK'
  OBVIOUS
<1>0. CASE UNCHANGED vars
  BY <1>0 DEF vars, runtimeVars, LocalTypeOK
<1>1. ASSUME NEW r \in Tasks, Gpu(r) PROVE LocalTypeOK'
  BY <1>1 DEF Gpu, runtimeVars, LocalTypeOK
<1>2. ASSUME NEW r \in Tasks, Chatting(r) PROVE LocalTypeOK'
  <2>1. at' \in [Tasks -> Points] /\ UNCHANGED <<lock, runners, current, got, model>>
    BY <1>2, ChattingFrame DEF LocalTypeOK, GatePoints, Points
  <2>2. gate' \in SUBSET Tasks /\ slots' \in SUBSET Tasks
    BY <1>2 DEF Chatting, EnterGate, TakeSlot, SlotTimeout, AskChatGpu, Generate, Generated, FreeSlot, LeaveGate, LocalTypeOK
  <2> QED
    BY <2>1, <2>2 DEF LocalTypeOK
<1>3. ASSUME NEW r \in Tasks, Loading(r) PROVE LocalTypeOK'
  <2> USE DEF LocalTypeOK, Points, Go, After
  <2>1. Model[r] \in Models /\ Kind[r] \in {"load", "unload", "chat"}
    BY RuntimeAssumption
  <2>2. CASE Resolve(r) \/ AskUnload(r) \/ Lock(r) \/ LoadLocked(r)
    BY <2>1, <2>2 DEF Resolve, AskUnload, Lock, LoadLocked, UseRunner
  <2>3. CASE Load(r) \/ Loaded(r) \/ LoadEnd(r)
    BY <2>1, <2>3 DEF Load, Loaded, LoadEnd
  <2>4. CASE UnloadLocked(r) \/ Unload(r) \/ Unloaded(r) \/ UnloadEnd(r)
    BY <2>1, <2>4 DEF UnloadLocked, Unload, Unloaded, UnloadEnd
  <2> QED
    BY <1>3, <2>2, <2>3, <2>4 DEF Loading
<1> QED
  BY <1>0, <1>1, <1>2, <1>3 DEF Next, Request, Chatting, Loading

LEMMA LockStep == LocalTypeOK /\ LockInv /\ [Next]_vars => LockInv'
<1> SUFFICES ASSUME LocalTypeOK, LockInv, [Next]_vars PROVE LockInv'
  OBVIOUS
<1> USE DEF LocalTypeOK, LockInv, LockPoints, LoadPoints, UnloadPoints, Go, After
<1>0. CASE UNCHANGED vars
  BY <1>0 DEF vars, runtimeVars
<1>1. ASSUME NEW r \in Tasks, Gpu(r) PROVE LockInv'
  BY <1>1 DEF Gpu, runtimeVars
<1>2. ASSUME NEW r \in Tasks, Chatting(r) PROVE LockInv'
  BY <1>2, ChattingFrame DEF GatePoints
<1>3. ASSUME NEW r \in Tasks, Loading(r) PROVE LockInv'
  <2>0. \A q \in Tasks : q # None
    BY RuntimeAssumption
  <2>1. CASE Resolve(r) \/ AskUnload(r) \/ Lock(r) \/ LoadLocked(r)
    BY <2>0, <2>1 DEF Resolve, AskUnload, Lock, LoadLocked, UseRunner
  <2>2. CASE Load(r) \/ Loaded(r) \/ LoadEnd(r)
    BY <2>0, <2>2 DEF Load, Loaded, LoadEnd
  <2>3. CASE UnloadLocked(r) \/ Unload(r) \/ Unloaded(r) \/ UnloadEnd(r)
    BY <2>0, <2>3 DEF UnloadLocked, Unload, Unloaded, UnloadEnd
  <2> QED
    BY <1>3, <2>1, <2>2, <2>3 DEF Loading
<1> QED
  BY <1>0, <1>1, <1>2, <1>3 DEF Next, Request, Chatting, Loading

\* A request's step at the scheduler leaves every other request where it is.
LEMMA OtherTasks ==
    ASSUME GpuTypeOK, NEW r \in Tasks, Ask(r) \/ Unlist(r) \/ GpuStep(r) \/ UNCHANGED gpuVars
    PROVE  \A q \in Tasks \ {r} : gpu'[q] = gpu[q]
BY DEF GpuTypeOK, Ask, Unlist, GpuStep, GpuThread, Grant, List, Uncount, Return, Expire, Move, gpuVars

\* The scheduler itself moves no task that is in its block.
LEMMA HeldStays ==
    ASSUME GpuTypeOK, NEW r \in Tasks, Gpu(r), NEW q \in Tasks, gpu[q] = "held"
    PROVE  gpu'[q] = "held"
BY DEF GpuTypeOK, Gpu, GpuStep, GpuThread, Grant, List, Uncount, Return, Expire, Move

LEMMA PlaceStep == GpuTypeOK /\ LocalTypeOK /\ LockInv /\ PlaceInv /\ [Next]_vars => PlaceInv'
<1> SUFFICES ASSUME GpuTypeOK, LocalTypeOK, LockInv, PlaceInv, [Next]_vars PROVE PlaceInv'
  OBVIOUS
<1> USE DEF LocalTypeOK, LockPoints, LoadPoints, UnloadPoints, ChatPoints
<1>0. CASE UNCHANGED vars
  BY <1>0 DEF vars, runtimeVars, gpuVars, PlaceInv
<1>1. ASSUME NEW r \in Tasks, Gpu(r) PROVE PlaceInv'
  BY <1>1, HeldStays DEF Gpu, runtimeVars, PlaceInv
<1>2. ASSUME NEW r \in Tasks, Chatting(r) PROVE PlaceInv'
  <2>1. Ask(r) \/ Unlist(r) \/ UNCHANGED gpuVars
    BY <1>2 DEF Chatting, EnterGate, TakeSlot, SlotTimeout, AskChatGpu, Generate, Generated, FreeSlot, LeaveGate
  <2>2. \A q \in Tasks \ {r} : gpu'[q] = gpu[q]
    BY <2>1, OtherTasks
  <2>3. at'[r] = "generating" => gpu'[r] = "held"
    <3>1. CASE Generate(r)
      BY <3>1 DEF Generate, Go, gpuVars
    <3>2. CASE Chatting(r) /\ ~Generate(r)
      BY <3>2 DEF Chatting, EnterGate, TakeSlot, SlotTimeout, AskChatGpu, Generated, FreeSlot, LeaveGate, Go
    <3> QED
      BY <1>2, <3>1, <3>2
  <2>4. /\ UNCHANGED <<runners, got>> /\ at[r] \in GatePoints \cup {"gate"}
        /\ \E p \in GatePoints \cup {"over"} : at' = [at EXCEPT ![r] = p]
    BY <1>2, ChattingFrame
  <2>5. PICK p \in GatePoints \cup {"over"} : at' = [at EXCEPT ![r] = p]
    BY <2>4
  <2>6. \A q \in Tasks \ {r} : at'[q] = at[q]
    BY <2>5
  <2>7. at'[r] = p
    BY <2>5
  <2>8. ASSUME NEW q \in Tasks \ {r}
        PROVE  /\ at'[q] \in LoadPoints => Kind[q] # "unload" /\ runners'[Model[q]] = None
               /\ at'[q] \in UnloadPoints => Kind[q] = "unload"
               /\ at'[q] = "unloading" => got'[q] = runners'[Model[q]]
               /\ at'[q] \in {"loading", "unloading", "generating"} => gpu'[q] = "held"
               /\ at'[q] \in ChatPoints => got'[q] \in Tasks
    BY <2>2, <2>4, <2>6 DEF PlaceInv
  <2>9. /\ at'[r] \notin LoadPoints \cup UnloadPoints
        /\ at'[r] \in {"loading", "unloading", "generating"} => gpu'[r] = "held"
    BY <2>3, <2>7 DEF GatePoints
  <2>10. at'[r] \in ChatPoints => got'[r] \in Tasks
    <3>1. CASE at[r] \in ChatPoints
      BY <2>4, <3>1 DEF PlaceInv
    <3>2. CASE at[r] \notin ChatPoints
      BY <1>2, <3>2 DEF Chatting, EnterGate, TakeSlot, SlotTimeout, AskChatGpu, Generate, Generated, FreeSlot,
         LeaveGate, Go
    <3> QED
      BY <3>1, <3>2
  <2> QED
    BY <2>8, <2>9, <2>10 DEF PlaceInv
<1>3. ASSUME NEW r \in Tasks, Loading(r) PROVE PlaceInv'
  <2>0. /\ Model \in [Tasks -> Models] /\ Kind[r] \in {"load", "unload", "chat"}
        /\ \A q \in Tasks : q # None
    BY RuntimeAssumption
  <2>1. Ask(r) \/ Unlist(r) \/ UNCHANGED gpuVars
    BY <1>3 DEF Loading, Resolve, AskUnload, Lock, LoadLocked, Load, Loaded, LoadEnd, UnloadLocked, Unload, Unloaded, UnloadEnd
  <2>2. \A q \in Tasks \ {r} : gpu'[q] = gpu[q]
    BY <2>1, OtherTasks
  <2>3. \A q \in Tasks \ {r} : at'[q] = at[q] /\ got'[q] = got[q]
    BY <1>3 DEF Loading, Resolve, AskUnload, Lock, LoadLocked, Load, Loaded, LoadEnd, UnloadLocked, Unload, Unloaded,
       UnloadEnd, UseRunner, Go
  <2>4. UNCHANGED runners \/ at[r] \in {"loadDone", "loadFailed", "loadGpu", "unloading"}
    BY <1>3 DEF Loading, Resolve, AskUnload, Lock, LoadLocked, Load, Loaded, LoadEnd, UnloadLocked, Unload, Unloaded, UnloadEnd
  <2>5. \A q \in Tasks \ {r} : at[q] \in LockPoints => UNCHANGED runners
    BY <2>4 DEF LockInv
  <2>6. ASSUME NEW q \in Tasks \ {r}
        PROVE  /\ at'[q] \in LoadPoints => Kind[q] # "unload" /\ runners'[Model[q]] = None
               /\ at'[q] \in UnloadPoints => Kind[q] = "unload"
               /\ at'[q] = "unloading" => got'[q] = runners'[Model[q]]
               /\ at'[q] \in {"loading", "unloading", "generating"} => gpu'[q] = "held"
               /\ at'[q] \in ChatPoints => got'[q] \in Tasks
    BY <2>2, <2>3, <2>5 DEF PlaceInv
  <2>7. /\ at'[r] \in LoadPoints => Kind[r] # "unload" /\ runners'[Model[r]] = None
        /\ at'[r] \in UnloadPoints => Kind[r] = "unload"
        /\ at'[r] = "unloading" => got'[r] = runners'[Model[r]]
        /\ at'[r] \in {"loading", "unloading", "generating"} => gpu'[r] = "held"
        /\ at'[r] \in ChatPoints => got'[r] \in Tasks
    <3>1. CASE Resolve(r) \/ AskUnload(r) \/ Lock(r) \/ LoadLocked(r)
      BY <2>0, <3>1 DEF PlaceInv, Resolve, AskUnload, Lock, LoadLocked, UseRunner, Go, After
    <3>2. CASE Load(r) \/ Loaded(r) \/ LoadEnd(r)
      BY <2>0, <3>2 DEF PlaceInv, Load, Loaded, LoadEnd, Go, After, gpuVars
    <3>3. CASE UnloadLocked(r) \/ Unload(r) \/ Unloaded(r) \/ UnloadEnd(r)
      BY <2>0, <3>3 DEF PlaceInv, UnloadLocked, Unload, Unloaded, UnloadEnd, Go, gpuVars
    <3> QED
      BY <1>3, <3>1, <3>2, <3>3 DEF Loading
  <2> QED
    BY <2>6, <2>7 DEF PlaceInv
<1> QED
  BY <1>0, <1>1, <1>2, <1>3 DEF Next, Request, Chatting, Loading

LEMMA LoadedStep == LocalTypeOK /\ LockInv /\ PlaceInv /\ LoadedInv /\ [Next]_vars => LoadedInv'
<1> SUFFICES ASSUME LocalTypeOK, LockInv, PlaceInv, LoadedInv, [Next]_vars PROVE LoadedInv'
  OBVIOUS
<1> USE DEF LocalTypeOK
<1>0. CASE UNCHANGED vars
  BY <1>0 DEF vars, runtimeVars, LoadedInv
<1>1. ASSUME NEW r \in Tasks, Gpu(r) PROVE LoadedInv'
  BY <1>1 DEF Gpu, runtimeVars, LoadedInv
<1>2. ASSUME NEW r \in Tasks, Chatting(r) PROVE LoadedInv'
  BY <1>2, ChattingFrame DEF GatePoints, LoadedInv
<1>3. ASSUME NEW r \in Tasks, Loading(r) PROVE LoadedInv'
  <2>0. Model \in [Tasks -> Models] /\ \A q \in Tasks : q # None
    BY RuntimeAssumption
  <2>1. CASE Resolve(r) \/ AskUnload(r) \/ Lock(r) \/ LoadLocked(r)
    BY <2>1 DEF LoadedInv, Resolve, AskUnload, Lock, LoadLocked, UseRunner, Go, After
  <2>2. CASE Load(r) \/ Loaded(r)
    BY <2>2 DEF LoadedInv, Load, Loaded, Go
  <2>3. CASE LoadEnd(r)
    <3>1. ASSUME NEW q \in Tasks \ {r}, model'[q] = "loaded" PROVE runners'[Model[q]] = q \/ at'[q] = "loadDone"
      <4>1. model[q] = "loaded" /\ at'[q] = at[q]
        BY <2>3, <3>1 DEF LoadEnd, Go
      <4>2. runners[Model[r]] = None
        BY <2>3 DEF LoadEnd, PlaceInv, LoadPoints
      <4>3. CASE at[q] = "loadDone"
        BY <4>1, <4>3
      <4>4. CASE runners[Model[q]] = q
        BY <2>0, <2>3, <4>2, <4>4 DEF LoadEnd
      <4> QED
        BY <4>1, <4>3, <4>4 DEF LoadedInv
    <3>2. model'[r] = "loaded" => runners'[Model[r]] = r
      BY <2>0, <2>3 DEF LoadEnd, LoadedInv, PlaceInv, LoadPoints
    <3> QED
      BY <3>1, <3>2 DEF LoadedInv
  <2>4. CASE UnloadLocked(r) \/ Unload(r) \/ UnloadEnd(r)
    BY <2>4 DEF LoadedInv, UnloadLocked, Unload, UnloadEnd, Go
  <2>5. CASE Unloaded(r)
    <3>1. got[r] = runners[Model[r]]
      BY <2>5 DEF Unloaded, PlaceInv
    <3>2. ASSUME NEW q \in Tasks, model'[q] = "loaded" PROVE runners'[Model[q]] = q \/ at'[q] = "loadDone"
      <4>1. model[q] = "loaded" /\ q # got[r]
        BY <2>0, <2>5, <3>2 DEF Unloaded
      <4>2. CASE at[q] = "loadDone"
        BY <2>5, <4>2 DEF Unloaded, Go
      <4>3. CASE runners[Model[q]] = q
        BY <2>0, <2>5, <3>1, <4>1, <4>3 DEF Unloaded
      <4> QED
        BY <4>1, <4>2, <4>3 DEF LoadedInv
    <3> QED
      BY <3>2 DEF LoadedInv
  <2> QED
    BY <1>3, <2>1, <2>2, <2>3, <2>4, <2>5 DEF Loading
<1> QED
  BY <1>0, <1>1, <1>2, <1>3 DEF Next, Request, Chatting, Loading

LEMMA RuntimeInductive == Spec => [](GpuTypeOK /\ RInv)
<1>1. GpuTypeOK /\ RInv /\ [Next]_vars => RInv'
  BY TypeStep, LockStep, PlaceStep, LoadedStep DEF RInv
<1> QED
  BY <1>1, LocalInit, UsesScheduler, GpuTypes, PTL DEF Spec

\* Type correctness of the runtime and the scheduler below it.
THEOREM RuntimeTypes == Spec => []RuntimeTypeOK
<1>1. GpuTypeOK /\ RInv => RuntimeTypeOK
  BY DEF RInv, LocalTypeOK, RuntimeTypeOK
<1> QED
  BY <1>1, RuntimeInductive, PTL

\* A model is in memory at most once, however many requests miss it at once and
\* whatever is unloaded in between.
THEOREM LoadsOnce == Spec => []LoadedOnce
<1>1. RInv => LoadedOnce
  <2> SUFFICES ASSUME RInv, NEW q \in Tasks, NEW r \in Tasks,
                      model[q] = "loaded", model[r] = "loaded", Model[q] = Model[r]
               PROVE  q = r
    BY DEF LoadedOnce
  <2>0. q # None /\ r # None
    BY RuntimeAssumption
  <2>1. /\ runners[Model[q]] = q \/ at[q] = "loadDone"
        /\ runners[Model[r]] = r \/ at[r] = "loadDone"
    BY DEF RInv, LoadedInv
  <2>2. /\ at[q] = "loadDone" => lock = q /\ runners[Model[q]] = None
        /\ at[r] = "loadDone" => lock = r /\ runners[Model[r]] = None
    BY DEF RInv, LockInv, PlaceInv, LockPoints, LoadPoints
  <2> QED
    BY <2>0, <2>1, <2>2
<1> QED
  BY <1>1, RuntimeInductive, PTL
-----------------------------------------------------------------------------
(* With one heavy task at a time, no model is unloaded under a generation.  *)

OneHeavyTask == Enabled /\ MaxHeavyTasks = 1

LEMMA OneInItsBlock ==
    ASSUME Cardinality(HeavyTasks) <= 1, NEW q \in HeavyTasks, NEW r \in HeavyTasks
    PROVE  q = r
<1>1. HeavyTasks \in SUBSET Tasks
  BY DEF HeavyTasks
<1>2. IsFiniteSet(HeavyTasks) /\ HeavyTasks # {}
  BY <1>1, FS_Subset, GpuAssumption
<1>3. Cardinality(HeavyTasks) \in Nat /\ Cardinality(HeavyTasks) # 0
  BY <1>2, FS_CardinalityType, FS_EmptySet
<1>4. PICK x : HeavyTasks = {x}
  BY <1>2, <1>3, FS_Singleton
<1> QED
  BY <1>4

LEMMA GenerationStep ==
    RInv /\ Cardinality(HeavyTasks) <= 1 /\ NoUnloadUnderGeneration /\ [Next]_vars => NoUnloadUnderGeneration'
<1> SUFFICES ASSUME RInv, Cardinality(HeavyTasks) <= 1, NoUnloadUnderGeneration, [Next]_vars
             PROVE  NoUnloadUnderGeneration'
  OBVIOUS
<1>t. LocalTypeOK /\ \A q \in Tasks : at[q] \in {"unloading", "generating"} => gpu[q] = "held"
  BY DEF RInv, PlaceInv
<1>g. \A q \in Tasks : at[q] = "generating" => got[q] \in Tasks
  BY DEF RInv, PlaceInv, ChatPoints
<1> USE DEF LocalTypeOK
<1>0. CASE UNCHANGED vars
  BY <1>0 DEF vars, runtimeVars, NoUnloadUnderGeneration
<1>1. ASSUME NEW r \in Tasks, Gpu(r) PROVE NoUnloadUnderGeneration'
  BY <1>1 DEF Gpu, runtimeVars, NoUnloadUnderGeneration
<1>2. ASSUME NEW r \in Tasks, Chatting(r) PROVE NoUnloadUnderGeneration'
  <2>1. UNCHANGED <<got, model>> /\ \A q \in Tasks \ {r} : at'[q] = at[q]
    BY <1>2, <1>t, ChattingFrame DEF GatePoints
  <2>2. at'[r] = "generating" => model[got[r]] = "loaded"
    <3>1. CASE Generate(r)
      BY <1>t, <3>1 DEF Generate, Go
    <3>2. CASE Chatting(r) /\ ~Generate(r)
      BY <1>t, <3>2 DEF Chatting, EnterGate, TakeSlot, SlotTimeout, AskChatGpu, Generated, FreeSlot, LeaveGate, Go
    <3> QED
      BY <1>2, <3>1, <3>2
  <2> QED
    BY <2>1, <2>2 DEF NoUnloadUnderGeneration
<1>3. ASSUME NEW r \in Tasks, Loading(r) PROVE NoUnloadUnderGeneration'
  <2>1. at'[r] # "generating"
    BY <1>3, <1>t DEF Loading, Resolve, AskUnload, Lock, LoadLocked, Load, Loaded, LoadEnd, UnloadLocked, Unload,
       Unloaded, UnloadEnd, UseRunner, Go, After
  <2>2. \A q \in Tasks \ {r} : at'[q] = at[q] /\ got'[q] = got[q]
    BY <1>3, <1>t DEF Loading, Resolve, AskUnload, Lock, LoadLocked, Load, Loaded, LoadEnd, UnloadLocked, Unload,
       Unloaded, UnloadEnd, UseRunner, Go
  <2>3. ASSUME NEW q \in Tasks \ {r}, at[q] = "generating" PROVE model'[got[q]] = "loaded"
    <3>1. model[got[q]] = "loaded" /\ got[q] \in Tasks
      BY <2>3, <1>g DEF NoUnloadUnderGeneration
    <3>2. ~Unloaded(r)
      <4>1. SUFFICES ASSUME Unloaded(r) PROVE FALSE
        OBVIOUS
      <4>2. q \in HeavyTasks /\ r \in HeavyTasks
        BY <1>t, <2>3, <4>1 DEF Unloaded, HeavyTasks
      <4> QED
        BY <4>2, OneInItsBlock
    <3>3. UNCHANGED model \/ Loaded(r)
      BY <1>3, <3>2 DEF Loading, Resolve, AskUnload, Lock, LoadLocked, Load, LoadEnd, UnloadLocked, Unload, UnloadEnd
    <3> QED
      BY <1>t, <3>1, <3>3 DEF Loaded
  <2> QED
    BY <2>1, <2>2, <2>3 DEF NoUnloadUnderGeneration
<1> QED
  BY <1>0, <1>1, <1>2, <1>3 DEF Next, Request, Chatting, Loading

\* A generation never finds its model taken away: it does not hold the load
\* lock, and the single GPU permit (max_heavy_tasks = 1) is what protects it.
THEOREM GenerationKeepsModel == Spec => [](OneHeavyTask => NoUnloadUnderGeneration)
<1>1. Init => NoUnloadUnderGeneration
  BY DEF Init, NoUnloadUnderGeneration
<1>2. (Enabled => Cardinality(HeavyTasks) <= MaxHeavyTasks) => (OneHeavyTask => Cardinality(HeavyTasks) <= 1)
  BY DEF OneHeavyTask
<1>3. /\ RInv /\ (Enabled => Cardinality(HeavyTasks) <= MaxHeavyTasks)
      /\ (OneHeavyTask => NoUnloadUnderGeneration) /\ [Next]_vars
      => (OneHeavyTask => NoUnloadUnderGeneration)'
  BY <1>2, GenerationStep DEF OneHeavyTask
<1> QED
  BY <1>1, <1>3, RuntimeInductive, UsesScheduler, HeavyTasksBounded, PTL DEF Spec

-----------------------------------------------------------------------------
(* The inference gate.                                                     *)

LEMMA GateCounts ==
    ASSUME NEW S \in SUBSET Tasks, NEW r \in Tasks
    PROVE  /\ IsFiniteSet(S) /\ Cardinality(S) \in Nat
           /\ Cardinality(S \cup {r}) <= Cardinality(S) + 1
           /\ Cardinality(S \ {r}) <= Cardinality(S)
<1>1. IsFiniteSet(S)
  BY FS_Subset, GpuAssumption
<1>2. Cardinality(S) \in Nat
  BY <1>1, FS_CardinalityType
<1>3. Cardinality(S \cup {r}) = IF r \in S THEN Cardinality(S) ELSE Cardinality(S) + 1
  BY <1>1, FS_AddElement
<1>4. Cardinality(S \ {r}) = IF r \in S THEN Cardinality(S) - 1 ELSE Cardinality(S)
  BY <1>1, FS_RemoveElement
<1> QED
  BY <1>1, <1>2, <1>3, <1>4

LEMMA GateStep == LocalTypeOK /\ GateInv /\ [Next]_vars => GateInv'
<1> SUFFICES ASSUME LocalTypeOK, GateInv, [Next]_vars PROVE GateInv'
  OBVIOUS
<1>t. at \in [Tasks -> Points] /\ gate \in SUBSET Tasks /\ slots \in SUBSET Tasks
  BY DEF LocalTypeOK
<1>b. QueueLimit \in Nat /\ Slots \in Nat
  BY RuntimeAssumption
<1>s. ASSUME UNCHANGED <<gate, slots>>,
             \A q \in Tasks : (at'[q] \in GatePoints <=> at[q] \in GatePoints) /\ (at'[q] \in SlotPoints <=> at[q] \in SlotPoints)
      PROVE  GateInv'
  BY <1>s DEF GateInv
<1>0. CASE UNCHANGED vars
  BY <1>0, <1>s DEF vars, runtimeVars
<1>1. ASSUME NEW r \in Tasks, Gpu(r) PROVE GateInv'
  BY <1>1, <1>s DEF Gpu, runtimeVars
<1>3. ASSUME NEW r \in Tasks, Loading(r) PROVE GateInv'
  <2>1. UNCHANGED <<gate, slots>>
    BY <1>3 DEF Loading, Resolve, AskUnload, Lock, LoadLocked, Load, Loaded, LoadEnd, UnloadLocked, Unload, Unloaded, UnloadEnd
  <2>2. \A q \in Tasks \ {r} : at'[q] = at[q]
    BY <1>3, <1>t DEF Loading, Resolve, AskUnload, Lock, LoadLocked, Load, Loaded, LoadEnd, UnloadLocked, Unload,
       Unloaded, UnloadEnd, UseRunner, Go
  <2>3. at[r] \notin GatePoints /\ at'[r] \notin GatePoints
    BY <1>3, <1>t DEF Loading, Resolve, AskUnload, Lock, LoadLocked, Load, Loaded, LoadEnd, UnloadLocked, Unload,
       Unloaded, UnloadEnd, UseRunner, Go, After, GatePoints
  <2> QED
    BY <2>1, <2>2, <2>3, <1>s DEF GatePoints, SlotPoints
<1>2. ASSUME NEW r \in Tasks, Chatting(r) PROVE GateInv'
  <2>0. \A q \in Tasks \ {r} : at'[q] = at[q]
    BY <1>2, <1>t, ChattingFrame
  <2>c. /\ Cardinality(gate) \in Nat /\ Cardinality(gate \ {r}) \in Nat
        /\ Cardinality(gate \cup {r}) <= Cardinality(gate) + 1 /\ Cardinality(gate \cup {r}) \in Nat
        /\ Cardinality(gate \ {r}) <= Cardinality(gate)
        /\ Cardinality(slots) \in Nat /\ Cardinality(slots \ {r}) \in Nat
        /\ Cardinality(slots \cup {r}) <= Cardinality(slots) + 1 /\ Cardinality(slots \cup {r}) \in Nat
        /\ Cardinality(slots \ {r}) <= Cardinality(slots)
    BY <1>t, GateCounts
  <2>1. CASE EnterGate(r)
    <3>1. CASE Cardinality(gate) >= QueueLimit
      <4>1. UNCHANGED <<gate, slots>> /\ at'[r] = "over" /\ at[r] = "gate"
        BY <1>t, <2>1, <3>1 DEF EnterGate, Go
      <4> QED
        BY <2>0, <4>1, <1>s DEF GatePoints, SlotPoints
    <3>2. CASE ~(Cardinality(gate) >= QueueLimit)
      <4>1. gate' = gate \cup {r} /\ slots' = slots /\ at'[r] = "slotWait" /\ at[r] = "gate"
        BY <1>t, <2>1, <3>2 DEF EnterGate, Go
      <4>2. gate' = {q \in Tasks : at'[q] \in GatePoints} /\ slots' = {q \in Tasks : at'[q] \in SlotPoints}
        BY <2>0, <4>1 DEF GateInv, GatePoints, SlotPoints
      <4>3. Cardinality(gate') <= QueueLimit /\ Cardinality(slots') <= Slots
        BY <3>2, <4>1, <2>c, <1>b DEF GateInv
      <4> QED
        BY <4>2, <4>3 DEF GateInv
    <3> QED
      BY <3>1, <3>2
  <2>2. CASE TakeSlot(r)
    <3>1. gate' = gate /\ slots' = slots \cup {r} /\ at'[r] = "slot" /\ at[r] = "slotWait" /\ Cardinality(slots) < Slots
      BY <1>t, <2>2 DEF TakeSlot, Go
    <3>2. gate' = {q \in Tasks : at'[q] \in GatePoints} /\ slots' = {q \in Tasks : at'[q] \in SlotPoints}
      BY <2>0, <3>1 DEF GateInv, GatePoints, SlotPoints
    <3>3. Cardinality(gate') <= QueueLimit /\ Cardinality(slots') <= Slots
      BY <3>1, <2>c, <1>b DEF GateInv
    <3> QED
      BY <3>2, <3>3 DEF GateInv
  <2>3. CASE SlotTimeout(r) \/ LeaveGate(r)
    <3>1. gate' = gate \ {r} /\ slots' = slots /\ at'[r] = "over" /\ at[r] \in {"slotWait", "slotFree"}
      BY <1>t, <2>3 DEF SlotTimeout, LeaveGate, Go
    <3>2. gate' = {q \in Tasks : at'[q] \in GatePoints} /\ slots' = {q \in Tasks : at'[q] \in SlotPoints}
      BY <2>0, <3>1 DEF GateInv, GatePoints, SlotPoints
    <3>3. Cardinality(gate') <= QueueLimit /\ Cardinality(slots') <= Slots
      BY <3>1, <2>c, <1>b DEF GateInv
    <3> QED
      BY <3>2, <3>3 DEF GateInv
  <2>4. CASE FreeSlot(r)
    <3>1. gate' = gate /\ slots' = slots \ {r} /\ at'[r] = "slotFree" /\ at[r] \in {"chatDone", "chatGpu"}
      BY <1>t, <2>4 DEF FreeSlot, Go
    <3>2. gate' = {q \in Tasks : at'[q] \in GatePoints} /\ slots' = {q \in Tasks : at'[q] \in SlotPoints}
      BY <2>0, <3>1 DEF GateInv, GatePoints, SlotPoints
    <3>3. Cardinality(gate') <= QueueLimit /\ Cardinality(slots') <= Slots
      BY <3>1, <2>c, <1>b DEF GateInv
    <3> QED
      BY <3>2, <3>3 DEF GateInv
  <2>5. CASE AskChatGpu(r) \/ Generate(r) \/ Generated(r)
    <3>1. UNCHANGED <<gate, slots>> /\ at[r] \in SlotPoints /\ at'[r] \in SlotPoints
      BY <1>t, <2>5 DEF AskChatGpu, Generate, Generated, Go, SlotPoints
    <3> QED
      BY <2>0, <3>1, <1>s DEF GatePoints, SlotPoints
  <2> QED
    BY <1>2, <2>1, <2>2, <2>3, <2>4, <2>5 DEF Chatting
<1> QED
  BY <1>0, <1>1, <1>2, <1>3 DEF Next, Request, Chatting, Loading

\* The gate admits no more requests than its limits, on every path through it.
THEOREM GateBounded == Spec => []GateBound
<1>1. Init => GateInv
  <2> SUFFICES ASSUME Init PROVE GateInv
    OBVIOUS
  <2>1. gate = {} /\ slots = {} /\ \A r \in Tasks : at[r] = "start"
    BY DEF Init
  <2>2. Cardinality(gate) = 0 /\ Cardinality(slots) = 0
    BY <2>1, FS_EmptySet
  <2> QED
    BY <2>1, <2>2, RuntimeAssumption DEF GateInv, GatePoints, SlotPoints
<1>2. LocalTypeOK /\ GateInv => GateBound
  <2> SUFFICES ASSUME LocalTypeOK, GateInv PROVE GateBound
    OBVIOUS
  <2>1. slots \subseteq gate /\ {r \in Tasks : at[r] = "generating"} \in SUBSET slots
    BY DEF GateInv, GatePoints, SlotPoints
  <2>2. IsFiniteSet(slots)
    <3>1. slots \in SUBSET Tasks
      BY DEF LocalTypeOK
    <3> QED
      BY <3>1, FS_Subset, GpuAssumption
  <2>3. Cardinality({r \in Tasks : at[r] = "generating"}) <= Cardinality(slots)
    BY <2>1, <2>2, FS_Subset
  <2>4. Cardinality({r \in Tasks : at[r] = "generating"}) \in Nat /\ Cardinality(slots) \in Nat
    BY <2>1, <2>2, FS_Subset, FS_CardinalityType
  <2> QED
    BY <2>1, <2>3, <2>4, RuntimeAssumption DEF GateInv, GateBound
<1>3. GpuTypeOK /\ RInv => LocalTypeOK
  BY DEF RInv
<1> QED
  BY <1>1, <1>2, <1>3, GateStep, RuntimeInductive, PTL DEF Spec
=============================================================================
