------------------------- MODULE GpuSchedulerProofs -------------------------
(***************************************************************************)
(* Proofs about GpuScheduler: whatever tasks ask, are refused, cancelled   *)
(* or served, permits and the count of waiting calls are exact, and never  *)
(* more tasks than configured are in their block.                          *)
(*                                                                         *)
(* Both counts are cardinalities of sets of tasks, and a step moves one    *)
(* task: a set gains it, loses it or stays.                                *)
(***************************************************************************)
EXTENDS GpuScheduler, FiniteSetTheorems, TLAPS

\* A disabled scheduler knows only tasks outside and tasks in their block.
DisabledIsIdle == Enabled \/ \A t \in Tasks : gpu[t] \in {"out", "held"}

IInv == GpuTypeOK /\ PermitsAccounted /\ QueueCounted /\ DisabledIsIdle

-----------------------------------------------------------------------------
LEMMA InitInv == GpuInit => IInv
<1> SUFFICES ASSUME GpuInit PROVE IInv
  OBVIOUS
<1>1. Owners = {} /\ Waiters = {}
  BY DEF GpuInit, Owners, Owning, Waiters, Counted
<1>2. GpuTypeOK
  BY GpuAssumption DEF GpuInit, GpuTypeOK, Stages
<1> QED
  BY <1>1, <1>2, FS_EmptySet, GpuAssumption DEF IInv, GpuInit, PermitsAccounted, QueueCounted, DisabledIsIdle

\* The tasks whose stage is in a set of stages, before and after one task has
\* moved.
LEMMA MovedSet ==
    ASSUME GpuTypeOK, NEW t \in Tasks, NEW s \in Stages, Move(t, s), NEW K
    PROVE  {u \in Tasks : gpu'[u] \in K} =
             IF s \in K THEN {u \in Tasks : gpu[u] \in K} \cup {t} ELSE {u \in Tasks : gpu[u] \in K} \ {t}
<1>1. \A u \in Tasks : gpu'[u] = IF u = t THEN s ELSE gpu[u]
  BY DEF GpuTypeOK, Move
<1> QED
  BY <1>1

LEMMA Counts ==
    ASSUME GpuTypeOK, NEW t \in Tasks, NEW s \in Stages, Move(t, s)
    PROVE  /\ IsFiniteSet(Owners) /\ Cardinality(Owners) \in Nat
           /\ IsFiniteSet(Waiters) /\ Cardinality(Waiters) \in Nat
           /\ t \in Owners => Cardinality(Owners) > 0
           /\ t \in Waiters => Cardinality(Waiters) > 0
           /\ Cardinality(Owners') = IF s \in Owning
                                     THEN IF t \in Owners THEN Cardinality(Owners) ELSE Cardinality(Owners) + 1
                                     ELSE IF t \in Owners THEN Cardinality(Owners) - 1 ELSE Cardinality(Owners)
           /\ Cardinality(Waiters') = IF s \in Counted
                                      THEN IF t \in Waiters THEN Cardinality(Waiters) ELSE Cardinality(Waiters) + 1
                                      ELSE IF t \in Waiters THEN Cardinality(Waiters) - 1 ELSE Cardinality(Waiters)
<1>1. IsFiniteSet(Tasks) /\ Owners \in SUBSET Tasks /\ Waiters \in SUBSET Tasks
  BY GpuAssumption DEF Owners, Waiters
<1>2. IsFiniteSet(Owners) /\ IsFiniteSet(Waiters)
  BY <1>1, FS_Subset
<1>3. Cardinality(Owners) \in Nat /\ Cardinality(Waiters) \in Nat
  BY <1>2, FS_CardinalityType
<1>4. (t \in Owners => Cardinality(Owners) > 0) /\ (t \in Waiters => Cardinality(Waiters) > 0)
  BY <1>2, <1>3, FS_EmptySet
<1>5. Owners' = IF s \in Owning THEN Owners \cup {t} ELSE Owners \ {t}
  BY MovedSet DEF Owners
<1>6. Waiters' = IF s \in Counted THEN Waiters \cup {t} ELSE Waiters \ {t}
  BY MovedSet DEF Waiters
<1>7. /\ Cardinality(Owners \cup {t}) = IF t \in Owners THEN Cardinality(Owners) ELSE Cardinality(Owners) + 1
      /\ Cardinality(Waiters \cup {t}) = IF t \in Waiters THEN Cardinality(Waiters) ELSE Cardinality(Waiters) + 1
  BY <1>2, FS_AddElement
<1>8. /\ Cardinality(Owners \ {t}) = IF t \in Owners THEN Cardinality(Owners) - 1 ELSE Cardinality(Owners)
      /\ Cardinality(Waiters \ {t}) = IF t \in Waiters THEN Cardinality(Waiters) - 1 ELSE Cardinality(Waiters)
  BY <1>2, FS_RemoveElement
<1> HIDE DEF Owners, Waiters
<1> QED
  BY <1>2, <1>3, <1>4, <1>5, <1>6, <1>7, <1>8

-----------------------------------------------------------------------------
\* A step that leaves every task where it is and the numbers alone.
LEMMA StillInv ==
    ASSUME IInv, UNCHANGED <<gpu, free, queued>>, running' = running, gone' \in SUBSET Coroutines
    PROVE  IInv'
BY DEF IInv, GpuTypeOK, PermitsAccounted, QueueCounted, DisabledIsIdle, Owners, Waiters

\* What a moved task has to do with the numbers.
LEMMA MoveInv ==
    ASSUME IInv, NEW t \in Tasks, NEW s \in Stages, Move(t, s),
           free' \in 0..MaxHeavyTasks, running' \in SUBSET Tasks, queued' \in Nat, gone' = gone,
           Enabled => free' + Cardinality(Owners') = MaxHeavyTasks,
           queued' = Cardinality(Waiters'),
           Enabled \/ s \in {"out", "held"}
    PROVE  IInv'
<1>1. gpu' \in [Tasks -> Stages]
  BY DEF IInv, GpuTypeOK, Move
<1>2. DisabledIsIdle'
  BY DEF IInv, GpuTypeOK, DisabledIsIdle, Move
<1> QED
  BY <1>1, <1>2 DEF IInv, GpuTypeOK, PermitsAccounted, QueueCounted

LEMMA StepInv == IInv /\ [GpuNext]_gpuVars => IInv'
<1> SUFFICES ASSUME IInv, [GpuNext]_gpuVars PROVE IInv'
  OBVIOUS
<1>t. /\ GpuTypeOK /\ free \in 0..MaxHeavyTasks /\ queued \in Nat /\ MaxHeavyTasks \in Nat
      /\ running \in SUBSET Tasks /\ gone \in SUBSET Coroutines
  BY GpuAssumption DEF IInv, GpuTypeOK
<1>n. (Enabled => free + Cardinality(Owners) = MaxHeavyTasks) /\ queued = Cardinality(Waiters)
  BY DEF IInv, PermitsAccounted, QueueCounted
<1>m. ASSUME NEW t \in Tasks
      PROVE  (t \in Owners <=> gpu[t] \in Owning) /\ (t \in Waiters <=> gpu[t] \in Counted)
  BY DEF Owners, Waiters
<1>d. ASSUME NEW t \in Tasks, gpu[t] \notin {"out", "held"} PROVE Enabled
  BY <1>d DEF IInv, DisabledIsIdle
<1>0. CASE UNCHANGED gpuVars
  BY <1>0, <1>t, StillInv DEF gpuVars
<1>1. ASSUME NEW t \in Tasks, Ask(t) PROVE IInv'
  <2>1. CASE Enabled
    <3>1. Move(t, "waiting") /\ "waiting" \in Stages /\ free' = free /\ queued' = queued + 1 /\ running' = running /\ gone' = gone
      BY <1>1, <2>1 DEF Ask, Stages
    <3>2. t \notin Owners /\ t \notin Waiters
      BY <1>1, <1>m DEF Ask, Owning, Counted
    <3>3. Cardinality(Owners') = Cardinality(Owners) /\ Cardinality(Waiters') = Cardinality(Waiters) + 1
      BY <3>1, <3>2, <1>t, Counts DEF Owning, Counted
    <3> QED
      BY <2>1, <3>1, <3>3, <1>t, <1>n, MoveInv
  <2>2. CASE ~Enabled
    <3>1. Move(t, "held") /\ "held" \in Stages /\ free' = free /\ queued' = queued /\ running' = running /\ gone' = gone
      BY <1>1, <2>2 DEF Ask, Stages
    <3>2. t \notin Waiters
      BY <1>1, <1>m DEF Ask, Counted
    <3>3. Cardinality(Waiters') = Cardinality(Waiters)
      BY <3>1, <3>2, <1>t, Counts DEF Counted
    <3> QED
      BY <2>2, <3>1, <3>3, <1>t, <1>n, MoveInv
  <2> QED
    BY <2>1, <2>2
<1>2. ASSUME NEW t \in Tasks, Grant(t) PROVE IInv'
  <2>1. /\ Enabled /\ Move(t, "granted") /\ "granted" \in Stages
        /\ free > 0 /\ free' = free - 1 /\ queued' = queued /\ running' = running /\ gone' = gone
    BY <1>2, <1>d DEF Grant, Stages
  <2>2. t \notin Owners /\ t \in Waiters
    BY <1>2, <1>m DEF Grant, Owning, Counted
  <2>3. Cardinality(Owners) \in Nat /\ Cardinality(Owners') = Cardinality(Owners) + 1 /\ Cardinality(Waiters') = Cardinality(Waiters)
    BY <2>1, <2>2, <1>t, Counts DEF Owning, Counted
  <2> QED
    BY <2>1, <2>3, <1>t, <1>n, MoveInv
<1>3. ASSUME NEW t \in Tasks, Expire(t) PROVE IInv'
  <2>1. /\ Enabled /\ Move(t, "refused") /\ "refused" \in Stages
        /\ free' = free /\ queued' = queued /\ running' = running /\ gone' = gone
    BY <1>3, <1>d DEF Expire, Stages
  <2>2. t \notin Owners /\ t \in Waiters
    BY <1>3, <1>m DEF Expire, Owning, Counted
  <2>3. Cardinality(Owners') = Cardinality(Owners) /\ Cardinality(Waiters') = Cardinality(Waiters)
    BY <2>1, <2>2, <1>t, Counts DEF Owning, Counted
  <2> QED
    BY <2>1, <2>3, <1>t, <1>n, MoveInv
<1>4. ASSUME NEW t \in Tasks, List(t) PROVE IInv'
  <2>1. /\ Enabled /\ Move(t, "listed") /\ "listed" \in Stages
        /\ free' = free /\ queued' = queued /\ running' \in SUBSET Tasks /\ gone' = gone
    BY <1>4, <1>t, <1>d DEF List, Stages
  <2>2. t \in Owners /\ t \in Waiters
    BY <1>4, <1>m DEF List, Owning, Counted
  <2>3. Cardinality(Owners') = Cardinality(Owners) /\ Cardinality(Waiters') = Cardinality(Waiters)
    BY <2>1, <2>2, <1>t, Counts DEF Owning, Counted
  <2> QED
    BY <2>1, <2>3, <1>t, <1>n, MoveInv
<1>5. ASSUME NEW t \in Tasks, Uncount(t) PROVE IInv'
  <2>1. free' = free /\ running' = running /\ gone' = gone /\ queued' = IF queued > 0 THEN queued - 1 ELSE 0
    BY <1>5 DEF Uncount
  <2>2. t \in Waiters
    BY <1>5, <1>m DEF Uncount, Counted
  <2>3. CASE gpu[t] = "listed"
    <3>1. Move(t, "held") /\ "held" \in Stages
      BY <1>5, <2>3 DEF Uncount, Stages
    <3>2. t \in Owners
      BY <2>3, <1>m DEF Owning
    <3>3. /\ Cardinality(Owners') = Cardinality(Owners) /\ Cardinality(Waiters') = Cardinality(Waiters) - 1
          /\ Cardinality(Waiters) > 0
      BY <3>1, <3>2, <2>2, <1>t, Counts DEF Owning, Counted
    <3> QED
      BY <2>1, <3>1, <3>3, <1>t, <1>n, MoveInv
  <2>4. CASE gpu[t] = "refused"
    <3>1. Move(t, "out") /\ "out" \in Stages
      BY <1>5, <2>4 DEF Uncount, Stages
    <3>2. t \notin Owners
      BY <2>4, <1>m DEF Owning
    <3>3. /\ Cardinality(Owners') = Cardinality(Owners) /\ Cardinality(Waiters') = Cardinality(Waiters) - 1
          /\ Cardinality(Waiters) > 0
      BY <3>1, <3>2, <2>2, <1>t, Counts DEF Owning, Counted
    <3> QED
      BY <2>1, <3>1, <3>3, <1>t, <1>n, MoveInv
  <2> QED
    BY <1>5, <2>3, <2>4 DEF Uncount
<1>6. ASSUME NEW t \in Tasks, Unlist(t) PROVE IInv'
  <2>1. free' = free /\ queued' = queued /\ running' \in SUBSET Tasks /\ gone' = gone
    BY <1>6, <1>t DEF Unlist
  <2>2. t \in Owners /\ t \notin Waiters
    BY <1>6, <1>m DEF Unlist, Holds, Owning, Counted
  <2>3. CASE Enabled
    <3>1. Move(t, "unlisted") /\ "unlisted" \in Stages
      BY <1>6, <2>3 DEF Unlist, Stages
    <3>2. Cardinality(Owners') = Cardinality(Owners) /\ Cardinality(Waiters') = Cardinality(Waiters)
      BY <3>1, <2>2, <1>t, Counts DEF Owning, Counted
    <3> QED
      BY <2>3, <2>1, <3>1, <3>2, <1>t, <1>n, MoveInv
  <2>4. CASE ~Enabled
    <3>1. Move(t, "out") /\ "out" \in Stages
      BY <1>6, <2>4 DEF Unlist, Stages
    <3>2. Cardinality(Waiters') = Cardinality(Waiters)
      BY <3>1, <2>2, <1>t, Counts DEF Counted
    <3> QED
      BY <2>1, <2>4, <3>1, <3>2, <1>t, <1>n, MoveInv
  <2> QED
    BY <2>3, <2>4
<1>7. ASSUME NEW t \in Tasks, Return(t) PROVE IInv'
  <2>1. /\ Enabled /\ Move(t, "out") /\ "out" \in Stages
        /\ free' = free + 1 /\ queued' = queued /\ running' = running /\ gone' = gone
    BY <1>7, <1>d DEF Return, Stages
  <2>2. t \in Owners /\ t \notin Waiters
    BY <1>7, <1>m DEF Return, Owning, Counted
  <2>3. /\ Cardinality(Owners) \in Nat /\ Cardinality(Owners') = Cardinality(Owners) - 1 /\ Cardinality(Waiters') = Cardinality(Waiters)
        /\ Cardinality(Owners) > 0
    BY <2>1, <2>2, <1>t, Counts DEF Owning, Counted
  <2>4. free' \in 0..MaxHeavyTasks /\ free' + Cardinality(Owners') = MaxHeavyTasks
    BY <2>1, <2>3, <1>t, <1>n
  <2> QED
    BY <2>1, <2>3, <2>4, <1>t, <1>n, MoveInv
<1>8. ASSUME NEW t \in Tasks, Cancel(t) PROVE IInv'
  BY <1>8, <1>t, StillInv DEF Cancel
<1> QED
  BY <1>0, <1>1, <1>2, <1>3, <1>4, <1>5, <1>6, <1>7, <1>8 DEF GpuNext, GpuStep, GpuThread

LEMMA Inductive == GpuSpec => []IInv
BY InitInv, StepInv, PTL DEF GpuSpec

-----------------------------------------------------------------------------
\* Type correctness: in particular a release never goes beyond the size of the
\* bounded semaphore, which would raise.
THEOREM GpuTypes == GpuSpec => []GpuTypeOK
<1>1. IInv => GpuTypeOK
  BY DEF IInv
<1> QED
  BY <1>1, Inductive, PTL

\* Every permit that is not free has an owner, under every interleaving of
\* acquire, timeout, release and cancelled coroutines.
THEOREM EveryPermitHasAnOwner == GpuSpec => []PermitsAccounted
<1>1. IInv => PermitsAccounted
  BY DEF IInv
<1> QED
  BY <1>1, Inductive, PTL

\* The queue length that snapshot() reports is exact.
THEOREM QueueLengthIsExact == GpuSpec => []QueueCounted
<1>1. IInv => QueueCounted
  BY DEF IInv
<1> QED
  BY <1>1, Inductive, PTL

\* Never more heavy tasks than the configuration allows are in their block.
HeavyTasks == {t \in Tasks : gpu[t] = "held"}

THEOREM HeavyTasksBounded == GpuSpec => [](Enabled => Cardinality(HeavyTasks) <= MaxHeavyTasks)
<1>1. ASSUME IInv, Enabled PROVE Cardinality(HeavyTasks) <= MaxHeavyTasks
  <2>1. IsFiniteSet(Owners) /\ HeavyTasks \in SUBSET Owners
    <3>1. Owners \in SUBSET Tasks /\ HeavyTasks \in SUBSET Owners
      BY DEF Owners, Owning, HeavyTasks
    <3> QED
      BY <3>1, FS_Subset, GpuAssumption
  <2>2. Cardinality(HeavyTasks) <= Cardinality(Owners) /\ IsFiniteSet(HeavyTasks)
    BY <2>1, FS_Subset
  <2>3. Cardinality(HeavyTasks) \in Nat /\ Cardinality(Owners) \in Nat
    BY <2>1, <2>2, FS_CardinalityType
  <2>4. free \in 0..MaxHeavyTasks /\ free + Cardinality(Owners) = MaxHeavyTasks
    BY <1>1 DEF IInv, GpuTypeOK, PermitsAccounted
  <2> QED
    BY <2>2, <2>3, <2>4, GpuAssumption
<1>2. IInv => (Enabled => Cardinality(HeavyTasks) <= MaxHeavyTasks)
  BY <1>1
<1> QED
  BY <1>2, Inductive, PTL
=============================================================================
