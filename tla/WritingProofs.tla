------------------------------ MODULE WritingProofs ------------------------------
(***************************************************************************)
(* Proofs about what a generation leaves (WritingGeneration), and about    *)
(* what its prompt is made of: the fragments a search puts there           *)
(* (MemoryRetrieval) and the material of the novel that is chosen and cut  *)
(* to the budget (ContextAssembly).                                        *)
(*                                                                         *)
(* For any requests, adapters, chapters, slots and chunks: a record that   *)
(* is final holds the text its client was shown, and no path through the   *)
(* bridge keeps a slot of the model.  What is stored is written at many    *)
(* ends and one of them, an error of a cancelled stream, writes nothing.   *)
(* The induction shows that this end is only reached before the first      *)
(* chunk: a status "cancelled" comes with a cancelled token, and with that *)
(* an error in the stream is taken for its end, which stores.              *)
(*                                                                         *)
(* The other two modules are functions of a request, and their             *)
(* recursions follow its data: what their loops compute is proved by       *)
(* induction on the number of rounds, with the invariant of the loop as    *)
(* the set of rounds it holds after (AllNumbers).                          *)
(***************************************************************************)
EXTENDS WritingGeneration, MemoryRetrieval, ContextAssembly,
        WellFoundedInduction, FiniteSetTheorems, SequenceTheorems, TLAPS

\* Where a generation stands before the model has made anything.
Early == {"idle", "begun", "resolve", "adapter", "activated", "scopeWait"}

RecordInv ==
    \A g \in Gens :
        /\ at[g] = "over" => status[g] \in Final /\ stored[g] = shown[g]
        /\ at[g] \in Early => shown[g] = 0 /\ stored[g] = 0
        /\ status[g] = "cancelled" => g \in cancelled

ScopeInv == IsFiniteSet(scope) /\ ScopeAccounted

WritingInv == TypeOK /\ RecordInv /\ ScopeInv

-----------------------------------------------------------------------------
LEMMA InitInv == Init => WritingInv
<1> SUFFICES ASSUME Init PROVE WritingInv
    OBVIOUS
<1>1. TypeOK
    BY WritingAssumption DEF Init, TypeOK, Points, Statuses
<1>2. RecordInv
    BY DEF Init, RecordInv, Early
<1>3. ScopeInv
    BY FS_EmptySet, WritingAssumption DEF Init, ScopeInv, ScopeAccounted
<1> QED
    BY <1>1, <1>2, <1>3 DEF WritingInv

(***************************************************************************)
(* Types.                                                                  *)
(***************************************************************************)
LEMMA GoType ==
    ASSUME TypeOK, NEW g \in Gens, NEW point \in Points, Go(g, point)
    PROVE  at' \in [Gens -> Points]
BY DEF TypeOK, Go

LEMMA FailType ==
    ASSUME TypeOK, NEW g \in Gens, Fail(g)
    PROVE  /\ at' \in [Gens -> Points]
           /\ status' \in [Gens -> Statuses]
           /\ stored' \in [Gens -> 0..MaxChunks]
<1>1. "over" \in Points /\ "failed" \in Statuses
    BY DEF Points, Statuses
<1> QED
    BY <1>1 DEF Fail, Go, TypeOK

LEMMA LeaveType ==
    ASSUME TypeOK, NEW g \in Gens, LeaveBridge(g)
    PROVE  tokens' \subseteq {KeyOf(h) : h \in Gens} /\ scope' \subseteq Gens
BY DEF TypeOK, LeaveBridge

LEMMA CancelType ==
    ASSUME TypeOK, NEW g \in Gens, TryCancel(g)
    PROVE  cancelled' \subseteq Gens /\ status' \in [Gens -> Statuses]
<1>1. "cancelled" \in Statuses
    BY DEF Statuses
<1> QED
    BY <1>1 DEF TypeOK, TryCancel

LEMMA TypeNext == TypeOK /\ [Next]_vars => TypeOK'
<1> SUFFICES ASSUME TypeOK, [Next]_vars PROVE TypeOK'
    OBVIOUS
<1> USE DEF vars, recordVars, bridgeVars
<1>0. \A p \in {"idle", "begun", "resolve", "adapter", "activated", "scopeWait", "reading", "shown",
                "stopped", "ended", "over", "gone"} : p \in Points
    BY DEF Points
<1>1. ASSUME NEW g \in Gens, Begin(g) PROVE TypeOK'
    <2>1. at' \in [Gens -> Points] /\ status' \in [Gens -> Statuses]
        BY <1>0, <1>1, GoType DEF Begin, TypeOK, Statuses
    <2> QED
        BY <1>1, <2>1 DEF Begin, TypeOK
<1>2. ASSUME NEW g \in Gens, Resolve(g) PROVE TypeOK'
    <2>1. /\ at' \in [Gens -> Points] /\ status' \in [Gens -> Statuses]
          /\ stored' \in [Gens -> 0..MaxChunks]
        BY <1>0, <1>2, GoType, FailType DEF Resolve, TypeOK
    <2> QED
        BY <1>2, <2>1 DEF Resolve, TypeOK
<1>3. ASSUME NEW g \in Gens, Activate(g) PROVE TypeOK'
    <2>1. /\ at' \in [Gens -> Points] /\ status' \in [Gens -> Statuses]
          /\ stored' \in [Gens -> 0..MaxChunks]
        BY <1>0, <1>3, GoType, FailType DEF Activate, TypeOK
    <2>2. active' \in {Adapter[h] : h \in Gens} \cup {None}
        BY <1>3 DEF Activate, TypeOK
    <2> QED
        BY <1>3, <2>1, <2>2 DEF Activate, TypeOK
<1>4. ASSUME NEW g \in Gens, Register(g) PROVE TypeOK'
    <2>1. at' \in [Gens -> Points]
        BY <1>0, <1>4, GoType DEF Register
    <2>2. tokens' \subseteq {KeyOf(h) : h \in Gens}
        BY <1>4 DEF Register, TypeOK
    <2> QED
        BY <1>4, <2>1, <2>2 DEF Register, TypeOK
<1>5. ASSUME NEW g \in Gens, EnterScope(g) PROVE TypeOK'
    <2>1. at' \in [Gens -> Points]
        BY <1>0, <1>5, GoType DEF EnterScope
    <2> QED
        BY <1>5, <2>1 DEF EnterScope, TypeOK
<1>6. ASSUME NEW g \in Gens, Refuse(g) PROVE TypeOK'
    <2>1. /\ at' \in [Gens -> Points] /\ status' \in [Gens -> Statuses]
          /\ stored' \in [Gens -> 0..MaxChunks]
        BY <1>0, <1>6, GoType, FailType DEF Refuse, TypeOK
    <2>2. tokens' \subseteq {KeyOf(h) : h \in Gens} /\ scope' \subseteq Gens
        BY <1>6, LeaveType DEF Refuse
    <2> QED
        BY <1>6, <2>1, <2>2 DEF Refuse, TypeOK
<1>7. ASSUME NEW g \in Gens, Chunk(g) PROVE TypeOK'
    <2>1. at' \in [Gens -> Points]
        BY <1>0, <1>7, GoType DEF Chunk
    <2>2. shown' \in [Gens -> 0..MaxChunks]
        <3>1. shown[g] + 1 \in 0..MaxChunks
            BY <1>7, WritingAssumption DEF Chunk, TypeOK
        <3> QED
            BY <1>7, <3>1 DEF Chunk, TypeOK
    <2> QED
        BY <1>7, <2>1, <2>2 DEF Chunk, TypeOK
<1>8. ASSUME NEW g \in Gens, ReadEnd(g) PROVE TypeOK'
    <2>1. at' \in [Gens -> Points]
        BY <1>0, <1>8, GoType DEF ReadEnd
    <2>2. tokens' \subseteq {KeyOf(h) : h \in Gens} /\ scope' \subseteq Gens
        BY <1>8, LeaveType DEF ReadEnd
    <2>3. shown' \in [Gens -> 0..MaxChunks]
        BY <1>8, WritingAssumption DEF ReadEnd, TypeOK
    <2>4. fate' \in [Gens -> {"open", "whole", "broken"}]
        BY <1>8 DEF ReadEnd, TypeOK
    <2> QED
        BY <1>8, <2>1, <2>2, <2>3, <2>4 DEF ReadEnd, TypeOK
<1>9. ASSUME NEW g \in Gens, ReadFails(g) PROVE TypeOK'
    <2>1. /\ at' \in [Gens -> Points] /\ status' \in [Gens -> Statuses]
          /\ stored' \in [Gens -> 0..MaxChunks]
        BY <1>0, <1>9, GoType, FailType DEF ReadFails, TypeOK
    <2>2. tokens' \subseteq {KeyOf(h) : h \in Gens} /\ scope' \subseteq Gens
        BY <1>9, LeaveType DEF ReadFails
    <2>3. fate' \in [Gens -> {"open", "whole", "broken"}] /\ cancelled' \subseteq Gens
        BY <1>9 DEF ReadFails, TypeOK
    <2> QED
        BY <1>9, <2>1, <2>2, <2>3 DEF ReadFails, TypeOK
<1>10. ASSUME NEW g \in Gens, Resume(g) PROVE TypeOK'
    <2>1. at' \in [Gens -> Points]
        BY <1>0, <1>10, GoType DEF Resume
    <2>2. stored' \in [Gens -> 0..MaxChunks]
        BY <1>10 DEF Resume, TypeOK
    <2> QED
        BY <1>10, <2>1, <2>2 DEF Resume, TypeOK
<1>11. ASSUME NEW g \in Gens, Conclude(g) PROVE TypeOK'
    <2>1. at' \in [Gens -> Points]
        BY <1>0, <1>11, GoType DEF Conclude
    <2>2. stored' \in [Gens -> 0..MaxChunks] /\ cancelled' \subseteq Gens /\ dropped' \subseteq Gens
        BY <1>11 DEF Conclude, TypeOK
    <2>3. status' \in [Gens -> Statuses]
        BY <1>11 DEF Conclude, TypeOK, Statuses
    <2> QED
        BY <1>11, <2>1, <2>2, <2>3 DEF Conclude, TypeOK
<1>12. ASSUME NEW g \in Gens, Abandon(g) PROVE TypeOK'
    <2>1. at' \in [Gens -> Points]
        BY <1>0, <1>12, GoType DEF Abandon
    <2>2. cancelled' \subseteq Gens /\ status' \in [Gens -> Statuses] /\ dropped' \subseteq Gens
        BY <1>12, CancelType DEF Abandon, TypeOK
    <2> QED
        BY <1>12, <2>1, <2>2 DEF Abandon, TypeOK
<1>13. ASSUME NEW g \in Gens, CloseDropped(g) PROVE TypeOK'
    <2>1. tokens' \subseteq {KeyOf(h) : h \in Gens} /\ scope' \subseteq Gens
        BY <1>13, LeaveType DEF CloseDropped
    <2> QED
        BY <1>13, <2>1 DEF CloseDropped, TypeOK
<1>14. ASSUME NEW g \in Gens, Cancel(g) PROVE TypeOK'
    <2>1. cancelled' \subseteq Gens /\ status' \in [Gens -> Statuses]
        BY <1>14, CancelType DEF Cancel
    <2>2. answer' \in [Gens -> {"none", "accepted", "refused"}]
        BY <1>14 DEF Cancel, TypeOK
    <2> QED
        BY <1>14, <2>1, <2>2 DEF Cancel, TypeOK
<1>15. CASE DeleteChapter
    BY <1>15 DEF DeleteChapter, TypeOK
<1>16. CASE UNCHANGED vars
    BY <1>16 DEF TypeOK
<1> QED
    BY <1>1, <1>2, <1>3, <1>4, <1>5, <1>6, <1>7, <1>8, <1>9, <1>10, <1>11, <1>12, <1>13, <1>14,
       <1>15, <1>16 DEF Next, Coroutine

(***************************************************************************)
(* The records.                                                            *)
(***************************************************************************)
LEMMA FailStores ==
    ASSUME TypeOK, RecordInv, NEW g \in Gens, Fail(g), UNCHANGED shown,
           cancelled \subseteq cancelled',
           at[g] \in Early \/ status[g] # "cancelled" \/ g \notin Streaming
    PROVE  RecordInv'
<1> SUFFICES ASSUME NEW h \in Gens
             PROVE  /\ at'[h] = "over" => status'[h] \in Final /\ stored'[h] = shown[h]
                    /\ at'[h] \in Early => shown[h] = 0 /\ stored'[h] = 0
                    /\ status'[h] = "cancelled" => h \in cancelled'
    BY DEF RecordInv
<1>1. CASE h = g
    <2>1. at'[g] = "over"
        BY DEF Fail, Go, TypeOK
    <2>2. CASE g \in Streaming /\ status[g] = "cancelled"
        <3>1. shown[g] = 0 /\ stored[g] = 0 /\ g \in cancelled
            BY <2>2 DEF RecordInv
        <3>2. status' = status /\ stored' = stored
            BY <2>2 DEF Fail
        <3> QED
            BY <1>1, <2>1, <2>2, <3>1, <3>2 DEF Early, Final
    <2>3. CASE ~(g \in Streaming /\ status[g] = "cancelled")
        <3>1. status'[g] = "failed" /\ stored'[g] = shown[g]
            BY <2>3 DEF Fail, TypeOK
        <3> QED
            BY <1>1, <2>1, <3>1 DEF Early, Final
    <2> QED
        BY <2>2, <2>3
<1>2. CASE h # g
    <2>1. at'[h] = at[h] /\ status'[h] = status[h] /\ stored'[h] = stored[h]
        BY <1>2 DEF Fail, Go, TypeOK
    <2> QED
        BY <2>1 DEF RecordInv
<1> QED
    BY <1>1, <1>2

LEMMA RecordNext == TypeOK /\ RecordInv /\ [Next]_vars => RecordInv'
<1> SUFFICES ASSUME TypeOK, RecordInv, [Next]_vars PROVE RecordInv'
    OBVIOUS
<1> USE DEF vars, recordVars, bridgeVars
<1>1. ASSUME NEW g \in Gens, Begin(g) PROVE RecordInv'
    BY <1>1 DEF Begin, Go, RecordInv, Early, TypeOK
<1>2. ASSUME NEW g \in Gens, Resolve(g) PROVE RecordInv'
    <2>1. CASE Fail(g)
        BY <1>2, <2>1, FailStores DEF Resolve, Early
    <2>2. CASE Go(g, "adapter") /\ UNCHANGED <<status, stored>>
        BY <1>2, <2>2 DEF Resolve, Go, RecordInv, Early, TypeOK
    <2> QED
        BY <1>2, <2>1, <2>2 DEF Resolve
<1>3. ASSUME NEW g \in Gens, Activate(g) PROVE RecordInv'
    <2>1. CASE Fail(g)
        BY <1>3, <2>1, FailStores DEF Activate, Early
    <2>2. CASE Go(g, "activated") /\ UNCHANGED <<status, stored>>
        BY <1>3, <2>2 DEF Activate, Go, RecordInv, Early, TypeOK
    <2> QED
        BY <1>3, <2>1, <2>2 DEF Activate
<1>4. ASSUME NEW g \in Gens, Register(g) PROVE RecordInv'
    BY <1>4 DEF Register, Go, RecordInv, Early, TypeOK
<1>5. ASSUME NEW g \in Gens, EnterScope(g) PROVE RecordInv'
    BY <1>5 DEF EnterScope, Go, RecordInv, Early, TypeOK
<1>6. ASSUME NEW g \in Gens, Refuse(g) PROVE RecordInv'
    <2>1. CASE Fail(g)
        BY <1>6, <2>1, FailStores DEF Refuse, Early
    <2>2. CASE Go(g, "ended") /\ UNCHANGED <<status, stored>>
        BY <1>6, <2>2 DEF Refuse, Go, RecordInv, Early, TypeOK
    <2> QED
        BY <1>6, <2>1, <2>2 DEF Refuse
<1>7. ASSUME NEW g \in Gens, Chunk(g) PROVE RecordInv'
    BY <1>7 DEF Chunk, Go, RecordInv, Early, TypeOK
<1>8. ASSUME NEW g \in Gens, ReadEnd(g) PROVE RecordInv'
    BY <1>8 DEF ReadEnd, Go, RecordInv, Early, TypeOK
<1>9. ASSUME NEW g \in Gens, ReadFails(g) PROVE RecordInv'
    <2>0. cancelled \subseteq cancelled'
        BY <1>9 DEF ReadFails
    <2>1. CASE g \in Streaming /\ g \in cancelled'
        <3>1. Go(g, "ended") /\ UNCHANGED <<status, stored, shown>>
            BY <1>9, <2>1 DEF ReadFails
        <3> QED
            BY <2>0, <3>1 DEF Go, RecordInv, Early, TypeOK
    <2>2. CASE ~(g \in Streaming /\ g \in cancelled')
        <3>1. Fail(g) /\ UNCHANGED shown
            BY <1>9, <2>2 DEF ReadFails
        <3>2. status[g] # "cancelled" \/ g \notin Streaming
            BY <2>0, <2>2 DEF RecordInv
        <3> QED
            BY <2>0, <3>1, <3>2, FailStores
    <2> QED
        BY <2>1, <2>2
<1>10. ASSUME NEW g \in Gens, Resume(g) PROVE RecordInv'
    <2>1. CASE at[g] = "begun"
        BY <1>10, <2>1 DEF Resume, Go, RecordInv, Early, TypeOK
    <2>2. CASE at[g] = "shown"
        <3>1. Go(g, "reading") /\ \A h \in Gens : h # g => stored'[h] = stored[h]
            BY <1>10, <2>2 DEF Resume, TypeOK
        <3> QED
            BY <1>10, <3>1 DEF Resume, Go, RecordInv, Early, TypeOK
    <2> QED
        BY <1>10, <2>1, <2>2 DEF Resume
<1>11. ASSUME NEW g \in Gens, Conclude(g) PROVE RecordInv'
    <2>1. at'[g] = "over" /\ stored'[g] = shown[g] /\ shown' = shown /\ cancelled \subseteq cancelled'
        BY <1>11 DEF Conclude, Go, TypeOK
    <2>2. status'[g] \in {"succeeded", "failed"} \/ (status'[g] = "cancelled" /\ status[g] = "cancelled")
        BY <1>11 DEF Conclude, TypeOK
    <2>3. \A h \in Gens : h # g => at'[h] = at[h] /\ status'[h] = status[h] /\ stored'[h] = stored[h]
        BY <1>11 DEF Conclude, Go, TypeOK
    <2> QED
        BY <2>1, <2>2, <2>3 DEF RecordInv, Early, Final
<1>12. ASSUME NEW g \in Gens, Abandon(g) PROVE RecordInv'
    BY <1>12 DEF Abandon, TryCancel, Go, RecordInv, Early, TypeOK
<1>13. ASSUME NEW g \in Gens, CloseDropped(g) PROVE RecordInv'
    BY <1>13 DEF CloseDropped, RecordInv
<1>14. ASSUME NEW g \in Gens, Cancel(g) PROVE RecordInv'
    BY <1>14 DEF Cancel, TryCancel, RecordInv, Final, TypeOK
<1>15. CASE DeleteChapter
    BY <1>15 DEF DeleteChapter, RecordInv
<1>16. CASE UNCHANGED vars
    BY <1>16 DEF RecordInv
<1> QED
    BY <1>1, <1>2, <1>3, <1>4, <1>5, <1>6, <1>7, <1>8, <1>9, <1>10, <1>11, <1>12, <1>13, <1>14,
       <1>15, <1>16 DEF Next, Coroutine

(***************************************************************************)
(* The slots.                                                              *)
(***************************************************************************)
InBridge == {"reading", "shown", "stopped"}

\* Nobody enters, and whoever of the scope moves on is dropped, or stays inside.
LEMMA ScopeShrinks ==
    ASSUME TypeOK, ScopeInv, scope' \subseteq scope,
           \A h \in scope' : at'[h] \in InBridge \/ h \in dropped'
    PROVE  ScopeInv'
<1>1. IsFiniteSet(scope') /\ Cardinality(scope') <= Cardinality(scope)
    BY FS_Subset DEF ScopeInv
<1>2. Cardinality(scope) \in Nat /\ Cardinality(scope') \in Nat
    BY <1>1, FS_CardinalityType DEF ScopeInv
<1>3. Cardinality(scope') <= Slots
    BY <1>1, <1>2, WritingAssumption DEF ScopeInv, ScopeAccounted
<1> QED
    BY <1>1, <1>3 DEF ScopeInv, ScopeAccounted, InBridge

LEMMA ScopeNext == TypeOK /\ ScopeInv /\ [Next]_vars => ScopeInv'
<1> SUFFICES ASSUME TypeOK, ScopeInv, [Next]_vars PROVE ScopeInv'
    OBVIOUS
<1> USE DEF vars, recordVars, bridgeVars
<1>0. \A h \in scope : at[h] \in InBridge \/ h \in dropped
    BY DEF ScopeInv, ScopeAccounted, InBridge
<1>1. ASSUME NEW g \in Gens, Begin(g) \/ Resolve(g) \/ Activate(g) \/ Register(g) PROVE ScopeInv'
    <2>1. at[g] \notin InBridge /\ UNCHANGED <<scope, dropped>>
        BY <1>1 DEF Begin, Resolve, Activate, Register, InBridge
    <2>2. \A h \in Gens : h # g => at'[h] = at[h]
        BY <1>1 DEF Begin, Resolve, Activate, Register, Fail, Go, TypeOK
    <2> QED
        BY <1>0, <2>1, <2>2, ScopeShrinks DEF TypeOK
<1>2. ASSUME NEW g \in Gens, EnterScope(g) PROVE ScopeInv'
    <2>1. IsFiniteSet(scope') /\ Cardinality(scope') <= Cardinality(scope) + 1
        <3>1. IsFiniteSet(scope) /\ Cardinality(scope) \in Nat
            BY FS_CardinalityType DEF ScopeInv
        <3> QED
            BY <1>2, <3>1, FS_AddElement DEF EnterScope
    <2>2. Cardinality(scope) \in Nat /\ Cardinality(scope') \in Nat
        BY <2>1, FS_CardinalityType DEF ScopeInv
    <2>3. Cardinality(scope') <= Slots
        BY <1>2, <2>1, <2>2, WritingAssumption DEF EnterScope
    <2>4. \A h \in scope' : at'[h] \in InBridge \/ h \in dropped'
        BY <1>0, <1>2 DEF EnterScope, Go, TypeOK, InBridge
    <2> QED
        BY <2>1, <2>3, <2>4 DEF ScopeInv, ScopeAccounted, InBridge
<1>3. ASSUME NEW g \in Gens, Refuse(g) \/ ReadEnd(g) \/ ReadFails(g) PROVE ScopeInv'
    <2>1. scope' = scope \ {g} /\ dropped' = dropped
        BY <1>3 DEF Refuse, ReadEnd, ReadFails, LeaveBridge
    <2>2. \A h \in Gens : h # g => at'[h] = at[h]
        BY <1>3 DEF Refuse, ReadEnd, ReadFails, Fail, Go, TypeOK
    <2> QED
        BY <1>0, <2>1, <2>2, ScopeShrinks DEF TypeOK
<1>4. ASSUME NEW g \in Gens, Chunk(g) \/ Resume(g) PROVE ScopeInv'
    <2>1. at'[g] \in InBridge \/ (at[g] \notin InBridge)
        BY <1>4 DEF Chunk, Resume, Go, TypeOK, InBridge
    <2>2. UNCHANGED <<scope, dropped>> /\ \A h \in Gens : h # g => at'[h] = at[h]
        BY <1>4 DEF Chunk, Resume, Go, TypeOK
    <2> QED
        BY <1>0, <2>1, <2>2, ScopeShrinks DEF TypeOK
<1>5. ASSUME NEW g \in Gens, Conclude(g) \/ Abandon(g) PROVE ScopeInv'
    <2>1. scope' = scope /\ dropped \subseteq dropped' /\ (at[g] \in InBridge => g \in dropped')
        BY <1>5 DEF Conclude, Abandon, InBridge
    <2>2. \A h \in Gens : h # g => at'[h] = at[h]
        BY <1>5 DEF Conclude, Abandon, Go, TypeOK
    <2> QED
        BY <1>0, <2>1, <2>2, ScopeShrinks DEF TypeOK
<1>6. ASSUME NEW g \in Gens, CloseDropped(g) PROVE ScopeInv'
    BY <1>0, <1>6, ScopeShrinks DEF CloseDropped, LeaveBridge
<1>7. ASSUME NEW g \in Gens, Cancel(g) PROVE ScopeInv'
    BY <1>0, <1>7, ScopeShrinks DEF Cancel
<1>8. CASE DeleteChapter
    BY <1>0, <1>8, ScopeShrinks DEF DeleteChapter
<1>9. CASE UNCHANGED vars
    BY <1>0, <1>9, ScopeShrinks
<1> QED
    BY <1>1, <1>2, <1>3, <1>4, <1>5, <1>6, <1>7, <1>8, <1>9 DEF Next, Coroutine

-----------------------------------------------------------------------------
LEMMA WritingInductive == Spec => []WritingInv
<1>1. WritingInv /\ [Next]_vars => WritingInv'
    BY TypeNext, RecordNext, ScopeNext DEF WritingInv
<1> QED
    BY InitInv, <1>1, PTL DEF Spec

\* A final record holds all the text its client was shown, whichever of the ends
\* of service.py it came by, and the inference scope is never over its capacity
\* nor kept by a generation that is neither in the bridge nor dropped.
THEOREM WritingGivesBack == Spec => []TextAndSlotsAccounted
<1>1. WritingInv => TextAndSlotsAccounted
    BY DEF WritingInv, RecordInv, ScopeInv, TextAndSlotsAccounted, StoredIsShown
<1> QED
    BY WritingInductive, <1>1, PTL

-----------------------------------------------------------------------------
(* Numbers, lists and recursions.                                          *)

\* Every set of numbers has a least one (the well-foundedness of <, as a relation).
LEMMA MinExists ==
    ASSUME NEW S \in SUBSET Nat, S # {}
    PROVE  Min(S) \in S /\ \A y \in S : Min(S) =< y
<1>1. \E x \in S : \A y \in S : ~ (<<y, x>> \in OpToRel(<, Nat))
    BY NatLessThanWellFounded, WFMin
<1>2. \A x, y \in Nat : <<y, x>> \in OpToRel(<, Nat) <=> y < x
    BY DEF OpToRel
<1>3. \E x \in S : \A y \in S : x =< y
    <2>1. PICK x \in S : \A y \in S : ~ (<<y, x>> \in OpToRel(<, Nat))
        BY <1>1
    <2>2. \A y \in S : ~ (y < x)
        BY <1>2, <2>1
    <2> QED
        BY <2>2
<1> QED
    BY <1>3 DEF Min

\* Induction, as a fact about sets of numbers.
LEMMA AllNumbers ==
    ASSUME NEW S \in SUBSET Nat, 0 \in S, \A n \in S : n + 1 \in S
    PROVE  \A n \in Nat : n \in S
<1> DEFINE Out == Nat \ S
<1>1. SUFFICES ASSUME Out # {} PROVE FALSE
    OBVIOUS
<1>2. Out \in SUBSET Nat
    OBVIOUS
<1>3. PICK m \in Out : \A y \in Out : m =< y
    <2> HIDE DEF Out
    <2> QED
        BY <1>1, <1>2, MinExists
<1>4. m \in Nat /\ m # 0 /\ m \notin S
    OBVIOUS
<1>5. m - 1 \in Nat /\ m - 1 \notin Out
    BY <1>3, <1>4
<1>6. m - 1 \in S
    BY <1>5
<1>7. (m - 1) + 1 \in S
    BY <1>6
<1>8. (m - 1) + 1 = m
    BY <1>4
<1> QED
    BY <1>4, <1>7, <1>8

\* What a recursion over 0..n computes from the first value and the step.
Solves(f, X, first, n, step) ==
  f \in [0..n -> X] /\ \A k \in 0..n : f[k] = IF k = 0 THEN first ELSE step[<<k, f[k - 1]>>]

\* A recursion whose step stays in a set has a solution.
LEMMA RecursionExists ==
    ASSUME NEW X, NEW first \in X, NEW n \in Nat, NEW step \in [(1..n) \X X -> X]
    PROVE  \E f : Solves(f, X, first, n, step)
<1> DEFINE Is(f, m) == \A k \in 0..m : f[k] = IF k = 0 THEN first ELSE step[<<k, f[k - 1]>>]
           Reached == {m \in Nat : m =< n => \E f \in [0..m -> X] : Is(f, m)}
<1>1. 0 \in Reached
    <2>1. [k \in 0..0 |-> first] \in [0..0 -> X] /\ Is([k \in 0..0 |-> first], 0)
        OBVIOUS
    <2> QED
        BY <2>1
<1>2. ASSUME NEW m \in Reached PROVE m + 1 \in Reached
    <2> SUFFICES ASSUME m + 1 =< n PROVE \E f \in [0..(m + 1) -> X] : Is(f, m + 1)
        OBVIOUS
    <2>1. PICK f \in [0..m -> X] : Is(f, m)
        OBVIOUS
    <2> DEFINE last == step[<<m + 1, f[m]>>]
               g == [k \in 0..(m + 1) |-> IF k = m + 1 THEN last ELSE f[k]]
    <2>2. m \in Nat /\ f[m] \in X /\ m + 1 \in 1..n
        BY <2>1
    <2>3. last \in X
        BY <2>2
    <2> HIDE DEF last
    <2>4. g \in [0..(m + 1) -> X]
        <3>1. \A k \in 0..(m + 1) : k # m + 1 => k \in 0..m
            BY <2>2
        <3> QED
            BY <2>1, <2>3, <3>1
    <2>5. g[m + 1] = last /\ \A k \in 0..m : g[k] = f[k]
        BY <2>2
    <2> HIDE DEF g
    <2>6. ASSUME NEW k \in 0..(m + 1) PROVE g[k] = IF k = 0 THEN first ELSE step[<<k, g[k - 1]>>]
        <3>1. CASE k = m + 1
            <4>1. k # 0 /\ k - 1 = m /\ g[k - 1] = f[m]
                BY <2>2, <2>5, <3>1
            <4> QED
                BY <2>5, <3>1, <4>1 DEF last
        <3>2. CASE k # m + 1
            <4>1. k \in 0..m /\ (k # 0 => k - 1 \in 0..m)
                BY <2>2, <3>2
            <4> QED
                BY <2>1, <2>5, <4>1
        <3> QED
            BY <3>1, <3>2
    <2> QED
        BY <2>4, <2>6
<1>3. Reached \in SUBSET Nat
    OBVIOUS
<1>4. n \in Reached
    <2> HIDE DEF Reached
    <2> QED
        BY <1>1, <1>2, <1>3, AllNumbers
<1>5. PICK f \in [0..n -> X] : Is(f, n)
    BY <1>4
<1> QED
    BY <1>5 DEF Solves

-----------------------------------------------------------------------------
(* Sums, comprehensions and sorting                                        *)

\* Each sum adds one number to the one before.
LEMMA SumsStep ==
    ASSUME NEW s \in Seq(Int)
    PROVE  /\ Sums(s) \in [0..Len(s) -> Int]
           /\ Sums(s)[0] = 0
           /\ \A k \in 1..Len(s) : Sums(s)[k] = Sums(s)[k - 1] + s[k]
<1> DEFINE N == Len(s)
           u == Sums(s)
           Is(f) == f = [k \in 0..N |-> IF k = 0 THEN 0 ELSE f[k - 1] + s[k]]
           step == [q \in (1..N) \X Int |-> q[2] + s[q[1]]]
<1>1. N \in Nat /\ \A k \in 1..N : s[k] \in Int
    OBVIOUS
<1>2. step \in [(1..N) \X Int -> Int] /\ \A k \in 1..N, x \in Int : step[<<k, x>>] = x + s[k]
    BY <1>1
<1>3. u = CHOOSE f : Is(f)
    BY DEF Sums
<1>4. \E f : Is(f)
    <2> HIDE DEF step, N, u
    <2> DEFINE X == Int
               first == 0
    <2>a. first \in X /\ step \in [(1..N) \X X -> X]
        BY <1>2
    <2> HIDE DEF X, first
    <2>b. \E f : Solves(f, X, first, N, step)
        BY <1>1, <2>a, RecursionExists
    <2>1. PICK f : Solves(f, Int, 0, N, step)
        BY <2>b DEF X, first
    <2>2. \A k \in 1..N : f[k - 1] \in Int
        BY <1>1, <2>1 DEF Solves
    <2>3. ASSUME NEW k \in 0..N PROVE f[k] = IF k = 0 THEN 0 ELSE f[k - 1] + s[k]
        <3>1. CASE k = 0
            BY <2>1, <3>1 DEF Solves
        <3>2. CASE k # 0
            <4>1. k \in 1..N
                BY <1>1, <3>2
            <4>2. f[k] = step[<<k, f[k - 1]>>]
                BY <2>1, <3>2 DEF Solves
            <4> QED
                BY <1>2, <2>2, <3>2, <4>1, <4>2
        <3> QED
            BY <3>1, <3>2
    <2>4. Is(f)
        BY <2>1, <2>3 DEF Solves
    <2> QED
        BY <2>4
<1>5. Is(u)
    BY <1>3, <1>4
<1> HIDE DEF u, step
<1>6. u[0] = 0 /\ \A k \in 1..N : u[k] = u[k - 1] + s[k]
    BY <1>1, <1>5
<1>7. \A k \in Nat : k =< N => u[k] \in Int
    <2> DEFINE Typed == {k \in Nat : k =< N => u[k] \in Int}
    <2>1. 0 \in Typed /\ Typed \in SUBSET Nat
        BY <1>6
    <2>2. ASSUME NEW k \in Typed PROVE k + 1 \in Typed
        <3>1. k \in Nat /\ (k + 1 =< N => u[k + 1] = u[k] + s[k + 1] /\ s[k + 1] \in Int)
            BY <1>1, <1>6
        <3> QED
            BY <1>1, <3>1
    <2> HIDE DEF Typed
    <2>3. \A k \in Nat : k \in Typed
        BY <2>1, <2>2, AllNumbers
    <2> QED
        BY <2>3 DEF Typed
<1>8. u \in [0..N -> Int]
    BY <1>1, <1>5, <1>7
<1> QED
    BY <1>6, <1>8 DEF u

\* Each item of a comprehension is appended to those before, or left out.
LEMMA ThoseStep ==
    ASSUME NEW T, NEW items \in Seq(T), NEW S
    PROVE  LET f == FirstOfThose(items, S) IN
           /\ f \in [0..Len(items) -> Seq(T)]
           /\ f[0] = <<>>
           /\ \A k \in 1..Len(items) :
                f[k] = IF k \in S THEN Append(f[k - 1], items[k]) ELSE f[k - 1]
<1> DEFINE N == Len(items)
           X == Seq(T)
           More(k, x) == IF k \in S THEN Append(x, items[k]) ELSE x
           u == FirstOfThose(items, S)
           Is(f) == f = [k \in 0..N |-> IF k = 0 THEN <<>> ELSE More(k, f[k - 1])]
           step == [q \in (1..N) \X X |-> More(q[1], q[2])]
<1>1. N \in Nat /\ <<>> \in X
    OBVIOUS
<1>2. \A k \in 1..N, x \in X : More(k, x) \in X
    OBVIOUS
<1>3. u = CHOOSE f : Is(f)
    BY DEF FirstOfThose
<1>a. \A k, x : More(k, x) = IF k \in S THEN Append(x, items[k]) ELSE x
    OBVIOUS
<1> HIDE DEF More, X, N
<1>4. step \in [(1..N) \X X -> X] /\ \A k \in 1..N, x \in X : step[<<k, x>>] = More(k, x)
    BY <1>2
<1>5. \E f : Is(f)
    <2> HIDE DEF step
    <2>1. PICK f : Solves(f, X, <<>>, N, step)
        BY <1>1, <1>4, RecursionExists
    <2>2. \A k \in 1..N : f[k - 1] \in X
        BY <1>1, <2>1 DEF Solves
    <2>3. ASSUME NEW k \in 0..N PROVE f[k] = IF k = 0 THEN <<>> ELSE More(k, f[k - 1])
        <3>1. CASE k = 0
            BY <2>1, <3>1 DEF Solves
        <3>2. CASE k # 0
            <4>1. k \in 1..N
                BY <1>1, <3>2
            <4>2. f[k] = step[<<k, f[k - 1]>>]
                BY <2>1, <3>2 DEF Solves
            <4> QED
                BY <1>4, <2>2, <3>2, <4>1, <4>2
        <3> QED
            BY <3>1, <3>2
    <2>4. Is(f)
        BY <2>1, <2>3 DEF Solves
    <2> QED
        BY <2>4
<1>6. Is(u)
    BY <1>3, <1>5
<1> HIDE DEF u, step
<1>7. u[0] = <<>> /\ \A k \in 1..N : u[k] = More(k, u[k - 1])
    BY <1>1, <1>6
<1>8. \A k \in Nat : k =< N => u[k] \in X
    <2> DEFINE Typed == {k \in Nat : k =< N => u[k] \in X}
    <2>1. 0 \in Typed /\ Typed \in SUBSET Nat
        BY <1>1, <1>7
    <2>2. ASSUME NEW k \in Typed PROVE k + 1 \in Typed
        <3>1. k \in Nat /\ (k + 1 =< N => u[k + 1] = More(k + 1, u[k]) /\ k + 1 \in 1..N)
            BY <1>1, <1>7
        <3> QED
            BY <1>1, <1>2, <3>1
    <2> HIDE DEF Typed
    <2>3. \A k \in Nat : k \in Typed
        BY <2>1, <2>2, AllNumbers
    <2> QED
        BY <2>3 DEF Typed
<1>9. u \in [0..N -> X]
    BY <1>1, <1>6, <1>8
<1> QED
    BY <1>7, <1>9, <1>a DEF u, N, X

\* The first n entries of a list.
LEMMA PrefixIs ==
    ASSUME NEW T, NEW s \in Seq(T), NEW n \in Nat, n =< Len(s)
    PROVE  LET t == SubSeq(s, 1, n) IN
           t \in Seq(T) /\ Len(t) = n /\ DOMAIN t = 1..n /\ \A k \in 1..n : t[k] = s[k]
<1> DEFINE t == SubSeq(s, 1, n)
<1>1. \A i \in 1..n : s[i] \in T
    OBVIOUS
<1>2. t \in Seq(T)
    BY <1>1, SubSeqProperties
<1>3. Len(t) = n
    BY <1>1, SubSeqProperties
<1>4. \A k \in 1..n : t[k] = s[k]
    BY <1>1
<1>5. DOMAIN t = 1..n
    BY <1>2, <1>3, LenProperties
<1> QED
    BY <1>2, <1>3, <1>4, <1>5

\* The sums of two lists agree as far as the lists do.
LEMMA SumsAgree ==
    ASSUME NEW s \in Seq(Int), NEW t \in Seq(Int), NEW n \in Nat, n =< Len(s), n =< Len(t),
           \A k \in 1..n : s[k] = t[k]
    PROVE  Sums(s)[n] = Sums(t)[n]
<1> DEFINE u == Sums(s)
           v == Sums(t)
           Same == {k \in Nat : k =< n => u[k] = v[k]}
<1>1. /\ u[0] = 0 /\ \A k \in 1..Len(s) : u[k] = u[k - 1] + s[k]
      /\ v[0] = 0 /\ \A k \in 1..Len(t) : v[k] = v[k - 1] + t[k]
    BY SumsStep
<1>2. Len(s) \in Nat /\ Len(t) \in Nat
    OBVIOUS
<1> HIDE DEF u, v
<1>3. 0 \in Same /\ Same \in SUBSET Nat
    BY <1>1
<1>4. ASSUME NEW k \in Same PROVE k + 1 \in Same
    <2>1. k \in Nat
        OBVIOUS
    <2>2. CASE k + 1 =< n
        <3>1. k + 1 \in 1..Len(s) /\ k + 1 \in 1..Len(t) /\ k + 1 \in 1..n /\ (k + 1) - 1 = k
            BY <1>2, <2>1, <2>2
        <3>2. u[k + 1] = u[k] + s[k + 1] /\ v[k + 1] = v[k] + t[k + 1]
            BY <1>1, <3>1
        <3> QED
            BY <2>1, <2>2, <3>1, <3>2
    <2> QED
        BY <2>1, <2>2
<1> HIDE DEF Same
<1>5. n \in Same
    BY <1>3, <1>4, AllNumbers
<1> QED
    BY <1>5 DEF Same, u, v

\* The sum of a list is that of the list without its last number, and this.
LEMMA TotalIs ==
    ASSUME NEW s \in Seq(Int)
    PROVE  /\ Total(s) \in Int
           /\ s = <<>> => Total(s) = 0
           /\ s # <<>> => Total(s) = Total(SubSeq(s, 1, Len(s) - 1)) + s[Len(s)]
<1>1. Len(s) \in Nat /\ (s = <<>> <=> Len(s) = 0)
    OBVIOUS
<1>2. /\ Sums(s) \in [0..Len(s) -> Int] /\ Sums(s)[0] = 0
      /\ \A k \in 1..Len(s) : Sums(s)[k] = Sums(s)[k - 1] + s[k]
    BY SumsStep
<1>3. ASSUME s # <<>> PROVE Total(s) = Total(SubSeq(s, 1, Len(s) - 1)) + s[Len(s)]
    <2> DEFINE n == Len(s) - 1
               t == SubSeq(s, 1, n)
    <2>1. n \in Nat /\ n =< Len(s) /\ Len(s) \in 1..Len(s) /\ n = Len(s) - 1
        BY <1>1, <1>3
    <2> HIDE DEF n
    <2>2. t \in Seq(Int) /\ Len(t) = n /\ \A k \in 1..n : t[k] = s[k]
        BY <2>1, PrefixIs
    <2> HIDE DEF t
    <2>a. \A k \in 1..n : s[k] = t[k]
        BY <2>2
    <2>3. Sums(t)[n] = Sums(s)[n]
        <3>1. n =< Len(s) /\ n =< Len(t)
            BY <1>1, <2>1, <2>2
        <3> QED
            BY <2>1, <2>2, <3>1, SumsAgree
    <2> QED
        BY <1>2, <2>1, <2>2, <2>3 DEF Total, t, n
<1> QED
    BY <1>1, <1>2, <1>3 DEF Total

\* Numbers from 0 on have a sum from 0 on.
LEMMA TotalNat ==
    ASSUME NEW s \in Seq(Nat)
    PROVE  Total(s) \in Nat
<1> DEFINE u == Sums(s)
           Fine == {k \in Nat : k =< Len(s) => u[k] \in Nat}
<1>1. Len(s) \in Nat /\ s \in Seq(Int)
    OBVIOUS
<1>2. u[0] = 0 /\ \A k \in 1..Len(s) : u[k] = u[k - 1] + s[k]
    BY <1>1, SumsStep
<1> HIDE DEF u
<1>3. 0 \in Fine /\ Fine \in SUBSET Nat
    BY <1>2
<1>4. ASSUME NEW k \in Fine PROVE k + 1 \in Fine
    <2>1. k \in Nat
        OBVIOUS
    <2>2. CASE k + 1 =< Len(s)
        <3>1. k + 1 \in 1..Len(s) /\ k =< Len(s) /\ (k + 1) - 1 = k
            BY <1>1, <2>1, <2>2
        <3>2. u[k] \in Nat /\ s[k + 1] \in Nat /\ u[k + 1] = u[k] + s[k + 1]
            BY <1>2, <3>1
        <3> QED
            BY <2>1, <3>2
    <2> QED
        BY <2>1, <2>2
<1> HIDE DEF Fine
<1>5. Len(s) \in Fine
    BY <1>1, <1>3, <1>4, AllNumbers
<1> QED
    BY <1>1, <1>5 DEF Fine, Total, u

\* x is one of the entries of s.
Among(x, s) == \E n \in DOMAIN s : s[n] = x

\* What a comprehension keeps: the items at those positions.
LEMMA ThoseAre ==
    ASSUME NEW T, NEW items \in Seq(T), NEW S
    PROVE  /\ Those(items, S) \in Seq(T)
           /\ \A x : Among(x, Those(items, S)) <=> \E i \in DOMAIN items : i \in S /\ items[i] = x
<1> DEFINE u == FirstOfThose(items, S)
           N == Len(items)
           Is(k) == \A x : Among(x, u[k]) <=> \E i \in 1..k : i \in S /\ items[i] = x
           Reached == {k \in Nat : k =< N => Is(k)}
<1>1. N \in Nat /\ DOMAIN items = 1..N
    OBVIOUS
<1>2. /\ u \in [0..N -> Seq(T)] /\ u[0] = <<>>
      /\ \A k \in 1..N : u[k] = IF k \in S THEN Append(u[k - 1], items[k]) ELSE u[k - 1]
    BY ThoseStep
<1> HIDE DEF u, N
<1>3. 0 \in Reached /\ Reached \in SUBSET Nat
    BY <1>2 DEF Among
<1>4. ASSUME NEW k \in Reached PROVE k + 1 \in Reached
    <2>1. SUFFICES ASSUME k + 1 =< N PROVE Is(k + 1)
        OBVIOUS
    <2>2. k \in Nat /\ k + 1 \in 1..N /\ k \in 0..N /\ (k + 1) - 1 = k
        BY <1>1, <2>1
    <2>3. Is(k) /\ u[k] \in Seq(T) /\ items[k + 1] \in T
        BY <1>1, <1>2, <2>2 DEF N
    <2>4. \A i : i \in 1..(k + 1) <=> i \in 1..k \/ i = k + 1
        BY <2>2
    <2>5. CASE k + 1 \in S
        <3>1. u[k + 1] = Append(u[k], items[k + 1])
            BY <1>2, <2>2, <2>5
        <3>2. \A x : Among(x, u[k + 1]) <=> Among(x, u[k]) \/ x = items[k + 1]
            <4> DEFINE w == Append(u[k], items[k + 1])
                       m == Len(u[k])
            <4>1. m \in Nat /\ DOMAIN u[k] = 1..m
                BY <2>3
            <4>2. DOMAIN w = 1..(m + 1) /\ w[m + 1] = items[k + 1] /\ \A j \in 1..m : w[j] = u[k][j]
                BY <2>3
            <4>3. \A j : j \in 1..(m + 1) <=> j \in 1..m \/ j = m + 1
                BY <4>1
            <4> HIDE DEF w, m
            <4>4. \A x : Among(x, w) <=> Among(x, u[k]) \/ x = items[k + 1]
                BY <4>1, <4>2, <4>3 DEF Among
            <4> QED
                BY <3>1, <4>4 DEF w
        <3> QED
            BY <2>3, <2>4, <2>5, <3>2
    <2>6. CASE k + 1 \notin S
        <3>1. u[k + 1] = u[k]
            BY <1>2, <2>2, <2>6
        <3> QED
            BY <2>3, <2>4, <2>6, <3>1
    <2> QED
        BY <2>5, <2>6
<1> HIDE DEF Reached
<1>5. N \in Reached
    BY <1>1, <1>3, <1>4, AllNumbers
<1>6. Is(N)
    BY <1>1, <1>5 DEF Reached
<1>7. Those(items, S) = u[N]
    BY DEF Those, u, N
<1>8. u[N] \in Seq(T)
    BY <1>1, <1>2
<1>9. \A x : Among(x, u[N]) <=> \E i \in DOMAIN items : i \in S /\ items[i] = x
    BY <1>1, <1>6
<1> QED
    BY <1>7, <1>8, <1>9

\* A function on 1..n is a list.
LEMMA ListIs ==
    ASSUME NEW T, NEW n \in Nat, NEW f \in [1..n -> T]
    PROVE  f \in Seq(T) /\ Len(f) = n /\ DOMAIN f = 1..n
OBVIOUS

\* The entries of a list, and what the list holds.
LEMMA ToSetIs ==
    ASSUME NEW T, NEW s \in Seq(T)
    PROVE  \A x : x \in ToSet(s) <=> Among(x, s)
<1>1. DOMAIN s = 1..Len(s)
    OBVIOUS
<1> QED
    BY <1>1 DEF ToSet, Among

\* Tuples of numbers of one length are in a strict total order.
LEMMA LessIsOrder ==
    ASSUME NEW w \in Nat, NEW x \in [1..w -> Int], NEW y \in [1..w -> Int], NEW z \in [1..w -> Int]
    PROVE  /\ ~ Less(x, x)
           /\ Less(x, y) /\ Less(y, z) => Less(x, z)
           /\ x # y => Less(x, y) \/ Less(y, x)
<1>1. ~ Less(x, x)
    BY DEF Less
<1>2. ASSUME Less(x, y), Less(y, z) PROVE Less(x, z)
    <2>1. PICK j \in 1..w : x[j] < y[j] /\ \A i \in 1..(j - 1) : x[i] = y[i]
        BY <1>2 DEF Less
    <2>2. PICK k \in 1..w : y[k] < z[k] /\ \A i \in 1..(k - 1) : y[i] = z[i]
        BY <1>2 DEF Less
    <2> DEFINE m == IF j < k THEN j ELSE k
    <2>3. m \in 1..w /\ m =< j /\ m =< k
        OBVIOUS
    <2>4. x[m] < z[m]
        <3>1. CASE j < k
            <4>1. m = j /\ j \in 1..(k - 1)
                BY <3>1
            <4> QED
                BY <2>1, <2>2, <4>1
        <3>2. CASE k < j
            <4>1. m = k /\ k \in 1..(j - 1)
                BY <3>2
            <4> QED
                BY <2>1, <2>2, <4>1
        <3>3. CASE j = k
            <4>1. m = k
                BY <3>3
            <4> QED
                BY <2>1, <2>2, <3>3, <4>1
        <3> QED
            BY <3>1, <3>2, <3>3
    <2>5. ASSUME NEW i \in 1..(m - 1) PROVE x[i] = z[i]
        <3>1. i \in 1..(j - 1) /\ i \in 1..(k - 1)
            BY <2>3
        <3> QED
            BY <2>1, <2>2, <3>1
    <2> HIDE DEF m
    <2> QED
        BY <2>3, <2>4, <2>5 DEF Less
<1>3. ASSUME x # y PROVE Less(x, y) \/ Less(y, x)
    <2> DEFINE D == {i \in 1..w : x[i] # y[i]}
    <2>1. D \in SUBSET Nat
        OBVIOUS
    <2>a. \E i \in 1..w : x[i] # y[i]
        BY <1>3
    <2>b. D # {}
        BY <2>a
    <2> HIDE DEF D
    <2>2. PICK k \in D : \A i \in D : k =< i
        BY <2>1, <2>b, MinExists
    <2>3. k \in 1..w /\ x[k] # y[k]
        BY DEF D
    <2>4. \A i \in 1..(k - 1) : x[i] = y[i] /\ y[i] = x[i]
        BY <2>2, <2>3 DEF D
    <2>5. x[k] < y[k] \/ y[k] < x[k]
        BY <2>3
    <2>6. k \in DOMAIN x /\ k \in DOMAIN y
        BY <2>3
    <2>7. CASE x[k] < y[k]
        BY <2>4, <2>6, <2>7 DEF Less
    <2>8. CASE y[k] < x[k]
        BY <2>4, <2>6, <2>8 DEF Less
    <2> QED
        BY <2>5, <2>7, <2>8
<1> QED
    BY <1>1, <1>2, <1>3

\* f puts 1..n in the order of R.
Ordering(f, n, R) ==
    /\ f \in [1..n -> 1..n]
    /\ \A i \in 1..n : \E k \in 1..n : f[k] = i
    /\ \A j, k \in 1..n : j < k => <<f[j], f[k]>> \in R

\* One more is put where the first stands that goes behind it.
LEMMA OrderingInsert ==
    ASSUME NEW n \in Nat, NEW R, NEW f, Ordering(f, n, R),
           \A i, j, k \in 1..(n + 1) : <<i, j>> \in R /\ <<j, k>> \in R => <<i, k>> \in R,
           \A i, j \in 1..(n + 1) : i # j => <<i, j>> \in R \/ <<j, i>> \in R
    PROVE  \E g : Ordering(g, n + 1, R)
<1> DEFINE new == n + 1
           behind == {k \in 1..n : <<new, f[k]>> \in R} \cup {n + 1}
<1>1. behind # {} /\ behind \in SUBSET Nat
    OBVIOUS
<1>2. PICK p \in behind : \A k \in behind : p =< k
    <2> HIDE DEF behind
    <2> QED
        BY <1>1, MinExists
<1>3. p \in 1..new /\ (p =< n => <<new, f[p]>> \in R) /\ \A k \in 1..(p - 1) : k \in 1..n /\ <<new, f[k]>> \notin R
    BY <1>2
<1>4. new \in Nat /\ new = n + 1 /\ \A i : i \in 1..new <=> i \in 1..n \/ i = new
    OBVIOUS
<1>5. f \in [1..n -> 1..n]
    BY DEF Ordering
<1> DEFINE g == [k \in 1..new |-> IF k < p THEN f[k] ELSE IF k = p THEN new ELSE f[k - 1]]
<1>6. /\ \A k \in 1..new : k < p => k \in 1..n /\ g[k] = f[k]
      /\ g[p] = new
      /\ \A k \in 1..new : k > p => k - 1 \in 1..n /\ g[k] = f[k - 1]
      /\ DOMAIN g = 1..new /\ g = [k \in 1..new |-> g[k]]
    BY <1>3, <1>4
<1> HIDE DEF g, behind, new
<1>7. \A k \in 1..new : k < p \/ k = p \/ k > p
    BY <1>3, <1>4
<1>8. \A k \in 1..new : g[k] \in 1..new
    BY <1>4, <1>5, <1>6, <1>7
<1>9. g \in [1..new -> 1..new]
    BY <1>6, <1>8
<1>10. ASSUME NEW i \in 1..new PROVE \E k \in 1..new : g[k] = i
    <2>1. CASE i = new
        BY <1>3, <1>6, <2>1
    <2>2. CASE i # new
        <3>1. PICK k \in 1..n : f[k] = i
            BY <1>4, <2>2 DEF Ordering
        <3>2. CASE k < p
            BY <1>4, <1>6, <3>1, <3>2
        <3>3. CASE ~ (k < p)
            <4>1. k + 1 \in 1..new /\ k + 1 > p /\ (k + 1) - 1 = k
                BY <1>3, <1>4, <3>3
            <4> QED
                BY <1>6, <3>1, <4>1
        <3> QED
            BY <3>2, <3>3
    <2> QED
        BY <2>1, <2>2
<1>11. \A j, k \in 1..n : j < k => <<f[j], f[k]>> \in R
    BY DEF Ordering
<1>12. \A k \in 1..n : k < p => <<f[k], new>> \in R
    <2>1. ASSUME NEW k \in 1..n, k < p PROVE <<f[k], new>> \in R
        <3>1. k \in 1..(p - 1) /\ f[k] \in 1..n /\ f[k] # new
            BY <1>3, <1>4, <1>5, <2>1
        <3>2. <<new, f[k]>> \notin R
            BY <1>3, <3>1
        <3> QED
            BY <1>4, <3>1, <3>2
    <2> QED
        BY <2>1
<1>13. \A k \in 1..n : k >= p => <<new, f[k]>> \in R
    <2>1. ASSUME NEW k \in 1..n, k >= p PROVE <<new, f[k]>> \in R
        <3>1. p \in 1..n /\ <<new, f[p]>> \in R
            BY <1>3, <1>4, <2>1
        <3>2. CASE k = p
            BY <3>1, <3>2
        <3>3. CASE k # p
            <4>1. <<f[p], f[k]>> \in R
                BY <1>11, <2>1, <3>1, <3>3
            <4>2. f[p] \in 1..new /\ f[k] \in 1..new /\ new \in 1..new
                BY <1>4, <1>5, <3>1
            <4> QED
                BY <1>4, <3>1, <4>1, <4>2
        <3> QED
            BY <3>2, <3>3
    <2> QED
        BY <2>1
<1>14. ASSUME NEW j \in 1..new, NEW k \in 1..new, j < k PROVE <<g[j], g[k]>> \in R
    <2>1. CASE k < p
        <3>1. j < p /\ j \in 1..n /\ k \in 1..n /\ g[j] = f[j] /\ g[k] = f[k]
            BY <1>3, <1>4, <1>6, <1>14, <2>1
        <3> QED
            BY <1>11, <1>14, <3>1
    <2>2. CASE k = p
        BY <1>3, <1>4, <1>6, <1>12, <1>14, <2>2
    <2>3. CASE k > p /\ j < p
        <3>1. j \in 1..n /\ k - 1 \in 1..n /\ j < k - 1
            BY <1>3, <1>4, <1>6, <2>3
        <3> QED
            BY <1>6, <1>11, <2>3, <3>1
    <2>4. CASE k > p /\ j = p
        <3>1. k - 1 \in 1..n /\ k - 1 >= p
            BY <1>3, <1>4, <1>6, <2>4
        <3> QED
            BY <1>6, <1>13, <2>4, <3>1
    <2>5. CASE k > p /\ j > p
        <3>1. j - 1 \in 1..n /\ k - 1 \in 1..n /\ j - 1 < k - 1
            BY <1>4, <1>6, <1>14, <2>5
        <3> QED
            BY <1>6, <1>11, <2>5, <3>1
    <2> QED
        BY <1>7, <2>1, <2>2, <2>3, <2>4, <2>5
<1>15. Ordering(g, new, R)
    BY <1>9, <1>10, <1>14 DEF Ordering
<1> QED
    BY <1>15 DEF new

\* A strict total order of 1..n puts it in a sequence.
LEMMA OrderingExists ==
    ASSUME NEW n \in Nat, NEW R,
           \A i, j, k \in 1..n : <<i, j>> \in R /\ <<j, k>> \in R => <<i, k>> \in R,
           \A i, j \in 1..n : i # j => <<i, j>> \in R \/ <<j, i>> \in R
    PROVE  \E f : Ordering(f, n, R)
<1> DEFINE Reached == {m \in Nat : m =< n => \E f : Ordering(f, m, R)}
<1>1. 0 \in Reached
    <2>1. Ordering([k \in 1..0 |-> k], 0, R)
        BY DEF Ordering
    <2> QED
        BY <2>1
<1>2. ASSUME NEW m \in Reached PROVE m + 1 \in Reached
    <2>1. SUFFICES ASSUME m + 1 =< n PROVE \E f : Ordering(f, m + 1, R)
        OBVIOUS
    <2>2. m \in Nat /\ 1..(m + 1) \subseteq 1..n
        BY <2>1
    <2>3. PICK f : Ordering(f, m, R)
        BY <2>1
    <2> HIDE DEF Reached
    <2>4. /\ \A i, j, k \in 1..(m + 1) : <<i, j>> \in R /\ <<j, k>> \in R => <<i, k>> \in R
          /\ \A i, j \in 1..(m + 1) : i # j => <<i, j>> \in R \/ <<j, i>> \in R
        BY <2>2
    <2> QED
        BY <2>2, <2>3, <2>4, OrderingInsert
<1>3. Reached \in SUBSET Nat
    OBVIOUS
<1> HIDE DEF Reached
<1>4. n \in Reached
    BY <1>1, <1>2, <1>3, AllNumbers
<1> QED
    BY <1>4 DEF Reached

\* f puts the positions in the order of the keys, each once.
Orders(f, n, keys) ==
  /\ f \in [1..n -> 1..n]
  /\ \A i \in 1..n : \E k \in 1..n : f[k] = i
  /\ \A j, k \in 1..n : f[j] = f[k] => j = k
  /\ \A j, k \in 1..n : j < k => Precedes(keys, f[j], f[k])

\* A stable sort puts the positions in the order of the keys, each once.
LEMMA SortedIs ==
    ASSUME NEW n \in Nat, NEW w \in Nat, NEW keys, DOMAIN keys = 1..n,
           \A i \in 1..n : keys[i] \in [1..w -> Int]
    PROVE  Orders(Sorted(keys), n, keys)
<1> DEFINE Pre(i, j) == Precedes(keys, i, j)
           R == {q \in (1..n) \X (1..n) : Pre(q[1], q[2])}
           Before(i) == {j \in 1..n : Pre(j, i)}
<1>1. ASSUME NEW i \in 1..n, NEW j \in 1..n, NEW k \in 1..n
      PROVE  /\ ~ Pre(i, i)
             /\ Pre(i, j) /\ Pre(j, k) => Pre(i, k)
             /\ i # j => Pre(i, j) \/ Pre(j, i)
    <2> DEFINE x == keys[i]
               y == keys[j]
               z == keys[k]
    <2>1. x \in [1..w -> Int] /\ y \in [1..w -> Int] /\ z \in [1..w -> Int]
        OBVIOUS
    <2>2. Pre(i, i) <=> Less(x, x)
        BY DEF Precedes
    <2>3. /\ Pre(i, j) <=> Less(x, y) \/ (x = y /\ i < j)
          /\ Pre(j, i) <=> Less(y, x) \/ (x = y /\ j < i)
          /\ Pre(j, k) <=> Less(y, z) \/ (y = z /\ j < k)
          /\ Pre(i, k) <=> Less(x, z) \/ (x = z /\ i < k)
        BY DEF Precedes
    <2> HIDE DEF x, y, z, Pre
    <2>4. /\ ~ Less(x, x)
          /\ Less(x, y) /\ Less(y, z) => Less(x, z)
          /\ x # y => Less(x, y) \/ Less(y, x)
        BY <2>1, LessIsOrder
    <2>5. i \in Int /\ j \in Int /\ k \in Int
        OBVIOUS
    <2> QED
        BY <2>2, <2>3, <2>4, <2>5
<1>2. \A i, j \in 1..n : <<i, j>> \in R <=> Pre(i, j)
    OBVIOUS
<1> HIDE DEF Pre, R
<1>3. PICK f : Ordering(f, n, R)
    BY <1>1, <1>2, OrderingExists
<1>4. f \in [1..n -> 1..n] /\ (\A i \in 1..n : \E k \in 1..n : f[k] = i)
    BY <1>3 DEF Ordering
<1>5. \A j, k \in 1..n : j < k => Pre(f[j], f[k])
    BY <1>2, <1>3, <1>4 DEF Ordering
<1>6. \A j, k \in 1..n : Pre(f[j], f[k]) <=> j < k
    <2>1. ASSUME NEW j \in 1..n, NEW k \in 1..n, Pre(f[j], f[k]), ~ (j < k) PROVE FALSE
        <3>1. f[j] \in 1..n /\ f[k] \in 1..n /\ (j = k \/ k < j)
            BY <1>4, <2>1
        <3> QED
            BY <1>1, <1>5, <2>1, <3>1
    <2> QED
        BY <1>5, <2>1
<1>7. \A j, k \in 1..n : f[j] = f[k] => j = k
    <2>1. ASSUME NEW j \in 1..n, NEW k \in 1..n, f[j] = f[k], j # k PROVE FALSE
        <3>1. j < k \/ k < j
            BY <2>1
        <3>2. f[j] \in 1..n
            BY <1>4
        <3> QED
            BY <1>1, <1>5, <2>1, <3>1, <3>2
    <2> QED
        BY <2>1
<1>8. ASSUME NEW k \in 1..n PROVE Cardinality(Before(f[k])) = k - 1
    <2> DEFINE m == k - 1
               T == Before(f[k])
               g == [j \in 1..m |-> f[j]]
    <2>1. m \in Nat /\ \A j : j \in 1..m <=> j \in 1..n /\ j < k
        OBVIOUS
    <2>2. \A i : i \in T <=> \E j \in 1..m : f[j] = i
        <3>1. ASSUME NEW i \in T PROVE \E j \in 1..m : f[j] = i
            BY <1>4, <1>6, <2>1
        <3>2. ASSUME NEW j \in 1..m PROVE f[j] \in T
            BY <1>4, <1>6, <2>1
        <3> QED
            BY <3>1, <3>2
    <2> HIDE DEF T, m
    <2>3. g \in [1..m -> T]
        BY <2>2
    <2>6. IsInjective(g)
        <3>1. \A a, b \in 1..m : g[a] = g[b] => a = b
            BY <1>7, <2>1
        <3> QED
            BY <3>1 DEF IsInjective
    <2>7. \A t \in T : \E j \in 1..m : g[j] = t
        BY <2>2
    <2> HIDE DEF g
    <2>4. g \in Bijection(1..m, T)
        BY <2>3, <2>6, <2>7 DEF Bijection, Injection, Surjection
    <2>5. ExistsBijection(1..m, T)
        BY <2>4 DEF ExistsBijection
    <2> QED
        BY <2>1, <2>5, FS_CountingElements DEF T, m
<1>9. Sorted(keys) = f
    <2> DEFINE At(k, i) == Cardinality(Before(i)) = k - 1
    <2>1. Sorted(keys) = [k \in 1..n |-> CHOOSE i \in 1..n : At(k, i)]
        BY DEF Sorted, Pre
    <2>2. ASSUME NEW k \in 1..n, NEW i \in 1..n PROVE At(k, i) <=> i = f[k]
        <3>1. PICK j \in 1..n : f[j] = i
            BY <1>4
        <3>2. Cardinality(Before(i)) = j - 1
            BY <1>8, <3>1
        <3> QED
            BY <1>7, <3>1, <3>2
    <2> HIDE DEF At
    <2>3. ASSUME NEW k \in 1..n PROVE (CHOOSE i \in 1..n : At(k, i)) = f[k]
        <3>1. f[k] \in 1..n /\ At(k, f[k])
            BY <1>4, <2>2
        <3> QED
            BY <2>2, <3>1
    <2> QED
        BY <1>4, <2>1, <2>3
<1> QED
    BY <1>4, <1>5, <1>7, <1>9 DEF Pre, Orders

\* The lesser and the greater of two numbers.
LEMMA OfTwo ==
    ASSUME NEW x \in Int, NEW y \in Int
    PROVE  /\ Min({x, y}) = IF x =< y THEN x ELSE y
           /\ Max({x, y}) = IF x >= y THEN x ELSE y
           /\ Min({x, y}) \in Int /\ Max({x, y}) \in Int
<1>1. \A z : z \in {x, y} <=> z = x \/ z = y
    OBVIOUS
<1>2. Min({x, y}) = IF x =< y THEN x ELSE y
    <2> DEFINE Least(z) == \A v \in {x, y} : z =< v
               least == IF x =< y THEN x ELSE y
    <2>1. least \in {x, y} /\ Least(least)
        OBVIOUS
    <2>2. \A z \in {x, y} : Least(z) => z = least
        OBVIOUS
    <2>3. Min({x, y}) = CHOOSE z \in {x, y} : Least(z)
        BY DEF Min
    <2> HIDE DEF Least, least
    <2>4. Min({x, y}) = least
        BY <2>1, <2>2, <2>3
    <2> QED
        BY <2>4 DEF least
<1>3. Max({x, y}) = IF x >= y THEN x ELSE y
    <2> DEFINE Greatest(z) == \A v \in {x, y} : z >= v
               greatest == IF x >= y THEN x ELSE y
    <2>1. greatest \in {x, y} /\ Greatest(greatest)
        OBVIOUS
    <2>2. \A z \in {x, y} : Greatest(z) => z = greatest
        OBVIOUS
    <2>3. Max({x, y}) = CHOOSE z \in {x, y} : Greatest(z)
        BY DEF Max
    <2> HIDE DEF Greatest, greatest
    <2>4. Max({x, y}) = greatest
        BY <2>1, <2>2, <2>3
    <2> QED
        BY <2>4 DEF greatest
<1> QED
    BY <1>2, <1>3

-----------------------------------------------------------------------------
(* The chunks of a text.                                                   *)

\* From which character to which a piece of the text reaches.
Spans == [from : Int, to : Int]

\* The chunks hold every character from..to, each goes further than the
\* one before it.
Covers(cs, from, to) ==
  /\ cs \in Seq(Spans) /\ Len(cs) > 0
  /\ cs[1].from = from /\ cs[Len(cs)].to = to
  /\ \A k \in 1..Len(cs) : cs[k].from =< cs[k].to
  /\ \A k \in 1..(Len(cs) - 1) :
       cs[k].from =< cs[k + 1].from /\ cs[k].to < cs[k + 1].to /\ cs[k + 1].from =< cs[k].to + 1
\* No chunk is longer than the size.
Sized(cs, size) == \A k \in 1..Len(cs) : Size(cs[k]) =< size

\* The entries of two sequences, one after the other.
LEMMA Joined ==
    ASSUME NEW T, NEW s \in Seq(T), NEW t \in Seq(T)
    PROVE  /\ s \o t \in Seq(T) /\ Len(s \o t) = Len(s) + Len(t)
           /\ \A k \in 1..Len(s) : (s \o t)[k] = s[k]
           /\ \A k \in 1..Len(t) : (s \o t)[Len(s) + k] = t[k]
OBVIOUS

\* A text that goes on where the chunks before it end is covered with them.
LEMMA CoversOn ==
    ASSUME NEW s, NEW t, NEW from \in Int, NEW to \in Int, NEW next \in Int, NEW end \in Int,
           Covers(s, from, to), Covers(t, next, end),
           s[Len(s)].from =< next, next =< to + 1, to < t[1].to
    PROVE  Covers(s \o t, from, end)
<1> DEFINE u == s \o t
           m == Len(s)
           n == Len(t)
<1>1. s \in Seq(Spans) /\ t \in Seq(Spans) /\ m \in Nat /\ n \in Nat /\ m > 0 /\ n > 0
    BY DEF Covers
<1>2. /\ u \in Seq(Spans) /\ Len(u) = m + n
      /\ \A k \in 1..m : u[k] = s[k]
      /\ \A k \in 1..n : u[m + k] = t[k]
    BY <1>1, Joined
<1>3. /\ s[1].from = from /\ s[m].to = to /\ t[1].from = next /\ t[n].to = end
      /\ \A k \in 1..m : s[k].from =< s[k].to
      /\ \A k \in 1..n : t[k].from =< t[k].to
      /\ \A k \in 1..(m - 1) :
           s[k].from =< s[k + 1].from /\ s[k].to < s[k + 1].to /\ s[k + 1].from =< s[k].to + 1
      /\ \A k \in 1..(n - 1) :
           t[k].from =< t[k + 1].from /\ t[k].to < t[k + 1].to /\ t[k + 1].from =< t[k].to + 1
    BY DEF Covers
<1>4. s[m].from =< next /\ next =< to + 1 /\ to < t[1].to
    OBVIOUS
<1> HIDE DEF u, m, n
<1>5. u[1].from = from /\ u[m + n].to = end
    <2>1. u[1] = s[1] /\ u[m + n] = t[n]
        BY <1>1, <1>2
    <2> QED
        BY <1>3, <2>1
<1>6. ASSUME NEW k \in 1..(m + n) PROVE u[k].from =< u[k].to
    <2>1. CASE k =< m
        <3>1. k \in 1..m
            BY <1>1, <2>1
        <3> QED
            BY <1>2, <1>3, <3>1
    <2>2. CASE k > m
        <3>1. k - m \in 1..n /\ u[k] = t[k - m]
            <4>1. k - m \in 1..n /\ m + (k - m) = k
                BY <1>1, <2>2
            <4> QED
                BY <1>2, <4>1
        <3> QED
            BY <1>3, <3>1
    <2> QED
        BY <1>1, <2>1, <2>2
<1>7. ASSUME NEW k \in 1..(m + n - 1)
      PROVE  u[k].from =< u[k + 1].from /\ u[k].to < u[k + 1].to /\ u[k + 1].from =< u[k].to + 1
    <2>1. CASE k < m
        <3>1. k \in 1..(m - 1) /\ k \in 1..m /\ k + 1 \in 1..m
            BY <1>1, <2>1
        <3>2. u[k] = s[k] /\ u[k + 1] = s[k + 1]
            BY <1>2, <3>1
        <3> QED
            BY <1>3, <3>1, <3>2
    <2>2. CASE k = m
        <3>1. k \in 1..m /\ 1 \in 1..n
            BY <1>1, <2>2
        <3>2. u[k] = s[m] /\ u[k + 1] = t[1]
            BY <1>2, <2>2, <3>1
        <3> QED
            BY <1>3, <1>4, <3>2
    <2>3. CASE k > m
        <3>1. k - m \in 1..(n - 1) /\ k - m \in 1..n /\ (k - m) + 1 \in 1..n
            BY <1>1, <2>3
        <3>2. m + (k - m) = k /\ m + ((k - m) + 1) = k + 1
            BY <1>1
        <3>3. u[k] = t[k - m] /\ u[k + 1] = t[(k - m) + 1]
            BY <1>2, <3>1, <3>2
        <3> QED
            BY <1>3, <3>1, <3>3
    <2> QED
        BY <1>1, <2>1, <2>2, <2>3
<1> QED
    BY <1>1, <1>2, <1>5, <1>6, <1>7 DEF Covers, u

\* One span covers itself.
LEMMA CoversOne ==
    ASSUME NEW c \in Spans, c.from =< c.to
    PROVE  Covers(<<c>>, c.from, c.to)
<1>1. <<c>> \in Seq(Spans) /\ Len(<<c>>) = 1 /\ <<c>>[1] = c
    OBVIOUS
<1> QED
    BY <1>1 DEF Covers

\* The last chunk may be longer.
LEMMA CoversLonger ==
    ASSUME NEW s \in Seq(Spans), NEW o \in Spans, NEW c \in Spans,
           NEW from \in Int, NEW to \in Int,
           Covers(s \o <<o>>, from, to), c.from = o.from, c.to >= o.to
    PROVE  Covers(s \o <<c>>, from, c.to)
<1> DEFINE u == s \o <<o>>
           v == s \o <<c>>
           n == Len(s) + 1
<1>1. n \in Nat /\ n > 0
    OBVIOUS
<1>2. /\ Len(u) = n /\ u[n] = o
      /\ v \in Seq(Spans) /\ Len(v) = n /\ v[n] = c
      /\ \A k \in 1..(n - 1) : v[k] = u[k]
    OBVIOUS
<1>3. /\ u[1].from = from
      /\ \A k \in 1..n : u[k].from =< u[k].to
      /\ \A k \in 1..(n - 1) :
           u[k].from =< u[k + 1].from /\ u[k].to < u[k + 1].to /\ u[k + 1].from =< u[k].to + 1
    BY <1>2 DEF Covers
<1> HIDE DEF u, v, n
<1>4. c.from \in Int /\ c.to \in Int /\ o.from \in Int /\ o.to \in Int
    BY DEF Spans
<1>5. ASSUME NEW k \in 1..n PROVE v[k].from = u[k].from /\ v[k].to >= u[k].to /\ (k < n => v[k] = u[k])
    <2>1. CASE k = n
        BY <1>1, <1>2, <1>4, <2>1
    <2>2. CASE k # n
        <3>1. k \in 1..(n - 1)
            BY <1>1, <2>2
        <3>2. v[k] = u[k] /\ v[k] \in Spans
            BY <1>1, <1>2, <3>1
        <3> QED
            BY <3>2 DEF Spans
    <2> QED
        BY <2>1, <2>2
<1>6. \A k \in 1..n : v[k].from \in Int /\ v[k].to \in Int
    <2>1. \A k \in 1..n : v[k] \in Spans
        BY <1>1, <1>2
    <2> QED
        BY <2>1 DEF Spans
<1>7. \A k \in 1..n : u[k].from \in Int /\ u[k].to \in Int
    <2>1. ASSUME NEW k \in 1..n PROVE u[k].from \in Int /\ u[k].to \in Int
        <3>1. CASE k = n
            BY <1>2, <1>4, <3>1
        <3>2. CASE k # n
            BY <1>1, <1>5, <1>6, <3>2
        <3> QED
            BY <3>1, <3>2
    <2> QED
        BY <2>1
<1>8. \A k \in 1..n : v[k].from =< v[k].to
    BY <1>3, <1>5, <1>6, <1>7
<1>9. ASSUME NEW k \in 1..(n - 1)
      PROVE  v[k].from =< v[k + 1].from /\ v[k].to < v[k + 1].to /\ v[k + 1].from =< v[k].to + 1
    <2>1. k \in 1..n /\ k + 1 \in 1..n /\ k < n
        BY <1>1
    <2>2. v[k] = u[k] /\ v[k + 1].from = u[k + 1].from /\ v[k + 1].to >= u[k + 1].to
        BY <1>5, <2>1
    <2>3. u[k].from =< u[k + 1].from /\ u[k].to < u[k + 1].to /\ u[k + 1].from =< u[k].to + 1
        BY <1>3
    <2> DEFINE a == u[k]
               d == u[k + 1]
               e == v[k + 1]
    <2>4. /\ a.from \in Int /\ a.to \in Int /\ d.from \in Int /\ d.to \in Int
          /\ e.from \in Int /\ e.to \in Int
        BY <1>6, <1>7, <2>1
    <2>5. a.from =< e.from /\ a.to < e.to /\ e.from =< a.to + 1
        <3>1. e.from = d.from /\ e.to >= d.to /\ a.from =< d.from /\ a.to < d.to /\ d.from =< a.to + 1
            BY <2>2, <2>3
        <3> HIDE DEF a, d, e
        <3> QED
            BY <2>4, <3>1
    <2> QED
        BY <2>2, <2>5
<1>10. v[1].from = from
    BY <1>1, <1>3, <1>5
<1> QED
    BY <1>1, <1>2, <1>8, <1>9, <1>10 DEF Covers, v

\* A piece is part of the text and not longer than a chunk; the next one
\* goes on before or where it ends.
LEMMA PieceIs ==
    ASSUME NEW start \in Int, NEW to \in Int, start =< to
    PROVE  /\ Piece(start, to) \in Spans /\ Piece(start, to).from = start
           /\ start =< Piece(start, to).to /\ Piece(start, to).to =< to
           /\ Piece(start, to).to = to \/ Piece(start, to).to = start + ChunkChars - 1
           /\ Size(Piece(start, to)) =< ChunkChars
<1>1. ChunkChars \in Nat \ {0}
    BY RetrievalAssumption
<1> DEFINE end == start + ChunkChars - 1
           m == Min({to, end})
<1>2. m = IF to =< end THEN to ELSE end
    BY <1>1, OfTwo
<1> HIDE DEF m
<1>3. m \in Int /\ Piece(start, to) = [from |-> start, to |-> m]
    BY <1>1, <1>2 DEF Piece, m
<1> QED
    BY <1>1, <1>2, <1>3 DEF Spans, Size

\* The piece after one starts within it and goes further.
LEMMA PieceAfterIs ==
    ASSUME NEW to \in Int, NEW p \in Spans, p.from =< to, p = Piece(p.from, to), p.to # to
    PROVE  LET q == PieceAfter(p, to) IN
           /\ q \in Spans /\ q = Piece(q.from, to) /\ q.from =< q.to /\ q.to =< to
           /\ p.from + 1 =< q.from /\ q.from =< p.to + 1 /\ p.to < q.to
           /\ Size(q) =< ChunkChars
<1>1. ChunkChars \in Nat \ {0} /\ OverlapChars \in Nat
    BY RetrievalAssumption
<1>2. p.from \in Int /\ p.to \in Int
    BY DEF Spans
<1>3. p.from =< p.to /\ p.to =< to /\ p.to = p.from + ChunkChars - 1
    BY <1>1, <1>2, PieceIs
<1> DEFINE one == p.to + 1 - OverlapChars
           two == p.from + 1
           start == Max({one, two})
<1>4. start = IF one >= two THEN one ELSE two
    <2>1. one \in Int /\ two \in Int
        BY <1>1, <1>2
    <2> HIDE DEF one, two
    <2> QED
        BY <2>1, OfTwo
<1> HIDE DEF start
<1>5. start \in Int /\ p.from + 1 =< start /\ start =< p.to + 1 /\ start =< to
    BY <1>1, <1>2, <1>3, <1>4
<1> DEFINE q == Piece(start, to)
<1>6. /\ q \in Spans /\ q.from = start /\ start =< q.to /\ q.to =< to
      /\ q.to = to \/ q.to = start + ChunkChars - 1
      /\ Size(q) =< ChunkChars
    BY <1>5, PieceIs
<1>7. PieceAfter(p, to) = q
    BY DEF PieceAfter, start
<1>8. q = Piece(q.from, to)
    BY <1>6
<1> HIDE DEF q
<1>9. q.to \in Int
    BY <1>6 DEF Spans
<1>10. p.to < q.to
    BY <1>1, <1>2, <1>3, <1>5, <1>6, <1>9
<1> QED
    BY <1>5, <1>6, <1>7, <1>8, <1>10

\* The pieces as they are made, one after the other.
LEMMA PiecesStep ==
    ASSUME NEW from \in Int, NEW to \in Int, from =< to
    PROVE  LET f == PiecesUpTo(from, to)
               X == {s \in Seq(Spans) : Len(s) > 0} IN
           /\ f \in [0..(to - from) -> X]
           /\ f[0] = <<Piece(from, to)>>
           /\ \A k \in 1..(to - from) :
                f[k] = IF Last(f[k - 1]).to = to THEN f[k - 1]
                       ELSE Append(f[k - 1], PieceAfter(Last(f[k - 1]), to))
<1> DEFINE N == to - from
           X == {s \in Seq(Spans) : Len(s) > 0}
           More(x) == IF Last(x).to = to THEN x ELSE Append(x, PieceAfter(Last(x), to))
           first == <<Piece(from, to)>>
           u == PiecesUpTo(from, to)
           Is(f) == f = [k \in 0..N |-> IF k = 0 THEN first ELSE More(f[k - 1])]
           step == [q \in (1..N) \X X |-> More(q[2])]
<1>1. N \in Nat /\ first \in X
    <2>1. Piece(from, to) \in Spans
        BY PieceIs
    <2> QED
        BY <2>1
<1>2. ASSUME NEW x \in X PROVE More(x) \in X
    <2>1. x \in Seq(Spans) /\ Len(x) \in Nat /\ Last(x) \in Spans
        BY DEF Last
    <2>2. PieceAfter(Last(x), to) \in Spans
        <3> DEFINE p == Last(x)
                   one == p.to + 1 - OverlapChars
                   two == p.from + 1
                   start == Max({one, two})
                   end == Min({to, start + ChunkChars - 1})
        <3>1. p.from \in Int /\ p.to \in Int /\ ChunkChars \in Nat /\ OverlapChars \in Nat
            BY <2>1, RetrievalAssumption DEF Spans
        <3>2. start \in Int
            <4>1. one \in Int /\ two \in Int
                BY <3>1
            <4> HIDE DEF one, two
            <4> QED
                BY <4>1, OfTwo
        <3> HIDE DEF start
        <3>3. end \in Int
            BY <3>1, <3>2, OfTwo
        <3>4. PieceAfter(p, to) = [from |-> start, to |-> end]
            BY DEF PieceAfter, Piece, start
        <3> QED
            BY <3>2, <3>3, <3>4 DEF Spans
    <2> QED
        BY <2>1, <2>2
<1>3. step \in [(1..N) \X X -> X] /\ \A k \in 1..N, x \in X : step[<<k, x>>] = More(x)
    BY <1>2
<1>4. u = CHOOSE f : Is(f)
    BY DEF PiecesUpTo
<1> HIDE DEF X, step, More, first
<1>5. PICK f : Solves(f, X, first, N, step)
    <2> HIDE DEF N
    <2> QED
        BY <1>1, <1>3, RecursionExists
<1>6. f \in [0..N -> X] /\ \A k \in 0..N : f[k] = IF k = 0 THEN first ELSE step[<<k, f[k - 1]>>]
    BY <1>5 DEF Solves
<1>7. ASSUME NEW k \in 0..N PROVE f[k] = IF k = 0 THEN first ELSE More(f[k - 1])
    <2>1. CASE k = 0
        BY <1>6, <2>1
    <2>2. CASE k # 0
        <3>1. k \in 1..N /\ k - 1 \in 0..N
            BY <2>2
        <3>2. f[k - 1] \in X
            BY <1>6, <3>1
        <3> QED
            BY <1>3, <1>6, <2>2, <3>1, <3>2
    <2> QED
        BY <2>1, <2>2
<1>8. Is(f)
    BY <1>6, <1>7
<1>9. Is(u)
    <2> HIDE DEF Is
    <2> QED
        BY <1>4, <1>8
<1> DEFINE Typed == {k \in Nat : k =< N => u[k] \in X}
<1>10. \A k \in 0..N : u[k] = IF k = 0 THEN first ELSE More(u[k - 1])
    BY <1>9
<1> HIDE DEF u, Is
<1>11. 0 \in Typed /\ Typed \in SUBSET Nat
    BY <1>1, <1>10
<1>12. ASSUME NEW k \in Typed PROVE k + 1 \in Typed
    <2>1. SUFFICES ASSUME k + 1 =< N PROVE u[k + 1] \in X
        OBVIOUS
    <2>2. k + 1 \in 0..N /\ k + 1 # 0 /\ (k + 1) - 1 = k /\ k =< N
        BY <2>1
    <2>3. u[k + 1] = More(u[k])
        BY <1>10, <2>2
    <2>4. u[k] \in X
        BY <2>2
    <2> QED
        BY <1>2, <2>3, <2>4
<1>13. \A k \in Nat : k \in Typed
    <2> HIDE DEF Typed
    <2> QED
        BY <1>11, <1>12, AllNumbers
<1>14. \A k \in 0..N : u[k] \in X
    BY <1>13
<1>15. u \in [0..N -> X]
    <2>1. u = [k \in 0..N |-> u[k]]
        BY <1>9 DEF Is
    <2> QED
        BY <1>14, <2>1
<1>16. \A k \in 1..N : u[k] = More(u[k - 1])
    BY <1>10
<1>17. u[0] = first
    BY <1>1, <1>10
<1> QED
    BY <1>15, <1>16, <1>17 DEF u, X, More, first

\* A long text is cut into pieces that cover it.
LEMMA SplitCovers ==
    ASSUME NEW from \in Int, NEW to \in Int, from =< to
    PROVE  LET s == SplitByChars(from, to) IN
           Covers(s, from, to) /\ Sized(s, ChunkChars)
<1> DEFINE N == to - from
           u == PiecesUpTo(from, to)
           Done(s, n) ==
             LET last == s[Len(s)] IN
             /\ Covers(s, from, last.to) /\ Sized(s, ChunkChars)
             /\ last \in Spans /\ last = Piece(last.from, to)
             /\ last.from =< to /\ from =< last.from
             /\ last.to = to \/ last.from >= from + n
           Reached == {n \in Nat : n =< N => Done(u[n], n)}
<1>1. /\ u \in [0..N -> {s \in Seq(Spans) : Len(s) > 0}]
      /\ u[0] = <<Piece(from, to)>>
      /\ \A k \in 1..N : u[k] = IF Last(u[k - 1]).to = to THEN u[k - 1]
                                ELSE Append(u[k - 1], PieceAfter(Last(u[k - 1]), to))
    BY PiecesStep
<1>2. N \in Nat
    OBVIOUS
<1> HIDE DEF u
<1>3. Done(u[0], 0)
    <2> DEFINE p == Piece(from, to)
    <2>1. p \in Spans /\ p.from = from /\ from =< p.to /\ Size(p) =< ChunkChars
        BY PieceIs
    <2>2. Covers(<<p>>, from, p.to)
        BY <2>1, CoversOne
    <2>3. Len(<<p>>) = 1 /\ <<p>>[1] = p
        OBVIOUS
    <2>4. Sized(<<p>>, ChunkChars)
        BY <2>1, <2>3 DEF Sized
    <2>5. p = Piece(p.from, to)
        BY <2>1
    <2> HIDE DEF p
    <2> QED
        BY <1>1, <2>1, <2>2, <2>3, <2>4, <2>5 DEF p
<1>4. 0 \in Reached /\ Reached \in SUBSET Nat
    BY <1>3
<1>5. ASSUME NEW n \in Reached PROVE n + 1 \in Reached
    <2> SUFFICES ASSUME n + 1 =< N PROVE Done(u[n + 1], n + 1)
        OBVIOUS
    <2> DEFINE s == u[n]
               p == s[Len(s)]
               q == PieceAfter(p, to)
    <2>1. n \in 0..N /\ n + 1 \in 1..N /\ (n + 1) - 1 = n /\ n \in Nat
        BY <1>2
    <2>2. Done(s, n) /\ s \in Seq(Spans) /\ Len(s) \in Nat /\ Len(s) > 0
        BY <1>1, <2>1
    <2>3. u[n + 1] = IF p.to = to THEN s ELSE Append(s, q)
        BY <1>1, <2>1 DEF Last
    <2>4. /\ Covers(s, from, p.to) /\ Sized(s, ChunkChars)
          /\ p \in Spans /\ p = Piece(p.from, to)
          /\ p.from =< to /\ from =< p.from
          /\ p.to = to \/ p.from >= from + n
        BY <2>2
    <2>5. p.from \in Int /\ p.to \in Int
        BY <2>4 DEF Spans
    <2> HIDE DEF p
    <2>6. CASE p.to = to
        <3>1. u[n + 1] = s
            BY <2>3, <2>6
        <3> QED
            BY <2>4, <2>6, <3>1 DEF p
    <2>7. CASE p.to # to
        <3>1. /\ q \in Spans /\ q = Piece(q.from, to) /\ q.from =< q.to /\ q.to =< to
              /\ p.from + 1 =< q.from /\ q.from =< p.to + 1 /\ p.to < q.to
              /\ Size(q) =< ChunkChars
            BY <2>4, <2>7, PieceAfterIs
        <3> HIDE DEF q
        <3>2. q.from \in Int /\ q.to \in Int
            BY <3>1 DEF Spans
        <3>3. Covers(<<q>>, q.from, q.to)
            BY <3>1, CoversOne
        <3> DEFINE t == s \o <<q>>
        <3>4. <<q>>[1] = q /\ s[Len(s)].from =< q.from /\ p.to < <<q>>[1].to
            BY <2>5, <3>1, <3>2 DEF p
        <3>5. Covers(t, from, q.to)
            BY <2>4, <2>5, <3>1, <3>2, <3>3, <3>4, CoversOn
        <3>6. /\ t = Append(s, q) /\ Len(t) = Len(s) + 1 /\ t[Len(s) + 1] = q
              /\ \A k \in 1..Len(s) : t[k] = s[k]
            BY <2>2, <3>1
        <3> HIDE DEF t, s
        <3>7. Sized(t, ChunkChars)
            BY <2>2, <2>4, <3>1, <3>6 DEF Sized
        <3>8. u[n + 1] = t /\ t[Len(t)] = q
            BY <2>3, <2>7, <3>6
        <3>9. q.from >= from + (n + 1) /\ q.from =< to /\ from =< q.from
            BY <2>1, <2>4, <2>5, <2>7, <3>1, <3>2
        <3> QED
            BY <3>1, <3>5, <3>7, <3>8, <3>9
    <2> QED
        BY <2>6, <2>7
<1>6. N \in Reached
    <2> HIDE DEF Reached, N
    <2> QED
        BY <1>2, <1>4, <1>5, AllNumbers
<1> DEFINE s == u[N]
           last == s[Len(s)]
<1>7. Done(s, N)
    BY <1>2, <1>6
<1>8. last.from \in Int /\ last.to \in Int
    BY <1>7 DEF Spans
<1>9. last.from =< last.to /\ last.to =< to
    <2>1. last = Piece(last.from, to) /\ last.from =< to
        BY <1>7
    <2> HIDE DEF last
    <2> QED
        BY <1>8, <2>1, PieceIs
<1>10. last.to = to
    BY <1>7, <1>8, <1>9
<1>11. SplitByChars(from, to) = s
    BY DEF SplitByChars, u
<1> QED
    BY <1>7, <1>10, <1>11

\* The chunks so far, of which the last may still be open.
Texts == {s \in [chunks : Seq(Spans), open : Seq(Spans)] : Len(s.open) =< 1}

\* A list of at most one item that is not empty.
LEMMA AtMostOne ==
    ASSUME NEW T, NEW o \in Seq(T), Len(o) =< 1, o # <<>>
    PROVE  Len(o) = 1 /\ o[1] \in T /\ o = <<o[1]>>
<1>1. Len(o) \in Nat /\ (Len(o) = 0 <=> o = <<>>)
    BY LenProperties, EmptySeq
<1>2. Len(o) = 1
    BY <1>1
<1>3. o[1] \in T
    BY <1>2
<1> QED
    BY <1>2, <1>3

\* One entry put behind a sequence.
LEMMA JoinedOne ==
    ASSUME NEW T, NEW c \in Seq(T), NEW o \in Seq(T), NEW n, n = Len(o), n = 1
    PROVE  Len(c \o o) = Len(c) + 1 /\ (c \o o)[Len(c) + 1] = o[1]
<1>1. Len(c) \in Nat
    OBVIOUS
<1>2. /\ Len(c \o o) = Len(c) + Len(o)
      /\ \A i \in 1..(Len(c) + Len(o)) : (c \o o)[i] = IF i =< Len(c) THEN c[i] ELSE o[i - Len(c)]
    BY ConcatProperties
<1> DEFINE m == Len(c)
           u == c \o o
<1>3. Len(u) = m + n /\ \A i \in 1..(m + n) : u[i] = IF i =< m THEN c[i] ELSE o[i - m]
    BY <1>2
<1>4. m \in Nat
    BY <1>1
<1> HIDE DEF m, u
<1>5. m + 1 \in 1..(m + n) /\ ~ (m + 1 =< m) /\ (m + 1) - m = 1
    BY <1>4
<1>6. u[m + 1] = o[1]
    BY <1>3, <1>5
<1>7. Len(u) = m + 1
    BY <1>3
<1> QED
    BY <1>6, <1>7 DEF m, u

\* What is cut so far is the closed chunks and then the open one.
LEMMA FlushedIs ==
    ASSUME NEW s \in Texts
    PROVE  /\ s.chunks \in Seq(Spans) /\ s.open \in Seq(Spans)
           /\ Flushed(s) \in Seq(Spans)
           /\ s.open = <<>> => Flushed(s) = s.chunks
           /\ s.open # <<>> => s.open[1] \in Spans /\ s.open = <<s.open[1]>>
                               /\ Len(Flushed(s)) = Len(s.chunks) + 1
                               /\ Flushed(s)[Len(Flushed(s))] = s.open[1]
<1>1. s.chunks \in Seq(Spans) /\ s.open \in Seq(Spans) /\ Len(s.open) =< 1
    BY DEF Texts
<1> DEFINE c == s.chunks
           o == s.open
<1>2. c \in Seq(Spans) /\ o \in Seq(Spans) /\ Len(o) =< 1
    BY <1>1
<1> HIDE DEF c, o
<1>3. c \o o \in Seq(Spans) /\ (o = <<>> => c \o o = c)
    BY <1>2
<1>4. ASSUME o # <<>>
      PROVE  /\ o[1] \in Spans /\ o = <<o[1]>>
             /\ Len(c \o o) = Len(c) + 1 /\ (c \o o)[Len(c) + 1] = o[1]
    <2>1. Len(o) = 1 /\ o[1] \in Spans /\ o = <<o[1]>>
        BY <1>2, <1>4, AtMostOne
    <2>3. Len(c \o o) = Len(c) + 1 /\ (c \o o)[Len(c) + 1] = o[1]
        BY <1>2, <2>1, JoinedOne
    <2> QED
        BY <2>1, <2>3
<1> QED
    BY <1>2, <1>3, <1>4 DEF Flushed, c, o

\* What a paragraph makes of the chunks, case by case.
LEMMA ParagraphIs ==
    ASSUME NEW s \in Texts, NEW p \in Spans, NEW length \in Nat, p.from =< p.to
    PROVE  LET r == WithParagraph(s, p, length)
               o == s.open[1] IN
           \/ r.chunks = Flushed(s) \o SplitByChars(p.from, p.to) /\ r.open = <<>>
           \/ s.open = <<>> /\ Size(p) =< ChunkChars /\ r.chunks = s.chunks /\ r.open = <<p>>
           \/ /\ s.open # <<>> /\ Size([from |-> o.from, to |-> p.to]) =< ChunkChars
              /\ r.chunks = s.chunks /\ r.open = <<[from |-> o.from, to |-> p.to]>>
           \/ /\ s.open # <<>> /\ Size(p) =< ChunkChars
              /\ r.chunks = Flushed(s)
              /\ r.open = <<[from |-> p.from - Min({length, Size(o)}), to |-> p.to]>>
<1> DEFINE o == s.open[1]
           joined == IF s.open = <<>> THEN p ELSE [from |-> o.from, to |-> p.to]
           tail == Min({length, Size(o)})
           split == [chunks |-> Flushed(s) \o SplitByChars(p.from, p.to), open |-> <<>>]
           more == [chunks |-> s.chunks, open |-> <<joined>>]
           new == [chunks |-> Flushed(s), open |-> <<[from |-> p.from - tail, to |-> p.to]>>]
           Long == Size(p) > ChunkChars
           Short == Size(p) =< ChunkChars /\ Size(joined) =< ChunkChars
           r == WithParagraph(s, p, length)
<1>1. r = CASE Long -> split [] Short -> more [] OTHER -> new
    BY DEF WithParagraph
<1>2. Size(p) \in Int /\ ChunkChars \in Int
    BY RetrievalAssumption DEF Size, Spans
<1>3. Size(joined) \in Int
    <2>1. CASE s.open = <<>>
        BY <1>2, <2>1
    <2>2. CASE s.open # <<>>
        <3>1. o \in Spans
            BY <2>2, FlushedIs
        <3>2. o.from \in Int /\ p.to \in Int
            BY <3>1 DEF Spans
        <3> QED
            BY <2>2, <3>2 DEF Size
    <2> QED
        BY <2>1, <2>2
<1>4. split.chunks = Flushed(s) \o SplitByChars(p.from, p.to) /\ split.open = <<>>
    OBVIOUS
<1>5. more.chunks = s.chunks /\ more.open = <<joined>>
    OBVIOUS
<1>6. new.chunks = Flushed(s) /\ new.open = <<[from |-> p.from - tail, to |-> p.to]>>
    OBVIOUS
<1>7. Long => ~ Short
    BY <1>2
<1>8. /\ s.open = <<>> => joined = p
      /\ s.open # <<>> => joined = [from |-> o.from, to |-> p.to]
    OBVIOUS
<1>9. ~ Long /\ ~ Short => s.open # <<>> /\ Size(p) =< ChunkChars
    BY <1>2, <1>3, <1>8
<1>10. Short => Size(p) =< ChunkChars /\ Size(joined) =< ChunkChars
    OBVIOUS
<1> HIDE DEF split, more, new, Long, Short, r, joined, tail, o
<1>11. /\ Long => r = split
       /\ Short => r = more
       /\ ~ Long /\ ~ Short => r = new
    BY <1>1, <1>7
<1>12. CASE Long
    BY <1>4, <1>11, <1>12 DEF r
<1>13. CASE Short
    BY <1>5, <1>8, <1>10, <1>11, <1>13 DEF r, o
<1>14. CASE ~ Long /\ ~ Short
    BY <1>6, <1>9, <1>11, <1>14 DEF r, o, tail
<1> QED
    BY <1>12, <1>13, <1>14

\* What a paragraph turns the state of the split into is of the same kind.
LEMMA ParagraphTyped ==
    ASSUME NEW s \in Texts, NEW p \in Spans, NEW length \in Nat, p.from =< p.to
    PROVE  WithParagraph(s, p, length) \in Texts
<1> DEFINE r == WithParagraph(s, p, length)
           o == s.open[1]
           split == SplitByChars(p.from, p.to)
           tail == Min({length, Size(o)})
<1>1. p.from \in Int /\ p.to \in Int
    BY DEF Spans
<1>2. split \in Seq(Spans)
    BY <1>1, SplitCovers DEF Covers
<1>3. r.chunks \in Seq(Spans) /\ r.open \in Seq(Spans) /\ Len(r.open) =< 1
    <2>1. CASE r.chunks = Flushed(s) \o split /\ r.open = <<>>
        <3>1. Flushed(s) \o split \in Seq(Spans) /\ <<>> \in Seq(Spans) /\ Len(<<>>) = 0
            BY <1>2, FlushedIs
        <3> QED
            BY <2>1, <3>1
    <2>2. CASE r.chunks = s.chunks /\ r.open = <<p>>
        <3>1. s.chunks \in Seq(Spans) /\ <<p>> \in Seq(Spans) /\ Len(<<p>>) = 1
            BY FlushedIs
        <3> QED
            BY <2>2, <3>1
    <2>3. CASE s.open # <<>> /\ r.chunks = s.chunks /\ r.open = <<[from |-> o.from, to |-> p.to]>>
        <3> DEFINE q == [from |-> o.from, to |-> p.to]
        <3>1. s.chunks \in Seq(Spans) /\ o \in Spans
            BY <2>3, FlushedIs
        <3>2. q \in Spans
            BY <1>1, <3>1 DEF Spans
        <3> HIDE DEF q
        <3>3. <<q>> \in Seq(Spans) /\ Len(<<q>>) = 1
            BY <3>2
        <3> QED
            BY <2>3, <3>1, <3>3 DEF q
    <2>4. CASE s.open # <<>> /\ r.chunks = Flushed(s) /\ r.open = <<[from |-> p.from - tail, to |-> p.to]>>
        <3> DEFINE q == [from |-> p.from - tail, to |-> p.to]
        <3>1. Flushed(s) \in Seq(Spans) /\ o \in Spans
            BY <2>4, FlushedIs
        <3>2. Size(o) \in Int
            BY <3>1 DEF Spans, Size
        <3>3. tail \in Int
            <4> DEFINE z == Size(o)
            <4>1. z \in Int /\ length \in Int
                BY <3>2
            <4> HIDE DEF z
            <4> QED
                BY <4>1, OfTwo DEF z
        <3>4. q \in Spans
            BY <1>1, <3>3 DEF Spans
        <3> HIDE DEF q
        <3>5. <<q>> \in Seq(Spans) /\ Len(<<q>>) = 1
            BY <3>4
        <3> QED
            BY <2>4, <3>1, <3>5 DEF q
    <2> QED
        BY <2>1, <2>2, <2>3, <2>4, ParagraphIs
<1>4. r = [chunks |-> r.chunks, open |-> r.open]
    BY DEF WithParagraph
<1> QED
    BY <1>3, <1>4 DEF Texts

\* A bound on the sizes of two texts is one on both together.
LEMMA SizedBoth ==
    ASSUME NEW s \in Seq(Spans), NEW t \in Seq(Spans), NEW size, Sized(s, size), Sized(t, size)
    PROVE  Sized(s \o t, size)
<1> DEFINE m == Len(s)
           n == Len(t)
           u == s \o t
<1>1. /\ m \in Nat /\ n \in Nat /\ Len(u) = m + n
      /\ \A k \in 1..m : u[k] = s[k]
      /\ \A k \in 1..n : u[m + k] = t[k]
    BY Joined
<1>2. (\A k \in 1..m : Size(s[k]) =< size) /\ \A k \in 1..n : Size(t[k]) =< size
    BY DEF Sized
<1> HIDE DEF m, n, u
<1>3. ASSUME NEW k \in 1..(m + n) PROVE Size(u[k]) =< size
    <2>1. CASE k =< m
        <3>1. k \in 1..m
            BY <1>1, <2>1
        <3>2. u[k] = s[k]
            BY <1>1, <3>1
        <3> QED
            BY <1>2, <3>1, <3>2
    <2>2. CASE k > m
        <3>1. k - m \in 1..n /\ m + (k - m) = k
            BY <1>1, <2>2
        <3>2. u[k] = t[k - m]
            BY <1>1, <3>1
        <3> QED
            BY <1>2, <3>1, <3>2
    <2> QED
        BY <1>1, <2>1, <2>2
<1> QED
    BY <1>1, <1>3 DEF Sized, u

\* A part of a sized text is sized, and one span is when its size is.
LEMMA SizedFirst ==
    ASSUME NEW s \in Seq(Spans), NEW t \in Seq(Spans), NEW size, Sized(s \o t, size)
    PROVE  Sized(s, size)
<1> DEFINE m == Len(s)
           n == Len(t)
           u == s \o t
<1>1. /\ m \in Nat /\ n \in Nat /\ Len(u) = m + n
      /\ \A k \in 1..m : u[k] = s[k]
    BY Joined
<1>2. \A k \in 1..Len(u) : Size(u[k]) =< size
    BY DEF Sized
<1> HIDE DEF m, n, u
<1>3. ASSUME NEW k \in 1..m PROVE Size(s[k]) =< size
    <2>1. k \in 1..Len(u)
        BY <1>1
    <2> QED
        BY <1>1, <1>2, <2>1
<1> QED
    BY <1>3 DEF Sized, m

\* A chunk within the size, alone.
LEMMA SizedOne ==
    ASSUME NEW c \in Spans, NEW size, Size(c) =< size
    PROVE  Sized(<<c>>, size)
<1>1. Len(<<c>>) = 1 /\ <<c>>[1] = c
    OBVIOUS
<1> QED
    BY <1>1 DEF Sized

\* What is cut so far covers the text up to this character.
Good(s, end) == s \in Texts /\ Covers(Flushed(s), 1, end)

\* A paragraph is added without a gap.
LEMMA ParagraphCovers ==
    ASSUME NEW s, NEW p \in Spans, NEW length \in Nat, p.from =< p.to,
           \/ s = NoText /\ p.from = 1
           \/ Good(s, p.from - 1)
    PROVE  LET r == WithParagraph(s, p, length)
               size == ChunkChars + OverlapChars IN
           /\ Good(r, p.to)
           /\ length =< OverlapChars /\ Sized(Flushed(s), size) => Sized(Flushed(r), size)
<1> DEFINE r == WithParagraph(s, p, length)
           o == s.open[1]
           split == SplitByChars(p.from, p.to)
           flushed == Flushed(s)
           tail == Min({length, Size(o)})
           size == ChunkChars + OverlapChars
           last == flushed[Len(flushed)]
<1>1. p.from \in Int /\ p.to \in Int /\ ChunkChars \in Nat /\ OverlapChars \in Nat
    BY RetrievalAssumption DEF Spans
<1>2. s \in Texts
    <2>1. CASE s = NoText
        <3>1. <<>> \in Seq(Spans) /\ Len(<<>>) = 0
            OBVIOUS
        <3> QED
            BY <2>1, <3>1 DEF NoText, Texts
    <2> QED
        BY <2>1 DEF Good
<1>3. r \in Texts
    BY <1>2, ParagraphTyped
<1>4. /\ s.chunks \in Seq(Spans) /\ flushed \in Seq(Spans)
      /\ s.open = <<>> => flushed = s.chunks
      /\ s.open # <<>> => o \in Spans /\ s.open = <<o>> /\ last = o
    BY <1>2, FlushedIs
<1>5. s = NoText => s.open = <<>> /\ flushed = <<>> /\ p.from = 1
    <2>1. <<>> \o <<>> = <<>>
        OBVIOUS
    <2>2. s = NoText => s.open = <<>> /\ s.chunks = <<>>
        BY DEF NoText
    <2>3. s = NoText => p.from = 1
        <3>1. ASSUME s = NoText, Good(s, p.from - 1) PROVE FALSE
            <4>1. Len(flushed) > 0
                BY <3>1 DEF Good, Covers
            <4>2. flushed = <<>>
                BY <2>1, <2>2, <3>1 DEF Flushed
            <4> QED
                BY <4>1, <4>2
        <3> QED
            BY <3>1
    <2> QED
        BY <2>1, <2>2, <2>3 DEF Flushed
<1>6. s # NoText =>
        /\ Covers(flushed, 1, p.from - 1)
        /\ last \in Spans /\ last.from =< last.to /\ last.to = p.from - 1
    <2>1. ASSUME s # NoText PROVE Covers(flushed, 1, p.from - 1)
        BY <2>1 DEF Good
    <2>2. ASSUME Covers(flushed, 1, p.from - 1)
          PROVE  last \in Spans /\ last.from =< last.to /\ last.to = p.from - 1
        <3> DEFINE n == Len(flushed)
        <3>1. n \in Nat /\ n > 0 /\ last.to = p.from - 1 /\ \A k \in 1..n : flushed[k].from =< flushed[k].to
            BY <2>2 DEF Covers
        <3>2. n \in 1..n
            BY <3>1
        <3> QED
            BY <1>4, <3>1, <3>2
    <2> QED
        BY <2>1, <2>2
<1> HIDE DEF r, o, split, flushed, tail, size, last
<1>7. size \in Int /\ ChunkChars =< size
    BY <1>1 DEF size
<1>8. CASE r.chunks = flushed \o split /\ r.open = <<>>
    <2>1. Covers(split, p.from, p.to) /\ Sized(split, ChunkChars)
        BY <1>1, SplitCovers DEF split
    <2>2. split \in Seq(Spans) /\ split[1].from = p.from /\ split[1].from =< split[1].to /\ split[1] \in Spans
        <3>1. split \in Seq(Spans) /\ Len(split) > 0
            BY <2>1 DEF Covers
        <3>2. 1 \in 1..Len(split)
            BY <3>1
        <3> QED
            BY <2>1, <3>1, <3>2 DEF Covers
    <2>3. Flushed(r) = flushed \o split
        BY <1>3, <1>8, FlushedIs
    <2>4. Sized(split, size)
        <3>1. ASSUME NEW k \in 1..Len(split) PROVE Size(split[k]) =< size
            <4>1. Size(split[k]) =< ChunkChars
                BY <2>1 DEF Sized
            <4>2. split[k] \in Spans
                BY <2>2
            <4>3. Size(split[k]) \in Int
                BY <4>2 DEF Size, Spans
            <4> QED
                BY <1>1, <1>7, <4>1, <4>3
        <3> QED
            BY <3>1 DEF Sized
    <2>5. Sized(flushed, size) => Sized(Flushed(r), size)
        BY <1>4, <2>2, <2>3, <2>4, SizedBoth
    <2>6. Covers(Flushed(r), 1, p.to)
        <3>1. CASE s = NoText
            <4>1. <<>> \o split = split
                BY <2>2
            <4> QED
                BY <1>5, <2>1, <2>3, <3>1, <4>1
        <3>2. CASE s # NoText
            <4> DEFINE end == p.from - 1
            <4>1. /\ end \in Int /\ 1 \in Int /\ Covers(flushed, 1, end)
                  /\ flushed[Len(flushed)].from =< p.from /\ p.from =< end + 1 /\ end < split[1].to
                <5>1. last.from \in Int /\ last.to \in Int /\ split[1].to \in Int
                    BY <1>6, <2>2, <3>2 DEF Spans
                <5> QED
                    BY <1>1, <1>6, <2>2, <3>2, <5>1 DEF last
            <4> HIDE DEF end
            <4> QED
                BY <1>1, <2>1, <2>3, <4>1, CoversOn
        <3> QED
            BY <3>1, <3>2
    <2> QED
        BY <1>3, <2>5, <2>6 DEF Good, r, size, flushed
<1>9. CASE s.open = <<>> /\ Size(p) =< ChunkChars /\ r.chunks = s.chunks /\ r.open = <<p>>
    <2>1. Flushed(r) = flushed \o <<p>> /\ <<p>> \in Seq(Spans)
        <3>1. Flushed(r) = r.chunks \o r.open
            BY DEF Flushed
        <3>2. r.chunks = flushed /\ r.open = <<p>>
            BY <1>4, <1>9
        <3>3. <<p>> \in Seq(Spans)
            OBVIOUS
        <3> QED
            BY <3>1, <3>2, <3>3
    <2>2. Sized(<<p>>, size)
        <3>1. Size(p) \in Int
            BY DEF Size, Spans
        <3>2. Size(p) =< size
            BY <1>1, <1>7, <1>9, <3>1
        <3> QED
            BY <3>2, SizedOne
    <2>3. Sized(flushed, size) => Sized(Flushed(r), size)
        BY <1>4, <2>1, <2>2, SizedBoth
    <2>4. Covers(<<p>>, p.from, p.to) /\ <<p>>[1] = p
        BY CoversOne
    <2>5. Covers(Flushed(r), 1, p.to)
        <3>1. CASE s = NoText
            <4>1. <<>> \o <<p>> = <<p>>
                OBVIOUS
            <4> QED
                BY <1>5, <2>1, <2>4, <3>1, <4>1
        <3>2. CASE s # NoText
            <4> DEFINE end == p.from - 1
            <4>1. /\ end \in Int /\ 1 \in Int /\ Covers(flushed, 1, end)
                  /\ flushed[Len(flushed)].from =< p.from /\ p.from =< end + 1 /\ end < <<p>>[1].to
                <5>1. last.from \in Int /\ last.to \in Int
                    BY <1>6, <3>2 DEF Spans
                <5> QED
                    BY <1>1, <1>6, <2>4, <3>2, <5>1 DEF last
            <4> HIDE DEF end
            <4> QED
                BY <1>1, <2>1, <2>4, <4>1, CoversOn
        <3> QED
            BY <3>1, <3>2
    <2> QED
        BY <1>3, <2>3, <2>5 DEF Good, r, size, flushed
<1>10. CASE /\ s.open # <<>> /\ Size([from |-> o.from, to |-> p.to]) =< ChunkChars
            /\ r.chunks = s.chunks /\ r.open = <<[from |-> o.from, to |-> p.to]>>
    <2> DEFINE c == [from |-> o.from, to |-> p.to]
    <2>1. s # NoText /\ o \in Spans /\ s.open = <<o>> /\ last = o
        BY <1>4, <1>5, <1>10
    <2>2. c \in Spans /\ c.from = o.from /\ c.to = p.to
        BY <1>1, <2>1 DEF Spans
    <2>3. c.to >= o.to
        <3>1. o.to = p.from - 1
            BY <1>6, <2>1
        <3> QED
            BY <1>1, <2>2, <3>1
    <2>4. Flushed(r) = s.chunks \o <<c>> /\ flushed = s.chunks \o <<o>>
        BY <1>10, <2>1 DEF Flushed, flushed
    <2>5. Size(c) =< ChunkChars
        BY <1>10
    <2> HIDE DEF c
    <2>6. Covers(Flushed(r), 1, p.to)
        <3> DEFINE end == p.from - 1
                   first == 1
                   closed == s.chunks
        <3>1. /\ end \in Int /\ first \in Int /\ closed \in Seq(Spans)
              /\ Covers(closed \o <<o>>, first, end)
              /\ o \in Spans /\ c \in Spans /\ c.from = o.from /\ c.to >= o.to
            BY <1>1, <1>4, <1>6, <2>1, <2>2, <2>3, <2>4
        <3> HIDE DEF end, first, closed
        <3>2. Covers(closed \o <<c>>, first, c.to)
            BY <3>1, CoversLonger
        <3> QED
            BY <2>2, <2>4, <3>2 DEF first, closed
    <2>7. Sized(<<c>>, size)
        <3>1. Size(c) \in Int
            BY <2>2 DEF Size, Spans
        <3>2. Size(c) =< size
            BY <1>1, <1>7, <2>5, <3>1
        <3> QED
            BY <2>2, <3>2, SizedOne
    <2>8. Sized(flushed, size) => Sized(Flushed(r), size)
        <3>1. <<o>> \in Seq(Spans) /\ <<c>> \in Seq(Spans)
            BY <2>1, <2>2
        <3>2. Sized(flushed, size) => Sized(s.chunks, size)
            BY <1>4, <2>4, <3>1, SizedFirst
        <3> QED
            BY <1>4, <2>4, <2>7, <3>1, <3>2, SizedBoth
    <2> QED
        BY <1>3, <2>6, <2>8 DEF Good, r, size, flushed
<1>11. CASE /\ s.open # <<>> /\ Size(p) =< ChunkChars /\ r.chunks = flushed
            /\ r.open = <<[from |-> p.from - tail, to |-> p.to]>>
    <2> DEFINE c == [from |-> p.from - tail, to |-> p.to]
    <2>1. s # NoText /\ o \in Spans /\ last = o
        BY <1>4, <1>5, <1>11
    <2>2. o.from \in Int /\ o.to \in Int /\ Size(o) = o.to - o.from + 1 /\ o.from =< o.to /\ o.to = p.from - 1
        BY <1>6, <2>1 DEF Spans, Size
    <2>3. tail \in Int /\ 0 =< tail /\ tail =< length /\ tail =< Size(o)
        <3> DEFINE z == Size(o)
        <3>1. z \in Int /\ z >= 0 /\ length \in Int /\ length >= 0
            BY <2>2
        <3> HIDE DEF z
        <3>2. tail = IF length =< z THEN length ELSE z
            BY <3>1, OfTwo DEF tail, z
        <3>3. tail \in Int /\ 0 =< tail /\ tail =< length /\ tail =< z
            BY <3>1, <3>2
        <3> QED
            BY <3>3 DEF z
    <2>4. c \in Spans /\ c.from = p.from - tail /\ c.to = p.to
        BY <1>1, <2>3 DEF Spans
    <2>5. r.open = <<c>>
        BY <1>11
    <2> HIDE DEF c
    <2>6. c.from \in Int /\ c.to \in Int
        BY <2>4 DEF Spans
    <2>7. Size(c) = c.to - c.from + 1 /\ Size(p) = p.to - p.from + 1
        BY DEF Size
    <2>8. o.from =< c.from /\ c.from =< p.from /\ c.from =< c.to
        BY <1>1, <2>2, <2>3, <2>4, <2>6
    <2>9. length =< OverlapChars => Size(c) =< size
        <3>1. p.to - p.from + 1 =< ChunkChars
            BY <1>11, <2>7
        <3> QED
            BY <1>1, <2>3, <2>4, <2>6, <2>7, <3>1 DEF size
    <2>10. Flushed(r) = flushed \o <<c>> /\ <<c>> \in Seq(Spans)
        BY <1>11, <2>4, <2>5 DEF Flushed
    <2>11. Covers(<<c>>, c.from, c.to) /\ <<c>>[1] = c
        BY <2>4, <2>8, CoversOne
    <2>12. Covers(Flushed(r), 1, p.to)
        <3> DEFINE end == p.from - 1
        <3>1. /\ end \in Int /\ 1 \in Int /\ Covers(flushed, 1, end)
              /\ flushed[Len(flushed)].from =< c.from /\ c.from =< end + 1 /\ end < <<c>>[1].to
            BY <1>1, <1>6, <2>1, <2>2, <2>4, <2>6, <2>8, <2>11 DEF last
        <3> HIDE DEF end
        <3>2. Covers(flushed \o <<c>>, 1, c.to)
            BY <2>6, <2>11, <3>1, CoversOn
        <3> QED
            BY <2>4, <2>10, <3>2
    <2>13. length =< OverlapChars /\ Sized(flushed, size) => Sized(Flushed(r), size)
        <3>1. length =< OverlapChars => Sized(<<c>>, size)
            BY <2>4, <2>9, SizedOne
        <3> QED
            BY <1>4, <2>10, <3>1, SizedBoth
    <2> QED
        BY <1>3, <2>12, <2>13 DEF Good, r, size, flushed
<1> QED
    BY <1>2, <1>8, <1>9, <1>10, <1>11, ParagraphIs DEF r, o, split, flushed, tail

\* The chunks as they are made, one paragraph after the other.
LEMMA TextStep ==
    ASSUME NEW n \in Nat, NEW lengths \in [1..n -> Nat \ {0}], NEW tails \in [1..n -> Nat]
    PROVE  LET f == TextUpTo(lengths, tails)
               b == Sums(lengths) IN
           /\ f \in [0..n -> Texts] /\ f[0] = NoText
           /\ \A k \in 1..n : f[k] = WithParagraph(f[k - 1], [from |-> b[k - 1] + 1, to |-> b[k]], tails[k])
           /\ b[0] = 0 /\ \A k \in 1..n : b[k] \in Int /\ b[k - 1] \in Int /\ b[k] = b[k - 1] + lengths[k]
<1> DEFINE b == Sums(lengths)
           Paragraph(k) == [from |-> b[k - 1] + 1, to |-> b[k]]
           More(k, x) == WithParagraph(x, Paragraph(k), tails[k])
           u == TextUpTo(lengths, tails)
           Is(f) == f = [k \in 0..n |-> IF k = 0 THEN NoText ELSE More(k, f[k - 1])]
           step == [q \in (1..n) \X Texts |-> More(q[1], q[2])]
<1>1. lengths \in Seq(Int) /\ Len(lengths) = n
    OBVIOUS
<1>2. b \in [0..n -> Int] /\ b[0] = 0 /\ \A k \in 1..n : b[k] = b[k - 1] + lengths[k]
    BY <1>1, SumsStep
<1> HIDE DEF b
<1>3. ASSUME NEW k \in 1..n
      PROVE  /\ b[k] \in Int /\ b[k - 1] \in Int /\ tails[k] \in Nat
             /\ Paragraph(k) \in Spans /\ Paragraph(k).from =< Paragraph(k).to
    <2>1. k \in 0..n /\ k - 1 \in 0..n /\ lengths[k] \in Nat \ {0} /\ tails[k] \in Nat
        OBVIOUS
    <2>2. b[k] \in Int /\ b[k - 1] \in Int /\ b[k - 1] + 1 =< b[k]
        BY <1>2, <2>1
    <2> QED
        BY <2>1, <2>2 DEF Spans
<1> HIDE DEF Paragraph
<1>4. ASSUME NEW k \in 1..n, NEW x \in Texts PROVE More(k, x) \in Texts
    BY <1>3, ParagraphTyped
<1>5. NoText \in Texts
    <2>1. <<>> \in Seq(Spans) /\ Len(<<>>) = 0
        OBVIOUS
    <2> QED
        BY <2>1 DEF NoText, Texts
<1>6. u = CHOOSE f : Is(f)
    BY <1>1 DEF TextUpTo, b, Paragraph
<1>7. step \in [(1..n) \X Texts -> Texts] /\ \A k \in 1..n, x \in Texts : step[<<k, x>>] = More(k, x)
    BY <1>4
<1> HIDE DEF step, More
<1>8. PICK f : Solves(f, Texts, NoText, n, step)
    BY <1>5, <1>7, RecursionExists
<1>9. f \in [0..n -> Texts] /\ \A k \in 0..n : f[k] = IF k = 0 THEN NoText ELSE step[<<k, f[k - 1]>>]
    BY <1>8 DEF Solves
<1>10. ASSUME NEW k \in 0..n PROVE f[k] = IF k = 0 THEN NoText ELSE More(k, f[k - 1])
    <2>1. CASE k = 0
        BY <1>9, <2>1
    <2>2. CASE k # 0
        <3>1. k \in 1..n /\ k - 1 \in 0..n
            BY <2>2
        <3>2. f[k - 1] \in Texts
            BY <1>9, <3>1
        <3> QED
            BY <1>7, <1>9, <2>2, <3>1, <3>2
    <2> QED
        BY <2>1, <2>2
<1>11. Is(f)
    BY <1>9, <1>10
<1>12. Is(u)
    <2> HIDE DEF Is
    <2> QED
        BY <1>6, <1>11
<1> DEFINE Typed == {k \in Nat : k =< n => u[k] \in Texts}
<1>13. \A k \in 0..n : u[k] = IF k = 0 THEN NoText ELSE More(k, u[k - 1])
    BY <1>12
<1>14. u = [k \in 0..n |-> u[k]]
    BY <1>12
<1> HIDE DEF u, Is
<1>15. u[0] = NoText /\ \A k \in 1..n : u[k] = More(k, u[k - 1])
    BY <1>13
<1>16. 0 \in Typed /\ Typed \in SUBSET Nat
    BY <1>5, <1>15
<1>17. ASSUME NEW k \in Typed PROVE k + 1 \in Typed
    <2>1. SUFFICES ASSUME k + 1 =< n PROVE u[k + 1] \in Texts
        OBVIOUS
    <2>2. k + 1 \in 1..n /\ (k + 1) - 1 = k /\ k =< n
        BY <2>1
    <2>3. u[k + 1] = More(k + 1, u[k]) /\ u[k] \in Texts
        BY <1>15, <2>2
    <2> QED
        BY <1>4, <2>2, <2>3 DEF More
<1>18. \A k \in Nat : k \in Typed
    <2> HIDE DEF Typed
    <2> QED
        BY <1>16, <1>17, AllNumbers
<1>19. u \in [0..n -> Texts]
    BY <1>14, <1>18
<1> QED
    BY <1>2, <1>3, <1>15, <1>19 DEF u, b, More, Paragraph

\* However it is cut, a text that is not empty is covered by its chunks.
LEMMA TextCovers ==
    ASSUME NEW n \in Nat \ {0}, NEW lengths \in [1..n -> Nat \ {0}], NEW tails \in [1..n -> Nat]
    PROVE  LET s == SplitLongText(lengths, tails) IN
           /\ Total(lengths) \in Nat \ {0} /\ Covers(s, 1, Total(lengths))
           /\ (\A k \in 1..n : tails[k] =< OverlapChars) => Sized(s, ChunkChars + OverlapChars)
<1> DEFINE u == TextUpTo(lengths, tails)
           b == Sums(lengths)
           size == ChunkChars + OverlapChars
           Short == \A k \in 1..n : tails[k] =< OverlapChars
           Paragraph(k) == [from |-> b[k - 1] + 1, to |-> b[k]]
           Is(k) == /\ k = 0 => u[k] = NoText
                    /\ k > 0 => b[k] > 0 /\ Good(u[k], b[k])
                    /\ Short => Sized(Flushed(u[k]), size)
           Reached == {k \in Nat : k =< n => Is(k)}
<1>1. /\ u \in [0..n -> Texts] /\ u[0] = NoText
      /\ \A k \in 1..n : u[k] = WithParagraph(u[k - 1], Paragraph(k), tails[k])
      /\ b[0] = 0 /\ \A k \in 1..n : b[k] \in Int /\ b[k - 1] \in Int /\ b[k] = b[k - 1] + lengths[k]
    BY TextStep
<1>2. Len(lengths) = n
    OBVIOUS
<1>3. SplitLongText(lengths, tails) = Flushed(u[n]) /\ Total(lengths) = b[n]
    BY <1>2 DEF SplitLongText, Total
<1> HIDE DEF u, b, size, Short
<1>4. 0 \in Reached
    <2>1. Flushed(NoText) = <<>>
        BY DEF Flushed, NoText
    <2>2. Sized(<<>>, size)
        BY DEF Sized
    <2> QED
        BY <1>1, <2>1, <2>2
<1>5. ASSUME NEW k \in Reached PROVE k + 1 \in Reached
    <2> SUFFICES ASSUME k + 1 =< n PROVE Is(k + 1)
        OBVIOUS
    <2> DEFINE p == Paragraph(k + 1)
               s == u[k]
               r == u[k + 1]
               length == tails[k + 1]
    <2>1. k \in Nat /\ k + 1 \in 1..n /\ (k + 1) - 1 = k /\ k + 1 # 0 /\ Is(k)
        OBVIOUS
    <2>2. /\ b[k + 1] \in Int /\ b[k] \in Int /\ b[k + 1] = b[k] + lengths[k + 1]
          /\ r = WithParagraph(s, p, length)
        BY <1>1, <2>1
    <2>3. lengths[k + 1] \in Nat \ {0} /\ length \in Nat
        BY <2>1
    <2>4. p \in Spans /\ p.from =< p.to /\ p.from = b[k] + 1 /\ p.to = b[k + 1]
        BY <2>1, <2>2, <2>3 DEF Spans
    <2>5. \/ s = NoText /\ p.from = 1
          \/ Good(s, p.from - 1)
        <3>1. CASE k = 0
            BY <1>1, <2>1, <2>4, <3>1
        <3>2. CASE k > 0
            <4>1. Good(s, b[k]) /\ p.from - 1 = b[k]
                BY <2>1, <2>2, <2>4, <3>2
            <4> QED
                BY <4>1
        <3> QED
            BY <2>1, <3>1, <3>2
    <2>6. Short => length =< OverlapChars
        BY <2>1 DEF Short
    <2>7. b[k + 1] > 0
        <3>1. b[k] >= 0
            BY <1>1, <2>1, <2>2
        <3> QED
            BY <2>2, <2>3, <3>1
    <2>8. Short => Sized(Flushed(s), size)
        BY <2>1
    <2> HIDE DEF p, s, length, r, Paragraph
    <2>9. /\ Good(r, p.to)
          /\ length =< OverlapChars /\ Sized(Flushed(s), size) => Sized(Flushed(r), size)
        BY <2>2, <2>3, <2>4, <2>5, ParagraphCovers DEF size
    <2> QED
        BY <2>1, <2>4, <2>6, <2>7, <2>8, <2>9 DEF r
<1>6. \A k \in Nat : k \in Reached
    <2>1. Reached \in SUBSET Nat
        OBVIOUS
    <2> HIDE DEF Reached
    <2> QED
        BY <1>4, <1>5, <2>1, AllNumbers
<1>7. Is(n) /\ n > 0 /\ b[n] \in Int
    BY <1>1, <1>6
<1>8. b[n] \in Nat \ {0} /\ Covers(Flushed(u[n]), 1, b[n]) /\ (Short => Sized(Flushed(u[n]), size))
    BY <1>7 DEF Good
<1> QED
    BY <1>3, <1>8 DEF size, Short

\* The chunks of a document, of a short card too.
LEMMA DocumentCovers ==
    ASSUME NEW n \in Nat \ {0}, NEW lengths \in [1..n -> Nat \ {0}], NEW tails \in [1..n -> Nat],
           NEW card \in BOOLEAN
    PROVE  LET s == ChunkDocument(card, lengths, tails) IN
           /\ Covers(s, 1, Total(lengths))
           /\ (\A k \in 1..n : tails[k] =< OverlapChars) => Sized(s, ChunkChars + OverlapChars)
<1> DEFINE all == Total(lengths)
           s == ChunkDocument(card, lengths, tails)
           c == [from |-> 1, to |-> all]
           long == SplitLongText(lengths, tails)
           Short == \A k \in 1..n : tails[k] =< OverlapChars
           size == ChunkChars + OverlapChars
<1>1. /\ all \in Nat \ {0} /\ Covers(long, 1, all)
      /\ Short => Sized(long, size)
    BY TextCovers
<1>2. ChunkChars \in Nat /\ OverlapChars \in Nat
    BY RetrievalAssumption
<1>3. (s = <<c>> /\ all =< ChunkChars) \/ s = long
    BY DEF ChunkDocument
<1> HIDE DEF all, s, long, Short
<1>4. c \in Spans /\ c.from = 1 /\ c.to = all
    BY <1>1 DEF Spans
<1> HIDE DEF c
<1>5. CASE s = <<c>> /\ all =< ChunkChars
    <2>1. Covers(<<c>>, c.from, c.to)
        <3>1. c.from =< c.to
            BY <1>1, <1>4
        <3> QED
            BY <1>4, <3>1, CoversOne
    <2>2. Size(c) =< size
        <3>1. Size(c) = all
            BY <1>1, <1>4 DEF Size
        <3> QED
            BY <1>1, <1>2, <1>5, <3>1
    <2>3. Sized(<<c>>, size)
        BY <1>4, <2>2, SizedOne
    <2> QED
        BY <1>4, <1>5, <2>1, <2>3 DEF s, all
<1>6. CASE s = long
    BY <1>1, <1>6 DEF s, all, Short
<1> QED
    BY <1>3, <1>5, <1>6

-----------------------------------------------------------------------------
(* The ranking and the selection.                                          *)

\* A bounded set of numbers that is not empty has a greatest one.
LEMMA MaxExists ==
    ASSUME NEW n \in Nat, NEW S \in SUBSET (0..n), S # {}
    PROVE  Max(S) \in S /\ \A y \in S : Max(S) >= y
<1> DEFINE R == {n - x : x \in S}
<1>1. R \in SUBSET Nat /\ R # {}
    OBVIOUS
<1>2. PICK m \in R : \A y \in R : m =< y
    <2> HIDE DEF R
    <2> QED
        BY <1>1, MinExists
<1>3. PICK x \in S : m = n - x
    BY <1>2
<1>4. ASSUME NEW y \in S PROVE x >= y
    <2>1. n - y \in R /\ x \in Int /\ y \in Int
        OBVIOUS
    <2>2. n - x =< n - y
        BY <1>2, <1>3, <2>1
    <2> QED
        BY <2>1, <2>2
<1>5. \E x1 \in S : \A y \in S : x1 >= y
    BY <1>4
<1>6. Max(S) = CHOOSE x1 \in S : \A y \in S : x1 >= y
    BY DEF Max
<1> QED
    BY <1>5, <1>6

\* The tokens of the chunks at these positions.
LEMMA TokensAre ==
    ASSUME NEW chunks \in Seq(Chunks)
    PROVE  LET I == 1..Len(chunks) IN
           /\ Tokens(chunks, <<>>) = 0
           /\ \A i \in I : chunks[i].tokens \in Nat
           /\ \A s \in Seq(I) : Tokens(chunks, s) \in Nat
           /\ \A s \in Seq(I), i \in I :
                Tokens(chunks, Append(s, i)) = Tokens(chunks, s) + chunks[i].tokens
<1> DEFINE I == 1..Len(chunks)
           Of(s) == [n \in DOMAIN s |-> chunks[s[n]].tokens]
<1>1. ASSUME NEW i \in I PROVE chunks[i].tokens \in Nat
    <2>1. chunks[i] \in Chunks
        OBVIOUS
    <2> QED
        BY <2>1 DEF Chunks
<1> DEFINE w == [i \in I |-> chunks[i].tokens]
<1>2. w \in [I -> Nat]
    BY <1>1
<1>3. ASSUME NEW s \in Seq(I)
      PROVE  /\ Of(s) \in Seq(Nat) /\ Len(Of(s)) = Len(s)
             /\ \A n \in 1..Len(s) : Of(s)[n] = w[s[n]]
    <2>1. Len(s) \in Nat /\ DOMAIN s = 1..Len(s) /\ \A n \in 1..Len(s) : s[n] \in I
        OBVIOUS
    <2> DEFINE n == Len(s)
    <2>2. Of(s) = [k \in 1..n |-> w[s[k]]]
        BY <2>1
    <2>3. \A k \in 1..n : w[s[k]] \in Nat
        BY <1>2, <2>1
    <2>4. n \in Nat
        BY <2>1
    <2> HIDE DEF n, Of, w
    <2>5. [k \in 1..n |-> w[s[k]]] \in Seq(Nat) /\ Len([k \in 1..n |-> w[s[k]]]) = n
        BY <2>3, <2>4
    <2> QED
        BY <2>2, <2>5 DEF n
<1>4. \A s : Tokens(chunks, s) = Total(Of(s))
    BY DEF Tokens
<1>5. Tokens(chunks, <<>>) = 0
    <2>1. Of(<<>>) = <<>> /\ <<>> \in Seq(Int)
        OBVIOUS
    <2>2. Total(<<>>) = 0
        <3> DEFINE e == <<>>
        <3>1. e \in Seq(Int) /\ e = <<>>
            OBVIOUS
        <3> HIDE DEF e
        <3>2. Total(e) = 0
            BY <3>1, TotalIs
        <3> QED
            BY <3>1, <3>2
    <2> QED
        BY <1>4, <2>1, <2>2
<1> HIDE DEF Of
<1>6. ASSUME NEW s \in Seq(I) PROVE Tokens(chunks, s) \in Nat
    <2>1. Of(s) \in Seq(Nat)
        BY <1>3
    <2> QED
        BY <1>4, <2>1, TotalNat
<1>7. ASSUME NEW s \in Seq(I), NEW i \in I
      PROVE  Tokens(chunks, Append(s, i)) = Tokens(chunks, s) + chunks[i].tokens
    <2> DEFINE t == Append(s, i)
               x == Of(t)
               y == Of(s)
               n == Len(s)
    <2>1. /\ t \in Seq(I) /\ Len(t) = n + 1 /\ n \in Nat /\ t[n + 1] = i
          /\ \A k \in 1..n : t[k] = s[k]
        OBVIOUS
    <2> HIDE DEF t
    <2>2. x \in Seq(Nat) /\ Len(x) = n + 1 /\ \A k \in 1..(n + 1) : x[k] = w[t[k]]
        BY <1>3, <2>1
    <2>3. y \in Seq(Nat) /\ Len(y) = n /\ \A k \in 1..n : y[k] = w[s[k]]
        BY <1>3
    <2> HIDE DEF x, y, n
    <2>4. SubSeq(x, 1, Len(x) - 1) = y
        <3> DEFINE z == SubSeq(x, 1, n)
        <3>1. z \in Seq(Nat) /\ Len(z) = n /\ \A k \in 1..n : z[k] = x[k]
            BY <2>1, <2>2, PrefixIs
        <3> HIDE DEF z
        <3>2. ASSUME NEW k \in 1..n PROVE z[k] = y[k]
            <4>1. k \in 1..(n + 1)
                BY <2>1
            <4>2. z[k] = x[k] /\ x[k] = w[t[k]] /\ t[k] = s[k] /\ y[k] = w[s[k]]
                BY <2>1, <2>2, <2>3, <3>1, <4>1
            <4> QED
                BY <4>2
        <3>3. z = y
            BY <2>3, <3>1, <3>2, SeqEqual
        <3>4. Len(x) - 1 = n
            BY <2>1, <2>2
        <3> QED
            BY <3>3, <3>4 DEF z
    <2>5. x \in Seq(Int) /\ x # <<>>
        BY <2>1, <2>2
    <2>6. Total(x) = Total(y) + x[Len(x)]
        BY <2>4, <2>5, TotalIs
    <2>7. x[Len(x)] = chunks[i].tokens
        <3>1. n + 1 \in 1..(n + 1)
            BY <2>1
        <3>2. x[n + 1] = w[i]
            BY <2>1, <2>2, <3>1
        <3> QED
            BY <2>2, <3>2
    <2> QED
        BY <1>4, <2>6, <2>7 DEF t, x, y
<1> QED
    BY <1>1, <1>5, <1>6, <1>7

\* The selection as it is made, one position after the other.
Selects(f, chunks, I, m, ids, maxTokens, maxChunks) ==
  /\ f \in [0..m -> Seq(I)] /\ f[0] = <<>>
  /\ \A k \in 1..m :
       f[k] = IF Len(f[k - 1]) < maxChunks
                 /\ Tokens(chunks, f[k - 1]) + chunks[ids[k]].tokens =< maxTokens
              THEN Append(f[k - 1], ids[k]) ELSE f[k - 1]

\* One more result of the ranking is taken or passed over.
LEMMA SelectStep ==
    ASSUME NEW chunks, NEW I, NEW m \in Nat, NEW ids \in [1..m -> I], NEW maxTokens, NEW maxChunks
    PROVE  Selects(SelectedUpTo(chunks, ids, maxTokens, maxChunks), chunks, I, m, ids, maxTokens, maxChunks)
<1> DEFINE X == Seq(I)
           Fits(x, i) == Len(x) < maxChunks /\ Tokens(chunks, x) + chunks[i].tokens =< maxTokens
           More(k, x) == IF Fits(x, ids[k]) THEN Append(x, ids[k]) ELSE x
           u == SelectedUpTo(chunks, ids, maxTokens, maxChunks)
           Is(f) == f = [k \in 0..m |-> IF k = 0 THEN <<>> ELSE More(k, f[k - 1])]
           step == [q \in (1..m) \X X |-> More(q[1], q[2])]
<1>1. Len(ids) = m /\ <<>> \in X
    OBVIOUS
<1>2. u = CHOOSE f : Is(f)
    BY <1>1 DEF SelectedUpTo
<1> HIDE DEF Fits
<1>3. ASSUME NEW k \in 1..m, NEW x \in X PROVE More(k, x) \in X
    <2>1. ids[k] \in I
        OBVIOUS
    <2> QED
        BY <2>1
<1>4. step \in [(1..m) \X X -> X] /\ \A k \in 1..m, x \in X : step[<<k, x>>] = More(k, x)
    BY <1>3
<1> HIDE DEF step, More, X
<1> DEFINE empty == <<>>
<1>5. empty \in X
    BY <1>1
<1>6. \E f : Solves(f, X, empty, m, step)
    <2> HIDE DEF empty
    <2> QED
        BY <1>4, <1>5, RecursionExists
<1>7. PICK f : Solves(f, X, empty, m, step)
    BY <1>6
<1>8. f \in [0..m -> X] /\ \A k \in 0..m : f[k] = IF k = 0 THEN empty ELSE step[<<k, f[k - 1]>>]
    BY <1>7 DEF Solves
<1>9. ASSUME NEW k \in 0..m PROVE f[k] = IF k = 0 THEN <<>> ELSE More(k, f[k - 1])
    <2>1. CASE k = 0
        BY <1>8, <2>1
    <2>2. CASE k # 0
        <3>1. k \in 1..m /\ k - 1 \in 0..m
            BY <2>2
        <3>2. f[k - 1] \in X
            BY <1>8, <3>1
        <3> QED
            BY <1>4, <1>8, <2>2, <3>1, <3>2
    <2> QED
        BY <2>1, <2>2
<1>10. Is(f)
    BY <1>8, <1>9
<1>11. Is(u)
    <2> HIDE DEF Is
    <2> QED
        BY <1>2, <1>10
<1> DEFINE Typed == {k \in Nat : k =< m => u[k] \in X}
<1>12. \A k \in 0..m : u[k] = IF k = 0 THEN <<>> ELSE More(k, u[k - 1])
    BY <1>11
<1>13. u = [k \in 0..m |-> u[k]]
    BY <1>11
<1> HIDE DEF u, Is
<1>14. u[0] = <<>> /\ \A k \in 1..m : u[k] = More(k, u[k - 1])
    <2>1. 0 \in 0..m /\ \A k \in 1..m : k \in 0..m /\ k # 0
        OBVIOUS
    <2> HIDE DEF More
    <2> QED
        BY <1>12, <2>1
<1>15. 0 \in Typed /\ Typed \in SUBSET Nat
    BY <1>1, <1>14
<1>16. ASSUME NEW k \in Typed PROVE k + 1 \in Typed
    <2>1. SUFFICES ASSUME k + 1 =< m PROVE u[k + 1] \in X
        OBVIOUS
    <2>2. k + 1 \in 1..m /\ (k + 1) - 1 = k /\ k =< m
        BY <2>1
    <2>3. u[k + 1] = More(k + 1, u[k]) /\ u[k] \in X
        BY <1>14, <2>2
    <2> QED
        BY <1>3, <2>2, <2>3
<1>17. \A k \in Nat : k \in Typed
    <2> HIDE DEF Typed
    <2> QED
        BY <1>15, <1>16, AllNumbers
<1>18. u \in [0..m -> X]
    BY <1>13, <1>17
<1> QED
    BY <1>14, <1>18 DEF u, More, X, Fits, Selects

\* What one more entry makes of a list.
LEMMA AmongAppend ==
    ASSUME NEW T, NEW s \in Seq(T), NEW i \in T
    PROVE  /\ Append(s, i) \in Seq(T) /\ Len(Append(s, i)) = Len(s) + 1
           /\ \A x : Among(x, Append(s, i)) <=> Among(x, s) \/ x = i
<1> DEFINE t == Append(s, i)
           n == Len(s)
<1>1. /\ t \in Seq(T) /\ Len(t) = n + 1 /\ n \in Nat /\ t[n + 1] = i
      /\ \A k \in 1..n : t[k] = s[k]
      /\ DOMAIN t = 1..(n + 1) /\ DOMAIN s = 1..n
    OBVIOUS
<1> HIDE DEF t, n
<1>2. ASSUME NEW x, Among(x, t) PROVE Among(x, s) \/ x = i
    <2>1. PICK k \in 1..(n + 1) : t[k] = x
        BY <1>1, <1>2 DEF Among
    <2>2. CASE k = n + 1
        BY <1>1, <2>1, <2>2
    <2>3. CASE k # n + 1
        <3>1. k \in 1..n
            BY <1>1, <2>3
        <3> QED
            BY <1>1, <2>1, <3>1 DEF Among
    <2> QED
        BY <2>2, <2>3
<1>3. ASSUME NEW x, Among(x, s) PROVE Among(x, t)
    <2>1. PICK k \in 1..n : s[k] = x
        BY <1>1, <1>3 DEF Among
    <2>2. k \in 1..(n + 1) /\ t[k] = x
        BY <1>1, <2>1
    <2> QED
        BY <1>1, <2>2 DEF Among
<1>4. Among(i, t)
    <2>1. n + 1 \in 1..(n + 1)
        BY <1>1
    <2> QED
        BY <1>1, <2>1 DEF Among
<1> QED
    BY <1>1, <1>2, <1>3, <1>4 DEF t, n

\* After k positions were looked at: what was taken fits both limits, and a
\* position that was left out would not have fitted.
Taken(s, ids, k, chunks, maxTokens, limit) ==
  /\ s \in Seq(1..Len(chunks)) /\ Len(s) =< limit /\ Len(s) =< k
  /\ Tokens(chunks, s) =< maxTokens
  /\ \A x : Among(x, s) => \E j \in 1..k : ids[j] = x
  /\ \A j \in 1..k :
       \/ Among(ids[j], s)
       \/ Len(s) = limit
       \/ Tokens(chunks, s) + chunks[ids[j]].tokens > maxTokens
  /\ Len(s) < k <=> \E j \in 1..k : ~ Among(ids[j], s)

\* What is taken of the ranking fills the budget and not more.
LEMMA SelectFills ==
    ASSUME NEW chunks \in Seq(Chunks), NEW m \in Nat, NEW ids \in [1..m -> 1..Len(chunks)],
           \A j, k \in 1..m : ids[j] = ids[k] => j = k,
           NEW maxTokens \in Nat, NEW limit \in Nat
    PROVE  Taken(Select(chunks, ids, maxTokens, limit), ids, m, chunks, maxTokens, limit)
<1> DEFINE I == 1..Len(chunks)
           u == SelectedUpTo(chunks, ids, maxTokens, limit)
           Is(k) == Taken(u[k], ids, k, chunks, maxTokens, limit)
           Reached == {k \in Nat : k =< m => Is(k)}
<1>1. /\ u \in [0..m -> Seq(I)] /\ u[0] = <<>>
      /\ \A k \in 1..m :
           u[k] = IF Len(u[k - 1]) < limit
                     /\ Tokens(chunks, u[k - 1]) + chunks[ids[k]].tokens =< maxTokens
                  THEN Append(u[k - 1], ids[k]) ELSE u[k - 1]
    <2> HIDE DEF I
    <2>1. ids \in [1..m -> I]
        BY DEF I
    <2>2. Selects(u, chunks, I, m, ids, maxTokens, limit)
        BY <2>1, SelectStep
    <2> QED
        BY <2>2 DEF Selects
<1>2. Select(chunks, ids, maxTokens, limit) = u[m]
    <2>1. Len(ids) = m
        OBVIOUS
    <2> QED
        BY <2>1 DEF Select
<1>3. /\ Tokens(chunks, <<>>) = 0
      /\ \A i \in I : chunks[i].tokens \in Nat
      /\ \A s \in Seq(I) : Tokens(chunks, s) \in Nat
      /\ \A s \in Seq(I), i \in I :
           Tokens(chunks, Append(s, i)) = Tokens(chunks, s) + chunks[i].tokens
    BY TokensAre
<1> HIDE DEF u
<1>4. Is(0)
    <2>1. \A x : ~ Among(x, <<>>)
        BY DEF Among
    <2>2. <<>> \in Seq(I) /\ Len(<<>>) = 0
        OBVIOUS
    <2> QED
        BY <1>1, <1>3, <2>1, <2>2 DEF Taken
<1>5. ASSUME NEW k \in Nat, k + 1 =< m, Is(k) PROVE Is(k + 1)
    <2> DEFINE s == u[k]
               t == u[k + 1]
               i == ids[k + 1]
               used == Tokens(chunks, s)
               more == chunks[i].tokens
    <2>1. k + 1 \in 1..m /\ (k + 1) - 1 = k /\ i \in I /\ \A j \in 1..k : j \in 1..m /\ j # k + 1
        BY <1>5
    <2>2. /\ s \in Seq(I) /\ Len(s) =< limit /\ Len(s) =< k /\ used =< maxTokens
          /\ \A x : Among(x, s) => \E j \in 1..k : ids[j] = x
          /\ \A j \in 1..k : \/ Among(ids[j], s)
                             \/ Len(s) = limit
                             \/ used + chunks[ids[j]].tokens > maxTokens
          /\ Len(s) < k <=> \E j \in 1..k : ~ Among(ids[j], s)
        BY <1>5 DEF Taken
    <2>3. t = IF Len(s) < limit /\ used + more =< maxTokens THEN Append(s, i) ELSE s
        BY <1>1, <2>1
    <2>4. Len(s) \in Nat /\ used \in Nat /\ more \in Nat
        BY <1>3, <2>1, <2>2
    <2>5. ~ Among(i, s) /\ \A j \in 1..k : ids[j] # i
        BY <2>1, <2>2
    <2>6. \A j \in 1..(k + 1) : j \in 1..k \/ j = k + 1
        BY <1>5
    <2>7. k + 1 \in 1..(k + 1) /\ \A j \in 1..k : j \in 1..(k + 1)
        BY <1>5
    <2>8. \A j \in 1..k : ids[j] \in I /\ chunks[ids[j]].tokens \in Nat
        BY <1>3, <2>1
    <2> HIDE DEF s, t, used, more, Is
    <2>9. CASE Len(s) < limit /\ used + more =< maxTokens
        <3>1. t = Append(s, i)
            BY <2>3, <2>9
        <3>2. /\ t \in Seq(I) /\ Len(t) = Len(s) + 1
              /\ \A x : Among(x, t) <=> Among(x, s) \/ x = i
            <4> HIDE DEF I, i
            <4> QED
                BY <2>1, <2>2, <3>1, AmongAppend
        <3>3. Tokens(chunks, t) = used + more
            BY <1>3, <2>1, <2>2, <3>1 DEF used, more
        <3> HIDE DEF i
        <3>4. Len(t) =< limit /\ Len(t) =< k + 1 /\ Tokens(chunks, t) =< maxTokens
            BY <2>2, <2>4, <2>9, <3>2, <3>3
        <3>5. \A x : Among(x, t) => \E j \in 1..(k + 1) : ids[j] = x
            BY <2>2, <2>7, <3>2 DEF i
        <3>6. ASSUME NEW j \in 1..(k + 1)
              PROVE  \/ Among(ids[j], t)
                     \/ Len(t) = limit
                     \/ Tokens(chunks, t) + chunks[ids[j]].tokens > maxTokens
            <4>1. CASE j = k + 1
                BY <3>2, <4>1 DEF i
            <4>2. CASE j \in 1..k
                <5>1. CASE Among(ids[j], s)
                    BY <3>2, <5>1
                <5>2. CASE ~ Among(ids[j], s)
                    <6>1. used + chunks[ids[j]].tokens > maxTokens
                        BY <2>2, <2>4, <2>9, <4>2, <5>2
                    <6> QED
                        BY <2>4, <2>8, <3>3, <4>2, <6>1
                <5> QED
                    BY <5>1, <5>2
            <4> QED
                BY <2>6, <4>1, <4>2
        <3>7. Len(t) < k + 1 <=> \E j \in 1..(k + 1) : ~ Among(ids[j], t)
            <4>1. Len(t) < k + 1 <=> Len(s) < k
                BY <2>4, <3>2
            <4>2. (\E j \in 1..k : ~ Among(ids[j], s)) <=> \E j \in 1..(k + 1) : ~ Among(ids[j], t)
                BY <2>5, <2>6, <2>7, <3>2 DEF i
            <4> QED
                BY <2>2, <4>1, <4>2
        <3> QED
            BY <3>2, <3>4, <3>5, <3>6, <3>7 DEF Is, Taken, t
    <2>10. CASE ~ (Len(s) < limit /\ used + more =< maxTokens)
        <3>1. t = s
            BY <2>3, <2>10
        <3>2. Len(s) =< k + 1 /\ Len(s) < k + 1
            BY <2>2, <2>4
        <3>3. Len(s) = limit \/ used + more > maxTokens
            BY <2>2, <2>4, <2>10
        <3>4. ASSUME NEW j \in 1..(k + 1)
              PROVE  \/ Among(ids[j], s)
                     \/ Len(s) = limit
                     \/ used + chunks[ids[j]].tokens > maxTokens
            BY <2>2, <2>6, <3>3 DEF more
        <3>5. \E j \in 1..(k + 1) : ~ Among(ids[j], s)
            BY <2>5, <2>7
        <3>6. \A x : Among(x, s) => \E j \in 1..(k + 1) : ids[j] = x
            BY <2>2, <2>7
        <3> QED
            BY <2>2, <3>1, <3>2, <3>4, <3>5, <3>6 DEF Is, Taken, t, used
    <2> QED
        BY <2>9, <2>10
<1>6. \A k \in Nat : k \in Reached
    <2>1. 0 \in Reached /\ Reached \in SUBSET Nat
        BY <1>4
    <2>2. ASSUME NEW k \in Reached PROVE k + 1 \in Reached
        <3>1. k \in Nat /\ (k + 1 =< m => k =< m)
            OBVIOUS
        <3>2. k + 1 =< m => Is(k)
            BY <3>1
        <3> HIDE DEF Is
        <3> QED
            BY <1>5, <3>1, <3>2
    <2> HIDE DEF Reached
    <2> QED
        BY <2>1, <2>2, AllNumbers
<1> QED
    BY <1>2, <1>6

\* A score is a number, whatever the query.
LEMMA ScoreIs ==
    ASSUME NEW c \in Chunks, NEW terms \in Nat
    PROVE  Score(c, terms) \in Int
<1>1. /\ c.type \in SourceTypes /\ c.hits \in Nat /\ c.priority \in Int
      /\ c.inChapter \in BOOLEAN /\ c.inScene \in BOOLEAN
    BY DEF Chunks
<1>2. SourceWeight(c.type) \in Int
    BY <1>1 DEF SourceWeight, SourceTypes
<1> DEFINE top == 600 * c.hits
           below == Max({1, terms})
           three == 300
           zero == 0
           high == c.priority * 30
           floor == Max({zero, high})
           extra == Min({three, floor})
           bonus == (IF c.inChapter THEN 210 ELSE 0) + (IF c.inScene THEN 150 ELSE 0)
<1>3. below \in Int /\ below >= 1
    <2> DEFINE one == 1
    <2>1. one \in Int /\ terms \in Int
        OBVIOUS
    <2>2. below = IF one >= terms THEN one ELSE terms
        <3> HIDE DEF one
        <3>1. Max({one, terms}) = IF one >= terms THEN one ELSE terms
            BY <2>1, OfTwo
        <3> QED
            BY <3>1 DEF one
    <2> HIDE DEF below
    <2> QED
        BY <2>2
<1>4. extra \in Int
    <2>1. three \in Int /\ zero \in Int /\ high \in Int
        BY <1>1
    <2> HIDE DEF three, zero, high
    <2>2. floor \in Int
        BY <2>1, OfTwo
    <2> HIDE DEF floor
    <2> QED
        BY <2>1, <2>2, OfTwo
<1>5. c.hits * 600 \in Int
    BY <1>1
<1> DEFINE hits == c.hits * 600
           share == hits \div below
<1>6. hits \in Int
    BY <1>5
<1> HIDE DEF below, extra, hits
<1>7. share \in Int
    BY <1>3, <1>6
<1>8. bonus \in Int
    BY <1>1
<1>9. Score(c, terms) = share + SourceWeight(c.type) + extra + bonus + 30
    <2> DEFINE one == IF c.inChapter THEN 210 ELSE 0
               two == IF c.inScene THEN 150 ELSE 0
               weight == SourceWeight(c.type)
    <2>1. Score(c, terms) = share + weight + extra + one + two + 30
        BY DEF Score, below, extra, hits
    <2>2. one \in Int /\ two \in Int /\ weight \in Int /\ bonus = one + two
        BY <1>2
    <2> HIDE DEF share, one, two, extra, bonus
    <2> QED
        BY <2>1, <2>2, <1>2, <1>4, <1>7
<1> HIDE DEF share, bonus
<1> QED
    BY <1>2, <1>4, <1>7, <1>8, <1>9

\* The ranking holds every chunk once, the better scores first.
LEMMA RankIs ==
    ASSUME NEW chunks \in Seq(Chunks), NEW terms \in Nat
    PROVE  LET f == Rank(chunks, terms)
               n == Len(chunks) IN
           /\ f \in [1..n -> 1..n]
           /\ \A i \in 1..n : \E k \in 1..n : f[k] = i
           /\ \A j, k \in 1..n : f[j] = f[k] => j = k
           /\ \A j, k \in 1..n : j < k => Score(chunks[f[k]], terms) =< Score(chunks[f[j]], terms)
<1> DEFINE n == Len(chunks)
           keys == [i \in DOMAIN chunks |->
                      <<-Score(chunks[i], terms), -chunks[i].priority, chunks[i].updated>>]
           f == Rank(chunks, terms)
<1>1. n \in Nat /\ DOMAIN chunks = 1..n /\ \A i \in 1..n : chunks[i] \in Chunks
    OBVIOUS
<1>2. \A i \in 1..n : Score(chunks[i], terms) \in Int
    BY <1>1, ScoreIs
<1>3. \A i \in 1..n : chunks[i].priority \in Int /\ chunks[i].updated \in Int
    BY <1>1 DEF Chunks
<1>10. DOMAIN keys = 1..n
    BY <1>1
<1>4. \A i \in 1..n : keys[i] = <<-Score(chunks[i], terms), -chunks[i].priority, chunks[i].updated>>
    BY <1>1
<1> DEFINE three == 3
<1>5. three \in Nat /\ \A i \in 1..n : keys[i] \in [1..three -> Int]
    BY <1>2, <1>3, <1>4
<1>6. f = Sorted(keys)
    BY DEF Rank
<1> HIDE DEF keys, f, n, three
<1>7. /\ f \in [1..n -> 1..n]
      /\ \A i \in 1..n : \E k \in 1..n : f[k] = i
      /\ \A j, k \in 1..n : f[j] = f[k] => j = k
      /\ \A j, k \in 1..n : j < k => Precedes(keys, f[j], f[k])
    <2>1. n \in Nat
        BY <1>1
    <2>2. Orders(f, n, keys)
        BY <1>5, <1>6, <1>10, <2>1, SortedIs
    <2> QED
        BY <2>2 DEF Orders
<1>8. ASSUME NEW i \in 1..n, NEW j \in 1..n, Precedes(keys, i, j)
      PROVE  Score(chunks[j], terms) =< Score(chunks[i], terms)
    <2> DEFINE x == keys[i]
               y == keys[j]
    <2>1. x[1] = -Score(chunks[i], terms) /\ y[1] = -Score(chunks[j], terms)
        BY <1>4
    <2>2. x \in [1..3 -> Int] /\ y \in [1..3 -> Int]
        BY <1>5 DEF three
    <2>3. Less(x, y) \/ x = y
        BY <1>8 DEF Precedes
    <2> HIDE DEF x, y
    <2>4. x[1] =< y[1]
        <3>1. CASE x = y
            BY <2>2, <3>1
        <3>2. CASE Less(x, y)
            <4>1. PICK k \in DOMAIN x : x[k] < y[k] /\ \A l \in 1..(k - 1) : x[l] = y[l]
                BY <3>2 DEF Less
            <4>2. k \in 1..3
                BY <2>2
            <4>3. CASE k = 1
                BY <2>2, <4>1, <4>3
            <4>4. CASE k # 1
                <5>1. 1 \in 1..(k - 1) /\ 1 \in 1..3
                    BY <4>2, <4>4
                <5>2. x[1] = y[1]
                    BY <4>1, <5>1
                <5> QED
                    BY <2>2, <5>1, <5>2
            <4> QED
                BY <4>3, <4>4
        <3> QED
            BY <2>3, <3>1, <3>2
    <2> QED
        BY <1>2, <2>1, <2>4
<1> QED
    BY <1>7, <1>8 DEF f, n

\* What RetrievalFills says of one search.
Fills(chunks, terms, topK, maxTokens, maxChunks, room, r, kept) ==
  LET limit == Min({maxChunks, topK})
      used == Tokens(chunks, r.selected)
      left == {i \in ToSet(r.retrieved) : i \notin ToSet(r.selected)}
  IN  /\ Len(r.selected) =< limit /\ used =< maxTokens
      /\ \A i \in left : Len(r.selected) = limit \/ used + chunks[i].tokens > maxTokens
      /\ r.warned <=> left # {}
      /\ IsPrefix(kept, r.selected)
      /\ Tokens(chunks, kept) =< room
      /\ \A i \in DOMAIN chunks \ ToSet(r.retrieved) : \A j \in ToSet(r.retrieved) :
           Score(chunks[i], terms) =< Score(chunks[j], terms)

\* What the prompt keeps is a beginning of the selection that fits.
LEMMA EnrichFits ==
    ASSUME NEW chunks \in Seq(Chunks), NEW s \in Seq(1..Len(chunks)), NEW room \in Nat
    PROVE  IsPrefix(Enrich(chunks, s, room), s) /\ Tokens(chunks, Enrich(chunks, s, room)) =< room
<1> DEFINE I == 1..Len(chunks)
           Fits(n) == Tokens(chunks, SubSeq(s, 1, n)) =< room
           all == Len(s)
           S == {0} \union {n \in 0..all : Fits(n)}
           k == Max(S)
           t == SubSeq(s, 1, k)
<1>1. all \in Nat /\ s \in Seq(I)
    OBVIOUS
<1>2. S \in SUBSET (0..all) /\ S # {}
    BY <1>1
<1>3. Enrich(chunks, s, room) = t
    BY DEF Enrich
<1>4. SubSeq(s, 1, 0) = <<>>
    OBVIOUS
<1>5. Fits(0)
    <2>1. Tokens(chunks, <<>>) = 0
        BY TokensAre
    <2> DEFINE e == SubSeq(s, 1, 0)
    <2>2. e = <<>>
        BY <1>4
    <2>3. Fits(0) <=> Tokens(chunks, e) =< room
        OBVIOUS
    <2> HIDE DEF e, Fits
    <2>4. Tokens(chunks, e) = 0
        BY <2>1, <2>2
    <2> QED
        BY <2>3, <2>4
<1> HIDE DEF Fits, all
<1>6. k \in S
    <2> HIDE DEF S
    <2> QED
        BY <1>1, <1>2, MaxExists
<1>7. k \in 0..all /\ Fits(k)
    <2> HIDE DEF k
    <2> QED
        BY <1>1, <1>5, <1>6
<1> HIDE DEF k, S
<1>8. k \in Nat /\ k =< Len(s)
    BY <1>1, <1>7 DEF all
<1>9. t \in Seq(I) /\ Len(t) = k
    BY <1>1, <1>8, PrefixIs
<1>10. SubSeq(t, 1, k) = t
    <2> HIDE DEF t
    <2> QED
        BY <1>9, SubSeqFull
<1>11. IsPrefix(t, s)
    <2>1. SubSeq(t, 1, Len(t)) = SubSeq(s, 1, Len(t)) /\ Len(t) =< Len(s)
        BY <1>8, <1>9, <1>10
    <2> QED
        BY <2>1 DEF IsPrefix
<1> QED
    BY <1>3, <1>7, <1>11 DEF Fits

\* Every search is answered as RetrievalFills says.
LEMMA SearchFills ==
    ASSUME NEW chunks \in ChunkSets, NEW terms \in Nat, NEW topK \in Budgets,
           NEW maxTokens \in Budgets, NEW maxChunks \in Budgets, NEW room \in Budgets
    PROVE  LET r == Retrieve(chunks, terms, topK, maxTokens, maxChunks) IN
           Fills(chunks, terms, topK, maxTokens, maxChunks, room, r, Enrich(chunks, r.selected, room))
<1> DEFINE n == Len(chunks)
           ranked == Rank(chunks, terms)
           top == Min({topK, Len(ranked)})
           retrieved == SubSeq(ranked, 1, top)
           limit == Min({maxChunks, topK})
           selected == Select(chunks, retrieved, maxTokens, limit)
           r == Retrieve(chunks, terms, topK, maxTokens, maxChunks)
           kept == Enrich(chunks, selected, room)
           used == Tokens(chunks, selected)
           left == {i \in ToSet(retrieved) : i \notin ToSet(selected)}
<1>1. chunks \in Seq(Chunks) /\ topK \in Nat /\ maxTokens \in Nat /\ maxChunks \in Nat /\ room \in Nat
    BY RetrievalAssumption
<1>2. n \in Nat /\ DOMAIN chunks = 1..n
    BY <1>1
<1>3. r = [retrieved |-> retrieved, selected |-> selected, warned |-> Len(selected) < Len(retrieved)]
    BY DEF Retrieve
<1>4. r.retrieved = retrieved /\ r.selected = selected /\ (r.warned <=> Len(selected) < Len(retrieved))
    <2> HIDE DEF r, retrieved, selected
    <2> QED
        BY <1>3
<1>5. /\ ranked \in [1..n -> 1..n]
      /\ \A i \in 1..n : \E k \in 1..n : ranked[k] = i
      /\ \A j, k \in 1..n : ranked[j] = ranked[k] => j = k
      /\ \A j, k \in 1..n : j < k => Score(chunks[ranked[k]], terms) =< Score(chunks[ranked[j]], terms)
    BY <1>1, RankIs
<1> HIDE DEF ranked, r
<1>6. ranked \in Seq(1..n) /\ Len(ranked) = n
    <2> HIDE DEF n
    <2> QED
        BY <1>2, <1>5, ListIs
<1>7. limit \in Nat
    <2>1. topK \in Int /\ maxChunks \in Int
        BY <1>1
    <2>2. limit = IF maxChunks =< topK THEN maxChunks ELSE topK
        BY <2>1, OfTwo
    <2> HIDE DEF limit
    <2> QED
        BY <1>1, <2>2
<1>8. top \in Nat /\ top =< n
    <2> DEFINE size == Len(ranked)
    <2>1. topK \in Int /\ size \in Int
        BY <1>1, <1>2, <1>6
    <2>2. size = n
        BY <1>6
    <2> HIDE DEF size
    <2>3. top = IF topK =< size THEN topK ELSE size
        BY <2>1, OfTwo DEF size
    <2> HIDE DEF top, n
    <2> QED
        BY <1>1, <1>2, <2>2, <2>3
<1> HIDE DEF top, limit
<1>9. /\ retrieved \in Seq(1..n) /\ Len(retrieved) = top /\ DOMAIN retrieved = 1..top
      /\ \A k \in 1..top : retrieved[k] = ranked[k]
    <2> DEFINE I == 1..n
    <2>1. ranked \in Seq(I) /\ top \in Nat /\ top =< Len(ranked)
        BY <1>6, <1>8
    <2> HIDE DEF I
    <2>2. /\ retrieved \in Seq(I) /\ Len(retrieved) = top /\ DOMAIN retrieved = 1..top
          /\ \A k \in 1..top : retrieved[k] = ranked[k]
        BY <2>1, PrefixIs
    <2> QED
        BY <2>2 DEF I
<1> HIDE DEF retrieved
<1>10. /\ retrieved \in [1..top -> 1..n]
       /\ \A j, k \in 1..top : retrieved[j] = retrieved[k] => j = k
    <2>1. \A k \in 1..top : k \in 1..n
        BY <1>2, <1>8
    <2> QED
        BY <1>5, <1>9, <2>1
<1>11. Taken(selected, retrieved, top, chunks, maxTokens, limit)
    BY <1>1, <1>7, <1>8, <1>10, SelectFills
<1> HIDE DEF selected
<1>12. /\ selected \in Seq(1..n) /\ Len(selected) =< limit /\ used =< maxTokens
       /\ \A j \in 1..top :
            \/ Among(retrieved[j], selected)
            \/ Len(selected) = limit
            \/ used + chunks[retrieved[j]].tokens > maxTokens
       /\ Len(selected) < top <=> \E j \in 1..top : ~ Among(retrieved[j], selected)
    BY <1>11 DEF Taken
<1>13. /\ \A x : x \in ToSet(selected) <=> Among(x, selected)
       /\ \A x : x \in ToSet(retrieved) <=> Among(x, retrieved)
    BY <1>9, <1>12, ToSetIs
<1>14. \A x : x \in ToSet(retrieved) <=> \E j \in 1..top : retrieved[j] = x
    BY <1>9, <1>13 DEF Among
<1>15. \A i \in left : Len(selected) = limit \/ used + chunks[i].tokens > maxTokens
    BY <1>12, <1>13, <1>14
<1>16. r.warned <=> left # {}
    <2>1. left # {} <=> \E j \in 1..top : ~ Among(retrieved[j], selected)
        BY <1>13, <1>14
    <2> QED
        BY <1>4, <1>9, <1>12, <2>1
<1>17. IsPrefix(kept, selected) /\ Tokens(chunks, kept) =< room
    BY <1>1, <1>12, EnrichFits
<1>18. ASSUME NEW i \in DOMAIN chunks \ ToSet(retrieved), NEW j \in ToSet(retrieved)
       PROVE  Score(chunks[i], terms) =< Score(chunks[j], terms)
    <2>1. PICK k \in 1..n : ranked[k] = i
        BY <1>2, <1>5
    <2>2. PICK l \in 1..top : retrieved[l] = j
        BY <1>14
    <2>3. ~ (k =< top)
        <3>1. ASSUME k =< top PROVE FALSE
            <4>1. k \in 1..top
                BY <1>8, <2>1, <3>1
            <4>2. retrieved[k] = i
                BY <1>9, <2>1, <4>1
            <4> QED
                BY <1>14, <4>1, <4>2
        <3> QED
            BY <3>1
    <2>4. l \in 1..n /\ l < k /\ ranked[l] = j
        BY <1>2, <1>8, <1>9, <2>1, <2>2, <2>3
    <2> QED
        BY <1>5, <2>1, <2>4
<1> HIDE DEF kept, used, left
<1>19. LET rr == [retrieved |-> retrieved, selected |-> selected, warned |-> r.warned] IN
       Fills(chunks, terms, topK, maxTokens, maxChunks, room, rr, kept)
    BY <1>12, <1>15, <1>16, <1>17, <1>18 DEF Fills, limit, used, left
<1>20. r = [retrieved |-> retrieved, selected |-> selected, warned |-> r.warned]
    BY <1>3
<1>21. Fills(chunks, terms, topK, maxTokens, maxChunks, room, r, kept)
    BY <1>19, <1>20
<1>22. kept = Enrich(chunks, r.selected, room)
    BY <1>4 DEF kept
<1> QED
    BY <1>21, <1>22 DEF r

\* A text is cut into chunks that cover it without a gap, and a search takes
\* of the best chunks all that fit: nothing is lost unsaid on the way of a
\* text into a prompt, for any size of a chunk, any texts and any budgets.
THEOREM RetrievalCorrect == RetrievalSpec => []RetrievalSound
<1>1. RetrievalInit => RetrievalSound
    BY DEF RetrievalInit, Nothing, RetrievalSound, ChunksCover, RetrievalFills
<1>2. ASSUME RetrievalSound, [RetrievalNext]_found PROVE RetrievalSound'
    <2>1. CASE CutText
        <3>1. PICK card \in BOOLEAN, n \in 1..MaxParagraphs :
              \E lengths \in [1..n -> 1..MaxParagraph], tails \in [1..n -> 0..(OverlapChars + 1)] :
                found' = [fn |-> "cut", lengths |-> lengths, tails |-> tails,
                          chunks |-> ChunkDocument(card, lengths, tails)]
            BY <2>1 DEF CutText
        <3>2. PICK lengths \in [1..n -> 1..MaxParagraph], tails \in [1..n -> 0..(OverlapChars + 1)] :
                found' = [fn |-> "cut", lengths |-> lengths, tails |-> tails,
                          chunks |-> ChunkDocument(card, lengths, tails)]
            BY <3>1
        <3> DEFINE s == ChunkDocument(card, lengths, tails)
        <3>3. n \in Nat \ {0} /\ lengths \in [1..n -> Nat \ {0}] /\ tails \in [1..n -> Nat]
            BY RetrievalAssumption
        <3>4. /\ Covers(s, 1, Total(lengths))
              /\ (\A k \in 1..n : tails[k] =< OverlapChars) => Sized(s, ChunkChars + OverlapChars)
            BY <3>3, DocumentCovers
        <3>5. DOMAIN tails = 1..n
            OBVIOUS
        <3> HIDE DEF s
        <3>6. /\ found'.fn = "cut" /\ found'.chunks = s /\ found'.lengths = lengths /\ found'.tails = tails
            BY <3>2 DEF s
        <3>7. DOMAIN s = 1..Len(s)
            BY <3>4 DEF Covers
        <3>8. ChunksCover'
            BY <3>4, <3>5, <3>6, <3>7 DEF ChunksCover, Covers, Sized
        <3>9. RetrievalFills'
            BY <3>6 DEF RetrievalFills
        <3> QED
            BY <3>8, <3>9 DEF RetrievalSound
    <2>2. CASE Search
        <3>1. PICK chunks \in ChunkSets, terms \in 0..2, topK \in Budgets, maxTokens \in Budgets,
                   maxChunks \in Budgets, room \in Budgets :
                LET result == Retrieve(chunks, terms, topK, maxTokens, maxChunks)
                IN  found' = [fn |-> "search", chunks |-> chunks, terms |-> terms, topK |-> topK,
                              maxTokens |-> maxTokens, maxChunks |-> maxChunks, room |-> room,
                              result |-> result, kept |-> Enrich(chunks, result.selected, room)]
            BY <2>2 DEF Search
        <3> DEFINE r == Retrieve(chunks, terms, topK, maxTokens, maxChunks)
                   kept == Enrich(chunks, r.selected, room)
        <3>2. terms \in Nat
            OBVIOUS
        <3>3. Fills(chunks, terms, topK, maxTokens, maxChunks, room, r, kept)
            BY <3>2, SearchFills
        <3> HIDE DEF r, kept
        <3>4. /\ found'.fn = "search" /\ found'.chunks = chunks /\ found'.terms = terms
              /\ found'.topK = topK /\ found'.maxTokens = maxTokens /\ found'.maxChunks = maxChunks
              /\ found'.room = room /\ found'.result = r /\ found'.kept = kept
            BY <3>1 DEF r, kept
        <3>5. RetrievalFills'
            BY <3>3, <3>4 DEF RetrievalFills, Fills
        <3>6. ChunksCover'
            BY <3>4 DEF ChunksCover
        <3> QED
            BY <3>5, <3>6 DEF RetrievalSound
    <2>3. CASE found' = found
        BY <1>2, <2>3 DEF RetrievalSound, ChunksCover, RetrievalFills
    <2> QED
        BY <1>2, <2>1, <2>2, <2>3 DEF RetrievalNext
<1> QED
    BY <1>1, <1>2, PTL DEF RetrievalSpec

-----------------------------------------------------------------------------
(* The material of a prompt.                                               *)

\* Ranking keeps the items, and puts no item before one of a lesser key.
LEMMA RankedAre ==
    ASSUME NEW T, NEW items \in Seq(T), NEW w \in Nat, NEW keys, DOMAIN keys = DOMAIN items,
           \A n \in DOMAIN items : keys[n] \in [1..w -> Int]
    PROVE  /\ Ranked(items, keys) \in Seq(T) /\ Len(Ranked(items, keys)) = Len(items)
           /\ \A x : Among(x, Ranked(items, keys)) <=> Among(x, items)
           /\ \A n \in DOMAIN items : \E k \in DOMAIN items :
                /\ Ranked(items, keys)[1] = items[k]
                /\ k = n \/ Precedes(keys, k, n)
<1> DEFINE N == Len(items)
           f == Sorted(keys)
           r == Ranked(items, keys)
<1>1. N \in Nat /\ DOMAIN items = 1..N /\ \A n \in 1..N : items[n] \in T
    OBVIOUS
<1> HIDE DEF N
<1>2. DOMAIN keys = 1..N /\ \A n \in 1..N : keys[n] \in [1..w -> Int]
    BY <1>1
<1>3. Orders(f, N, keys)
    BY <1>1, <1>2, SortedIs
<1>4. r = [n \in 1..N |-> items[f[n]]]
    BY <1>1 DEF Ranked
<1> HIDE DEF f, r
<1>5. /\ f \in [1..N -> 1..N]
      /\ \A i \in 1..N : \E k \in 1..N : f[k] = i
      /\ \A j, k \in 1..N : j < k => Precedes(keys, f[j], f[k])
    BY <1>3 DEF Orders
<1>6. r \in [1..N -> T]
    BY <1>1, <1>4, <1>5
<1>7. r \in Seq(T) /\ Len(r) = N /\ DOMAIN r = 1..N
    BY <1>1, <1>6, ListIs
<1>8. \A x : Among(x, r) <=> Among(x, items)
    <2>1. ASSUME NEW x, Among(x, r) PROVE Among(x, items)
        <3>1. PICK n \in 1..N : r[n] = x
            BY <1>7, <2>1 DEF Among
        <3>2. f[n] \in 1..N /\ items[f[n]] = x
            BY <1>4, <1>5, <3>1
        <3> QED
            BY <1>1, <3>2 DEF Among
    <2>2. ASSUME NEW x, Among(x, items) PROVE Among(x, r)
        <3>1. PICK i \in 1..N : items[i] = x
            BY <1>1, <2>2 DEF Among
        <3>2. PICK n \in 1..N : f[n] = i
            BY <1>5
        <3>3. r[n] = x
            BY <1>4, <3>1, <3>2
        <3> QED
            BY <1>7, <3>3 DEF Among
    <2> QED
        BY <2>1, <2>2
<1>9. ASSUME NEW n \in 1..N
      PROVE  \E k \in 1..N : r[1] = items[k] /\ (k = n \/ Precedes(keys, k, n))
    <2>1. 1 \in 1..N
        BY <1>1
    <2>2. f[1] \in 1..N /\ r[1] = items[f[1]]
        BY <1>4, <1>5, <2>1
    <2>3. PICK j \in 1..N : f[j] = n
        BY <1>5
    <2>4. j = 1 \/ 1 < j
        BY <1>1
    <2>5. f[1] = n \/ Precedes(keys, f[1], n)
        BY <1>5, <2>1, <2>3, <2>4
    <2> QED
        BY <2>2, <2>5
<1> QED
    BY <1>1, <1>7, <1>8, <1>9 DEF r, N

\* A cut keeps a beginning of the items, the first one whatever the limit is.
LEMMA CutIs ==
    ASSUME NEW T, NEW items \in Seq(T), NEW limit \in Nat
    PROVE  /\ Cut(items, limit) \in Seq(T)
           /\ \A x : Among(x, Cut(items, limit)) => Among(x, items)
           /\ limit # 0 /\ Len(items) # 0 => Len(Cut(items, limit)) # 0 /\ Cut(items, limit)[1] = items[1]
<1> DEFINE N == Len(items)
           m == Min({limit, N})
           c == SubSeq(items, 1, m)
<1>1. N \in Nat /\ DOMAIN items = 1..N
    OBVIOUS
<1>2. Cut(items, limit) = c
    BY DEF Cut
<1> HIDE DEF N
<1>3. m = IF limit =< N THEN limit ELSE N
    BY <1>1, OfTwo
<1> HIDE DEF m
<1>4. m \in Nat /\ m =< N /\ (limit # 0 /\ N # 0 => m # 0)
    BY <1>1, <1>3
<1>5. m =< Len(items)
    BY <1>4 DEF N
<1>6. c \in Seq(T) /\ Len(c) = m /\ DOMAIN c = 1..m /\ \A k \in 1..m : c[k] = items[k]
    BY <1>4, <1>5, PrefixIs
<1> HIDE DEF c
<1>7. ASSUME NEW x, Among(x, c) PROVE Among(x, items)
    <2>1. PICK k \in 1..m : c[k] = x
        BY <1>6, <1>7 DEF Among
    <2>2. k \in 1..N /\ items[k] = x
        BY <1>1, <1>4, <1>6, <2>1
    <2> QED
        BY <1>1, <2>2 DEF Among
<1>8. limit # 0 /\ N # 0 => Len(c) # 0 /\ c[1] = items[1]
    <2>1. limit # 0 /\ N # 0 => 1 \in 1..m
        BY <1>4
    <2> QED
        BY <1>4, <1>6, <2>1
<1> QED
    BY <1>2, <1>6, <1>7, <1>8 DEF N

\* A text of items is empty when there are none, and is not otherwise.
LEMMA WorldIs ==
    ASSUME NEW T, NEW items \in Seq(T), \A n \in DOMAIN items : items[n].size \in Nat
    PROVE  World(items) \in Nat /\ (World(items) = 0 <=> items = <<>>)
<1> DEFINE N == Len(items)
           sizes == [n \in DOMAIN items |-> items[n].size]
<1>1. N \in Nat /\ DOMAIN items = 1..N /\ (N = 0 <=> items = <<>>)
    OBVIOUS
<1>2. sizes \in [1..N -> Nat]
    BY <1>1
<1>3. World(items) = IF sizes = <<>> THEN 0 ELSE 1 + Total(sizes)
    BY DEF World, Format
<1> HIDE DEF sizes, N
<1>4. sizes \in Seq(Nat) /\ Len(sizes) = N
    BY <1>1, <1>2, ListIs
<1>5. Total(sizes) \in Nat /\ (sizes = <<>> <=> N = 0)
    BY <1>4, TotalNat
<1> QED
    BY <1>1, <1>3, <1>5

\* The entries of the ids of a list.
LEMMA IdsAre ==
    ASSUME NEW T, NEW items \in Seq(T)
    PROVE  /\ Len(Ids(items)) = Len(items) /\ DOMAIN Ids(items) = DOMAIN items
           /\ Ids(items) \in Seq({x.id : x \in T})
           /\ \A n \in DOMAIN items : Ids(items)[n] = items[n].id
           /\ Ids(items) = <<>> <=> items = <<>>
<1> DEFINE N == Len(items)
           X == {x.id : x \in T}
           s == Ids(items)
<1>1. N \in Nat /\ DOMAIN items = 1..N /\ (N = 0 <=> items = <<>>) /\ \A n \in 1..N : items[n] \in T
    OBVIOUS
<1>2. s = [n \in 1..N |-> items[n].id]
    BY <1>1 DEF Ids
<1>3. \A n \in 1..N : items[n].id \in X
    BY <1>1
<1> HIDE DEF N, s, X
<1>4. s \in [1..N -> X] /\ \A n \in 1..N : s[n] = items[n].id
    BY <1>2, <1>3
<1>5. s \in Seq(X) /\ Len(s) = N /\ DOMAIN s = 1..N
    BY <1>1, <1>4, ListIs
<1>6. s = <<>> <=> N = 0
    BY <1>5
<1> QED
    BY <1>1, <1>4, <1>5, <1>6 DEF N, s, X

\* The character the scene is told by is the first of those selected.
LEMMA CharactersAre ==
    ASSUME NEW items \in Seq(CharacterRows), NEW pov \in Nat, NEW related
    PROVE  LET s == SelectCharacters(items, pov, related) IN
           /\ s \in Seq(CharacterRows)
           /\ (\E n \in DOMAIN items : items[n].id = pov) => Len(s) # 0 /\ s[1].id = pov
<1> DEFINE First(c) == IF c.id = pov THEN 0 ELSE IF c.id \in related THEN 1 ELSE IF c.main THEN 2 ELSE 3
           keys == [n \in DOMAIN items |-> <<First(items[n]), items[n].id>>]
           r == Ranked(items, keys)
           s == SelectCharacters(items, pov, related)
           two == 2
<1>1. s = Cut(r, CharacterLimit)
    BY DEF SelectCharacters
<1>2. CharacterLimit \in Nat \ {0}
    BY ContextAssumption
<1>3. DOMAIN items = 1..Len(items) /\ Len(items) \in Nat /\ \A n \in DOMAIN items : items[n] \in CharacterRows
    OBVIOUS
<1>4. \A n \in DOMAIN items : items[n].id \in Nat
    BY <1>3 DEF CharacterRows
<1>5. \A n \in DOMAIN items : First(items[n]) \in 0..3 /\ (First(items[n]) = 0 <=> items[n].id = pov)
    OBVIOUS
<1> HIDE DEF First
<1>6. \A n \in DOMAIN items : keys[n] = <<First(items[n]), items[n].id>>
    OBVIOUS
<1>7. DOMAIN keys = DOMAIN items
    OBVIOUS
<1>8. two \in Nat /\ \A n \in DOMAIN items : keys[n] \in [1..two -> Int]
    BY <1>4, <1>5, <1>6
<1>9. \A n \in DOMAIN items : keys[n][1] = First(items[n])
    BY <1>6
<1> HIDE DEF keys, two, r, s
<1>10. /\ r \in Seq(CharacterRows) /\ Len(r) = Len(items)
       /\ \A n \in DOMAIN items : \E k \in DOMAIN items :
            r[1] = items[k] /\ (k = n \/ Precedes(keys, k, n))
    BY <1>7, <1>8, RankedAre DEF r
<1>11. /\ s \in Seq(CharacterRows)
       /\ CharacterLimit # 0 /\ Len(r) # 0 => Len(s) # 0 /\ s[1] = r[1]
    BY <1>1, <1>2, <1>10, CutIs
<1>12. ASSUME NEW n \in DOMAIN items, items[n].id = pov PROVE Len(s) # 0 /\ s[1].id = pov
    <2>1. Len(r) # 0
        BY <1>3, <1>10
    <2>2. Len(s) # 0 /\ s[1] = r[1]
        BY <1>2, <1>11, <2>1
    <2>3. PICK k \in DOMAIN items : r[1] = items[k] /\ (k = n \/ Precedes(keys, k, n))
        BY <1>10
    <2>4. items[k].id = pov
        <3>1. CASE k = n
            BY <1>12, <3>1
        <3>2. CASE Precedes(keys, k, n)
            <4> DEFINE x == keys[k]
                       y == keys[n]
            <4>1. Less(x, y) \/ x = y
                BY <3>2 DEF Precedes
            <4>2. x \in [1..2 -> Int] /\ y \in [1..2 -> Int] /\ x[1] = First(items[k]) /\ y[1] = 0
                BY <1>5, <1>8, <1>9, <1>12 DEF two
            <4> HIDE DEF x, y
            <4>3. x[1] =< 0
                <5>1. CASE x = y
                    BY <4>2, <5>1
                <5>2. CASE Less(x, y)
                    <6>1. PICK j \in DOMAIN x : x[j] < y[j] /\ \A l \in 1..(j - 1) : x[l] = y[l]
                        BY <5>2 DEF Less
                    <6>2. j \in 1..2
                        BY <4>2
                    <6>3. CASE j = 1
                        BY <4>2, <6>1, <6>3
                    <6>4. CASE j # 1
                        <7>1. 1 \in 1..(j - 1)
                            BY <6>2, <6>4
                        <7>2. x[1] = y[1]
                            BY <6>1, <7>1
                        <7> QED
                            BY <4>2, <7>2
                    <6> QED
                        BY <6>3, <6>4
                <5> QED
                    BY <4>1, <5>1, <5>2
            <4>4. First(items[k]) = 0
                <5>1. First(items[k]) \in 0..3
                    BY <1>5
                <5> QED
                    BY <4>2, <4>3, <5>1
            <4> QED
                BY <1>5, <4>4
        <3> QED
            BY <2>3, <3>1, <3>2
    <2> QED
        BY <2>2, <2>3, <2>4
<1> QED
    BY <1>11, <1>12 DEF s

\* What is selected of the world entries and of the plot threads are rows.
LEMMA WorldEntriesAre ==
    ASSUME NEW items \in Seq(WorldRows)
    PROVE  SelectWorld(items) \in Seq(WorldRows)
<1> DEFINE Key(w) == <<IF w.here THEN 0 ELSE 1, -w.priority, w.category, w.id>>
           keys == [n \in DOMAIN items |-> Key(items[n])]
           r == Ranked(items, keys)
           four == 4
<1>1. SelectWorld(items) = Cut(r, WorldLimit) /\ WorldLimit \in Nat
    BY ContextAssumption DEF SelectWorld
<1>2. \A n \in DOMAIN items : items[n] \in WorldRows
    OBVIOUS
<1>3. \A n \in DOMAIN items : items[n].priority \in Int /\ items[n].category \in Int /\ items[n].id \in Nat
    BY <1>2 DEF WorldRows
<1>4. DOMAIN keys = DOMAIN items /\ four \in Nat
    OBVIOUS
<1>5. \A n \in DOMAIN items : keys[n] \in [1..four -> Int]
    <2> SUFFICES ASSUME NEW n \in DOMAIN items PROVE keys[n] \in [1..four -> Int]
        OBVIOUS
    <2> DEFINE a == IF items[n].here THEN 0 ELSE 1
               b == -items[n].priority
    <2>1. a \in Int /\ b \in Int /\ items[n].category \in Int /\ items[n].id \in Int
        BY <1>3
    <2>2. keys[n] = <<a, b, items[n].category, items[n].id>>
        OBVIOUS
    <2> HIDE DEF a, b, keys
    <2> QED
        BY <2>1, <2>2
<1> HIDE DEF keys, four
<1>6. r \in Seq(WorldRows)
    BY <1>4, <1>5, RankedAre
<1> HIDE DEF r
<1> QED
    BY <1>1, <1>6, CutIs

\* The plot threads that are selected are rows.
LEMMA PlotThreadsAre ==
    ASSUME NEW items \in Seq(PlotRows), NEW selected
    PROVE  SelectPlots(items, selected) \in Seq(PlotRows)
<1> DEFINE going == Those(items, {n \in DOMAIN items : items[n].status \in {"open", "in_progress"}})
           Key(p) == <<IF p.status = "in_progress" THEN 0 ELSE 1, IF p.related \cap selected # {} THEN 0 ELSE 1,
                       -p.priority, p.id>>
           keys == [n \in DOMAIN going |-> Key(going[n])]
           r == Ranked(going, keys)
           four == 4
<1>1. SelectPlots(items, selected) = Cut(r, PlotLimit) /\ PlotLimit \in Nat
    BY ContextAssumption DEF SelectPlots
<1>2. going \in Seq(PlotRows)
    BY ThoseAre
<1> HIDE DEF going
<1>3. \A n \in DOMAIN going : going[n] \in PlotRows
    BY <1>2
<1>4. \A n \in DOMAIN going : going[n].priority \in Int /\ going[n].id \in Nat
    BY <1>3 DEF PlotRows
<1>5. DOMAIN keys = DOMAIN going /\ four \in Nat
    OBVIOUS
<1>6. \A n \in DOMAIN going : keys[n] \in [1..four -> Int]
    <2> SUFFICES ASSUME NEW n \in DOMAIN going PROVE keys[n] \in [1..four -> Int]
        OBVIOUS
    <2> DEFINE a == IF going[n].status = "in_progress" THEN 0 ELSE 1
               b == IF going[n].related \cap selected # {} THEN 0 ELSE 1
               c == -going[n].priority
    <2>1. a \in Int /\ b \in Int /\ c \in Int /\ going[n].id \in Int
        BY <1>4
    <2>2. keys[n] = <<a, b, c, going[n].id>>
        OBVIOUS
    <2> HIDE DEF a, b, c, keys
    <2> QED
        BY <2>1, <2>2
<1> HIDE DEF keys, four
<1>7. r \in Seq(PlotRows)
    BY <1>2, <1>5, <1>6, RankedAre
<1> HIDE DEF r
<1> QED
    BY <1>1, <1>7, CutIs

\* Of the events only those are selected that are not of a later chapter.
LEMMA TimelineIs ==
    ASSUME NEW items \in Seq(EventRows), NEW ours, NEW scene, NEW chapters
    PROVE  LET s == SelectTimeline(items, ours, scene, chapters) IN
           /\ s \in Seq(EventRows)
           /\ \A x : Among(x, s) => \E n \in DOMAIN items : items[n] = x /\ ~ Later(x, ours, chapters)
<1> DEFINE Related(e) == e.scene = scene.id \/ e.chapter = ours.id
           S == {n \in DOMAIN items : ~ Later(items[n], ours, chapters)}
           eligible == Those(items, S)
           keys1 == [n \in DOMAIN eligible |-> <<IF Related(eligible[n]) THEN 0 ELSE 1, -eligible[n].order>>]
           r1 == Ranked(eligible, keys1)
           chosen == Cut(r1, TimelineLimit)
           keys2 == [n \in DOMAIN chosen |-> <<chosen[n].order>>]
           r2 == Ranked(chosen, keys2)
           two == 2
           one == 1
<1>1. SelectTimeline(items, ours, scene, chapters) = r2 /\ TimelineLimit \in Nat
    BY ContextAssumption DEF SelectTimeline
<1>2. /\ eligible \in Seq(EventRows)
      /\ \A x : Among(x, eligible) <=> \E i \in DOMAIN items : i \in S /\ items[i] = x
    <2> HIDE DEF S
    <2> QED
        BY ThoseAre
<1> HIDE DEF eligible
<1>3. \A n \in DOMAIN eligible : eligible[n].order \in Int
    <2>1. \A n \in DOMAIN eligible : eligible[n] \in EventRows
        BY <1>2
    <2> QED
        BY <2>1 DEF EventRows
<1>4. DOMAIN keys1 = DOMAIN eligible /\ two \in Nat
    OBVIOUS
<1>5. \A n \in DOMAIN eligible : keys1[n] \in [1..two -> Int]
    <2> SUFFICES ASSUME NEW n \in DOMAIN eligible PROVE keys1[n] \in [1..two -> Int]
        OBVIOUS
    <2> DEFINE a == IF Related(eligible[n]) THEN 0 ELSE 1
               b == -eligible[n].order
    <2>1. a \in Int /\ b \in Int
        BY <1>3
    <2>2. keys1[n] = <<a, b>>
        OBVIOUS
    <2> HIDE DEF a, b, keys1
    <2> QED
        BY <2>1, <2>2
<1> HIDE DEF keys1, two
<1>6. r1 \in Seq(EventRows) /\ \A x : Among(x, r1) <=> Among(x, eligible)
    BY <1>2, <1>4, <1>5, RankedAre
<1> HIDE DEF r1
<1>7. chosen \in Seq(EventRows) /\ \A x : Among(x, chosen) => Among(x, r1)
    BY <1>1, <1>6, CutIs
<1> HIDE DEF chosen
<1>8. \A n \in DOMAIN chosen : chosen[n].order \in Int
    <2>1. \A n \in DOMAIN chosen : chosen[n] \in EventRows
        BY <1>7
    <2> QED
        BY <2>1 DEF EventRows
<1>9. DOMAIN keys2 = DOMAIN chosen /\ one \in Nat
    OBVIOUS
<1>10. \A n \in DOMAIN chosen : keys2[n] \in [1..one -> Int]
    BY <1>8
<1> HIDE DEF keys2, one
<1>11. r2 \in Seq(EventRows) /\ \A x : Among(x, r2) <=> Among(x, chosen)
    BY <1>7, <1>9, <1>10, RankedAre
<1> HIDE DEF r2
<1>12. ASSUME NEW x, Among(x, r2)
       PROVE  \E n \in DOMAIN items : items[n] = x /\ ~ Later(x, ours, chapters)
    <2>1. PICK i \in DOMAIN items : i \in S /\ items[i] = x
        BY <1>2, <1>6, <1>7, <1>11, <1>12
    <2> QED
        BY <2>1
<1> QED
    BY <1>1, <1>11, <1>12

\* A number of a row of the chapter before, whatever chapter it is.
LEMMA PreviousIs ==
    ASSUME NEW chapters \in Seq(ChapterRows), NEW ours
    PROVE  SelectPrevious(chapters, ours).text \in Nat
<1> DEFINE before == Those(chapters, {n \in DOMAIN chapters : chapters[n].index = ours.index - 1})
           previous == IF ours.id = 0 \/ before = <<>> THEN NoChapter ELSE before[1]
           start == Min({previous.content, FallbackChars})
           text == IF previous.summary > 0 THEN previous.summary ELSE start
<1>1. before \in Seq(ChapterRows)
    BY ThoseAre
<1> HIDE DEF before
<1>2. previous \in ChapterRows
    <2>1. NoChapter \in ChapterRows
        BY DEF NoChapter, ChapterRows
    <2>2. before # <<>> => before[1] \in ChapterRows
        BY <1>1, EmptySeq
    <2> QED
        BY <2>1, <2>2
<1>3. SelectPrevious(chapters, ours).text = text
    BY DEF SelectPrevious, before
<1> HIDE DEF previous
<1>4. previous.content \in Nat /\ previous.summary \in Nat
    BY <1>2 DEF ChapterRows
<1> DEFINE content == previous.content
<1>5. content \in Int /\ FallbackChars \in Nat /\ content >= 0
    BY <1>4, ContextAssumption
<1> HIDE DEF content
<1>6. Min({content, FallbackChars}) = IF content =< FallbackChars THEN content ELSE FallbackChars
    BY <1>5, OfTwo
<1>7. start \in Nat
    BY <1>5, <1>6 DEF content
<1> HIDE DEF start
<1> QED
    BY <1>3, <1>4, <1>7

\* Names of the variables of a context.
Names == {"chapter_outline", "previous_chapter_summary", "previous_chapter_title", "scene_outline",
          "characters", "main_characters", "pov_character", "world_setting", "plot_threads", "timeline"}

\* What was gathered: the material and the variables that say how long it is.
Gathered(g, p, user) ==
  /\ g.world \in Seq(WorldRows) /\ g.plots \in Seq(PlotRows) /\ g.timeline \in Seq(EventRows)
  /\ g.characters \in Seq(CharacterRows) /\ g.mains \in Seq(CharacterRows)
  /\ \A x : Among(x, g.timeline) => \E n \in DOMAIN p.timeline : p.timeline[n] = x /\ ~ Later(x, p.chapter, p.chapters)
  /\ g.variables \in [Names -> Int]
  /\ "world_setting" \notin user => g.variables.world_setting = World(g.world)
  /\ "timeline" \notin user => g.variables.timeline = World(g.timeline)
  /\ "plot_threads" \notin user => g.variables.plot_threads = World(g.plots)
  /\ \A x \in {"chapter_outline", "previous_chapter_summary"} : g.variables[x] \in Nat
  /\ "pov_character" \notin user =>
       \A n \in DOMAIN p.characters : p.characters[n].id = p.scene.pov => g.variables.pov_character > 0

\* The rows of each kind have sizes.
LEMMA SizesAre ==
    /\ \A x \in CharacterRows : x.size \in Nat /\ x.background \in Nat /\ x.id \in Nat
    /\ \A x \in WorldRows : x.size \in Nat
    /\ \A x \in PlotRows : x.size \in Nat
    /\ \A x \in EventRows : x.size \in Nat
BY DEF CharacterRows, WorldRows, PlotRows, EventRows

\* A text of characters is empty when there are none, and is not otherwise.
LEMMA CharactersTextIs ==
    ASSUME NEW items \in Seq(CharacterRows)
    PROVE  /\ Characters(items, FALSE) \in Nat /\ Characters(items, TRUE) \in Int
           /\ Characters(items, FALSE) = 0 <=> items = <<>>
<1>1. \A n \in DOMAIN items : items[n].size \in Nat /\ items[n].background \in Nat
    <2>1. \A n \in DOMAIN items : items[n] \in CharacterRows
        OBVIOUS
    <2> QED
        BY <2>1, SizesAre
<1>2. Characters(items, FALSE) = World(items)
    BY DEF Characters
<1>3. World(items) \in Nat /\ (World(items) = 0 <=> items = <<>>)
    BY <1>1, WorldIs
<1>4. Characters(items, TRUE) \in Int
    <2> DEFINE N == Len(items)
               sizes == [n \in DOMAIN items |-> items[n].size - items[n].background]
    <2>1. N \in Nat /\ DOMAIN items = 1..N
        OBVIOUS
    <2>2. sizes \in [1..N -> Int]
        BY <1>1, <2>1
    <2> DEFINE c == Characters(items, TRUE)
               all == Total(sizes)
    <2>3. c = IF sizes = <<>> THEN 0 ELSE 1 + all
        BY DEF Characters, Format
    <2> HIDE DEF sizes, N, c
    <2>4. sizes \in Seq(Int)
        BY <2>1, <2>2, ListIs
    <2>5. all \in Int
        BY <2>4, TotalIs
    <2> HIDE DEF all
    <2>6. c \in Int
        BY <2>3, <2>5
    <2> QED
        BY <2>6 DEF c
<1> QED
    BY <1>2, <1>3, <1>4

\* What is gathered for a call, of whatever project.
LEMMA GatherIs ==
    ASSUME NEW p \in Projects, NEW user
    PROVE  Gathered(Gather(p, user), p, user)
<1> DEFINE related == UNION {p.plots[n].related : n \in DOMAIN p.plots}
           characters == SelectCharacters(p.characters, p.scene.pov, related)
           mains == Those(characters, {n \in DOMAIN characters : characters[n].main})
           povs == Those(characters, {n \in DOMAIN characters : characters[n].id = p.scene.pov})
           world == SelectWorld(p.world)
           plots == SelectPlots(p.plots, ToSet(Ids(characters)))
           timeline == SelectTimeline(p.timeline, p.chapter, p.scene, p.chapters)
           previous == SelectPrevious(p.chapters, p.chapter)
           title == IF previous.chapter.id = 0 THEN 0 ELSE 1
           cs == Characters(characters, FALSE)
           ms == Characters(mains, FALSE)
           ps == Characters(povs, FALSE)
           own == [chapter_outline |-> p.chapter.outline, previous_chapter_summary |-> previous.text,
                   previous_chapter_title |-> title,
                   scene_outline |-> p.scene.outline,
                   characters |-> cs, main_characters |-> ms,
                   pov_character |-> ps,
                   world_setting |-> World(world), plot_threads |-> World(plots), timeline |-> World(timeline)]
           variables == [x \in DOMAIN own |-> IF x \in user THEN UserText ELSE own[x]]
           g == Gather(p, user)
<1>1. g = [characters |-> characters, mains |-> mains, world |-> world, plots |-> plots, timeline |-> timeline,
           previous |-> previous, variables |-> variables]
    BY DEF Gather
<1>2. /\ p.chapters \in Seq(ChapterRows) /\ p.chapter \in ChapterRows /\ p.scene \in SceneRows
      /\ p.characters \in Seq(CharacterRows) /\ p.world \in Seq(WorldRows)
      /\ p.plots \in Seq(PlotRows) /\ p.timeline \in Seq(EventRows)
      /\ UserText \in Nat
    BY ContextAssumption
<1>3. p.chapter.outline \in Nat /\ p.scene.outline \in Nat /\ p.scene.pov \in Nat
    BY <1>2 DEF ChapterRows, SceneRows
<1> HIDE DEF related
<1>4. /\ characters \in Seq(CharacterRows)
      /\ (\E n \in DOMAIN p.characters : p.characters[n].id = p.scene.pov) =>
           Len(characters) # 0 /\ characters[1].id = p.scene.pov
    BY <1>2, <1>3, CharactersAre
<1> HIDE DEF characters
<1>5. mains \in Seq(CharacterRows)
    BY <1>4, ThoseAre
<1> DEFINE S == {n \in DOMAIN characters : characters[n].id = p.scene.pov}
<1>6. /\ povs \in Seq(CharacterRows)
      /\ \A x : Among(x, povs) <=> \E i \in DOMAIN characters : i \in S /\ characters[i] = x
    <2>1. povs = Those(characters, S)
        OBVIOUS
    <2> HIDE DEF S, povs
    <2> QED
        BY <1>4, <2>1, ThoseAre
<1>7. world \in Seq(WorldRows) /\ plots \in Seq(PlotRows)
    BY <1>2, WorldEntriesAre, PlotThreadsAre
<1>8. /\ timeline \in Seq(EventRows)
      /\ \A x : Among(x, timeline) => \E n \in DOMAIN p.timeline :
           p.timeline[n] = x /\ ~ Later(x, p.chapter, p.chapters)
    BY <1>2, TimelineIs
<1>9. previous.text \in Nat
    BY <1>2, PreviousIs
<1>10. (\E n \in DOMAIN p.characters : p.characters[n].id = p.scene.pov) => povs # <<>>
    <2>1. SUFFICES ASSUME Len(characters) # 0, characters[1].id = p.scene.pov PROVE povs # <<>>
        BY <1>4
    <2>2. 1 \in DOMAIN characters
        BY <1>4, <2>1
    <2>3. Among(characters[1], povs)
        BY <1>6, <2>1, <2>2
    <2> HIDE DEF povs
    <2> QED
        BY <2>3 DEF Among
<1> HIDE DEF mains, povs, world, plots, timeline, previous, S
<1>11. /\ cs \in Nat /\ ms \in Nat /\ title \in Nat
       /\ ps \in Nat /\ (povs # <<>> => ps > 0)
    <2>1. cs \in Nat /\ ms \in Nat /\ ps \in Nat /\ (ps = 0 <=> povs = <<>>)
        BY <1>4, <1>5, <1>6, CharactersTextIs
    <2>2. title \in Nat
        OBVIOUS
    <2> HIDE DEF cs, ms, ps
    <2> QED
        BY <2>1, <2>2
<1> HIDE DEF cs, ms, ps, title
<1>12. World(world) \in Nat /\ World(plots) \in Nat /\ World(timeline) \in Nat
    <2>1. /\ \A n \in DOMAIN world : world[n].size \in Nat
          /\ \A n \in DOMAIN plots : plots[n].size \in Nat
          /\ \A n \in DOMAIN timeline : timeline[n].size \in Nat
        <3>1. /\ \A n \in DOMAIN world : world[n] \in WorldRows
              /\ \A n \in DOMAIN plots : plots[n] \in PlotRows
              /\ \A n \in DOMAIN timeline : timeline[n] \in EventRows
            BY <1>7, <1>8
        <3> QED
            BY <3>1, SizesAre
    <2> QED
        BY <1>7, <1>8, <2>1, WorldIs
<1>13. DOMAIN own = Names
    BY DEF Names
<1>14. \A x \in Names : own[x] \in Nat
    BY <1>3, <1>9, <1>11, <1>12 DEF Names
<1>15. /\ own.world_setting = World(world) /\ own.timeline = World(timeline)
       /\ own.plot_threads = World(plots) /\ own.pov_character = ps
    OBVIOUS
<1> HIDE DEF own
<1>16. /\ variables \in [Names -> Int]
       /\ \A x \in Names : variables[x] \in Nat /\ (x \notin user => variables[x] = own[x])
    BY <1>2, <1>13, <1>14
<1> HIDE DEF variables
<1>17. {"world_setting", "timeline", "plot_threads", "pov_character",
        "chapter_outline", "previous_chapter_summary"} \subseteq Names
    BY DEF Names
<1>18. /\ g.world = world /\ g.plots = plots /\ g.timeline = timeline
       /\ g.characters = characters /\ g.mains = mains /\ g.variables = variables
    BY <1>1
<1>19. "pov_character" \notin user =>
         \A n \in DOMAIN p.characters : p.characters[n].id = p.scene.pov => variables.pov_character > 0
    BY <1>10, <1>11, <1>15, <1>16, <1>17
<1> HIDE DEF g
<1> QED
    BY <1>4, <1>5, <1>7, <1>8, <1>15, <1>16, <1>17, <1>18, <1>19 DEF Gathered, g

\* The interval of the bisection is numbers, and a round keeps it so.
Intervals == [low : Int, high : Int, best : Int]

\* A round of the bisection halves the interval, or leaves an empty one.
LEMMA BisectedIs ==
    ASSUME NEW s \in Intervals, NEW fits
    PROVE  LET middle == (s.low + s.high) \div 2
               r == Bisected(s, fits) IN
           /\ r \in Intervals
           /\ \/ s.low > s.high /\ r = s
              \/ /\ s.low =< s.high /\ s.low =< middle /\ middle =< s.high
                 /\ \/ middle \in fits /\ r.low = middle + 1 /\ r.high = s.high /\ r.best = middle
                    \/ middle \notin fits /\ r.low = s.low /\ r.high = middle - 1 /\ r.best = s.best
<1> DEFINE middle == (s.low + s.high) \div 2
           r == Bisected(s, fits)
           up == [low |-> middle + 1, high |-> s.high, best |-> middle]
           down == [low |-> s.low, high |-> middle - 1, best |-> s.best]
<1>1. s.low \in Int /\ s.high \in Int /\ s.best \in Int
    BY DEF Intervals
<1>2. middle \in Int /\ (s.low =< s.high => s.low =< middle /\ middle =< s.high)
    BY <1>1
<1>3. r = IF s.low > s.high THEN s ELSE IF middle \in fits THEN up ELSE down
    BY DEF Bisected
<1> HIDE DEF middle, r
<1>4. up \in Intervals /\ down \in Intervals
    BY <1>1, <1>2 DEF Intervals
<1>5. /\ up.low = middle + 1 /\ up.high = s.high /\ up.best = middle
      /\ down.low = s.low /\ down.high = middle - 1 /\ down.best = s.best
    OBVIOUS
<1> HIDE DEF up, down
<1>6. CASE s.low > s.high
    BY <1>1, <1>3, <1>6 DEF r, middle
<1>7. CASE ~ (s.low > s.high)
    <2>1. s.low =< s.high
        BY <1>1, <1>7
    <2>2. CASE middle \in fits
        BY <1>2, <1>3, <1>4, <1>5, <1>7, <2>1, <2>2 DEF r, middle
    <2>3. CASE middle \notin fits
        BY <1>2, <1>3, <1>4, <1>5, <1>7, <2>1, <2>3 DEF r, middle
    <2> QED
        BY <2>2, <2>3
<1> QED
    BY <1>6, <1>7

\* The rounds of the bisection, one after the other.
LEMMA BisectStep ==
    ASSUME NEW length \in Nat, NEW fits
    PROVE  LET f == BisectedUpTo(length, fits) IN
           /\ f \in [0..(length + 1) -> Intervals]
           /\ f[0] = [low |-> 0, high |-> length, best |-> 0]
           /\ \A k \in 1..(length + 1) : f[k] = Bisected(f[k - 1], fits)
<1> DEFINE N == length + 1
           X == Intervals
           More(x) == Bisected(x, fits)
           first == [low |-> 0, high |-> length, best |-> 0]
           u == BisectedUpTo(length, fits)
           Is(f) == f = [k \in 0..N |-> IF k = 0 THEN first ELSE More(f[k - 1])]
           step == [q \in (1..N) \X X |-> More(q[2])]
<1>1. N \in Nat
    OBVIOUS
<1>2. first \in X
    BY DEF Intervals
<1>3. u = CHOOSE f : Is(f)
    BY DEF BisectedUpTo
<1>4. ASSUME NEW x \in X PROVE More(x) \in X
    BY BisectedIs
<1>5. step \in [(1..N) \X X -> X] /\ \A k \in 1..N, x \in X : step[<<k, x>>] = More(x)
    BY <1>4
<1> HIDE DEF X, step, More, first, N
<1>6. PICK f : Solves(f, X, first, N, step)
    BY <1>1, <1>2, <1>5, RecursionExists
<1>7. f \in [0..N -> X] /\ \A k \in 0..N : f[k] = IF k = 0 THEN first ELSE step[<<k, f[k - 1]>>]
    BY <1>6 DEF Solves
<1>8. ASSUME NEW k \in 0..N PROVE f[k] = IF k = 0 THEN first ELSE More(f[k - 1])
    <2>1. CASE k = 0
        BY <1>7, <2>1
    <2>2. CASE k # 0
        <3>1. k \in 1..N /\ k - 1 \in 0..N
            BY <1>1, <2>2
        <3>2. f[k - 1] \in X
            BY <1>7, <3>1
        <3> QED
            BY <1>5, <1>7, <2>2, <3>1, <3>2
    <2> QED
        BY <2>1, <2>2
<1>9. Is(f)
    BY <1>7, <1>8
<1>10. Is(u)
    <2> HIDE DEF Is
    <2> QED
        BY <1>3, <1>9
<1> DEFINE Typed == {k \in Nat : k =< N => u[k] \in X}
<1>11. \A k \in 0..N : u[k] = IF k = 0 THEN first ELSE More(u[k - 1])
    BY <1>10
<1>12. u = [k \in 0..N |-> u[k]]
    BY <1>10
<1> HIDE DEF u, Is
<1>13. u[0] = first /\ \A k \in 1..N : u[k] = More(u[k - 1])
    <2>1. 0 \in 0..N /\ \A k \in 1..N : k \in 0..N /\ k # 0
        BY <1>1
    <2> QED
        BY <1>11, <2>1
<1>14. 0 \in Typed /\ Typed \in SUBSET Nat
    BY <1>2, <1>13
<1>15. ASSUME NEW k \in Typed PROVE k + 1 \in Typed
    <2>1. SUFFICES ASSUME k + 1 =< N PROVE u[k + 1] \in X
        OBVIOUS
    <2>2. k + 1 \in 1..N /\ (k + 1) - 1 = k /\ k =< N
        BY <1>1, <2>1
    <2>3. u[k + 1] = More(u[k]) /\ u[k] \in X
        BY <1>13, <2>2
    <2> QED
        BY <1>4, <2>3
<1>16. \A k \in Nat : k \in Typed
    <2> HIDE DEF Typed
    <2> QED
        BY <1>14, <1>15, AllNumbers
<1>17. u \in [0..N -> X]
    BY <1>12, <1>16
<1> QED
    BY <1>13, <1>17 DEF u, More, X, first, N

\* The bisection ends at a length that fits and is the longest that the next
\* one refuses, or at none when not even the empty text fits.
LEMMA TruncateIs ==
    ASSUME NEW length \in Nat, NEW fits
    PROVE  LET best == TruncateToFit(length, fits) IN
           /\ best \in 0..length
           /\ \/ best \in fits /\ (best = length \/ best + 1 \notin fits)
              \/ best = 0 /\ 0 \notin fits
<1> DEFINE N == length + 1
           u == BisectedUpTo(length, fits)
           Found(s, n) ==
             /\ 0 =< s.low /\ s.low =< s.high + 1 /\ s.high =< length
             /\ \/ s.low = 0 /\ s.best = 0
                \/ s.low > 0 /\ s.best = s.low - 1 /\ s.best \in fits
             /\ s.high = length \/ s.high + 1 \notin fits
             /\ s.low > s.high \/ s.high - s.low + 1 =< length + 1 - n
           Reached == {k \in Nat : k =< N => Found(u[k], k)}
<1>1. /\ u \in [0..N -> Intervals]
      /\ u[0] = [low |-> 0, high |-> length, best |-> 0]
      /\ \A k \in 1..N : u[k] = Bisected(u[k - 1], fits)
    BY BisectStep
<1>2. TruncateToFit(length, fits) = u[N].best
    BY DEF TruncateToFit
<1>3. N \in Nat
    OBVIOUS
<1> HIDE DEF u
<1>4. Found(u[0], 0)
    <2>1. u[0].low = 0 /\ u[0].high = length /\ u[0].best = 0
        BY <1>1
    <2> QED
        BY <2>1
<1>5. ASSUME NEW k \in Nat, k + 1 =< N, Found(u[k], k) PROVE Found(u[k + 1], k + 1)
    <2> DEFINE s == u[k]
               r == u[k + 1]
               middle == (s.low + s.high) \div 2
    <2>1. k \in 0..N /\ k + 1 \in 0..N /\ k + 1 \in 1..N /\ (k + 1) - 1 = k
        BY <1>3, <1>5
    <2>2. s \in Intervals /\ r = Bisected(s, fits)
        BY <1>1, <2>1
    <2>3. Found(s, k)
        BY <1>5
    <2> HIDE DEF s
    <2>4. /\ r \in Intervals
          /\ \/ s.low > s.high /\ r = s
             \/ /\ s.low =< s.high /\ s.low =< middle /\ middle =< s.high
                /\ \/ middle \in fits /\ r.low = middle + 1 /\ r.high = s.high /\ r.best = middle
                   \/ middle \notin fits /\ r.low = s.low /\ r.high = middle - 1 /\ r.best = s.best
        BY <2>2, BisectedIs
    <2>5. s.low \in Int /\ s.high \in Int /\ s.best \in Int /\ middle \in Int
        BY <2>2 DEF Intervals
    <2> HIDE DEF r, middle
    <2>6. r.low \in Int /\ r.high \in Int /\ r.best \in Int
        BY <2>4 DEF Intervals
    <2>7. CASE s.low > s.high /\ r = s
        <3>1. Found(r, k + 1)
            BY <2>3, <2>5, <2>7
        <3> QED
            BY <3>1 DEF r
    <2>8. CASE /\ s.low =< s.high /\ s.low =< middle /\ middle =< s.high
               /\ middle \in fits /\ r.low = middle + 1 /\ r.high = s.high /\ r.best = middle
        <3>1. Found(r, k + 1)
            BY <2>3, <2>5, <2>6, <2>8
        <3> QED
            BY <3>1 DEF r
    <2>9. CASE /\ s.low =< s.high /\ s.low =< middle /\ middle =< s.high
               /\ middle \notin fits /\ r.low = s.low /\ r.high = middle - 1 /\ r.best = s.best
        <3>1. r.high + 1 = middle
            BY <2>5, <2>9
        <3>2. r.high = length \/ r.high + 1 \notin fits
            BY <2>9, <3>1
        <3>3. \/ r.low = 0 /\ r.best = 0
              \/ r.low > 0 /\ r.best = r.low - 1 /\ r.best \in fits
            BY <2>3, <2>9
        <3>4. /\ 0 =< r.low /\ r.low =< r.high + 1 /\ r.high =< length
              /\ r.low > r.high \/ r.high - r.low + 1 =< length + 1 - (k + 1)
            BY <2>3, <2>5, <2>9
        <3>5. Found(r, k + 1)
            BY <3>2, <3>3, <3>4
        <3> QED
            BY <3>5 DEF r
    <2> QED
        BY <2>4, <2>7, <2>8, <2>9
<1>6. \A k \in Nat : k \in Reached
    <2>1. 0 \in Reached /\ Reached \in SUBSET Nat
        BY <1>4
    <2>2. ASSUME NEW k \in Reached PROVE k + 1 \in Reached
        <3>1. k \in Nat /\ (k + 1 =< N => k =< N)
            OBVIOUS
        <3>2. k + 1 =< N => Found(u[k], k)
            BY <3>1
        <3> HIDE DEF Found, N
        <3> QED
            BY <1>5, <3>1, <3>2
    <2> HIDE DEF Reached
    <2> QED
        BY <2>1, <2>2, AllNumbers
<1> DEFINE s == u[N]
<1>7. Found(s, N) /\ s \in Intervals
    BY <1>1, <1>3, <1>6
<1>8. s.low \in Int /\ s.high \in Int /\ s.best \in Int
    BY <1>7 DEF Intervals
<1> HIDE DEF s
<1>9. s.low = s.high + 1
    BY <1>7, <1>8
<1>10. s.best \in 0..length
    BY <1>7, <1>8, <1>9
<1>11. CASE s.low = 0 /\ s.best = 0
    <2>1. s.high + 1 = 0 /\ s.high # length
        BY <1>8, <1>9, <1>11
    <2>2. 0 \notin fits
        BY <1>7, <2>1
    <2> QED
        BY <1>2, <1>10, <1>11, <2>2 DEF s
<1>12. CASE s.low > 0 /\ s.best = s.low - 1 /\ s.best \in fits
    <2>1. s.best = s.high
        BY <1>8, <1>9, <1>12
    <2>2. s.best = length \/ s.best + 1 \notin fits
        BY <1>7, <2>1
    <2> QED
        BY <1>2, <1>10, <1>12, <2>2 DEF s
<1> QED
    BY <1>7, <1>11, <1>12

\* A list without its last items.
LEMMA HeadIs ==
    ASSUME NEW T, NEW items \in Seq(T), NEW k \in 0..Len(items)
    PROVE  LET head == WithoutLast(items, k) IN
           head \in Seq(T) /\ Len(head) = Len(items) - k /\ \A i \in 1..(Len(items) - k) : head[i] = items[i]
<1> DEFINE N == Len(items)
           head == WithoutLast(items, k)
<1>1. N \in Nat /\ DOMAIN items = 1..N /\ k \in Nat /\ k =< N
    OBVIOUS
<1>2. \A i \in 1..N : items[i] \in T
    OBVIOUS
<1>3. head \in Seq(T) /\ Len(head) = N - k /\ \A i \in 1..(N - k) : head[i] = items[i]
    <2> DEFINE n == N - k
    <2>1. n \in Nat /\ n =< Len(items)
        BY <1>1
    <2>2. head = SubSeq(items, 1, n)
        BY DEF WithoutLast
    <2> HIDE DEF n, head, N
    <2>3. head \in Seq(T) /\ Len(head) = n /\ \A i \in 1..n : head[i] = items[i]
        BY <2>1, <2>2, PrefixIs
    <2> QED
        BY <2>3 DEF n
<1> QED
    BY <1>3 DEF N

\* A list without its first items.
LEMMA TailIs ==
    ASSUME NEW T, NEW items \in Seq(T), NEW k \in 0..Len(items)
    PROVE  LET tail == WithoutFirst(items, k) IN
           tail \in Seq(T) /\ Len(tail) = Len(items) - k /\ \A i \in 1..(Len(items) - k) : tail[i] = items[k + i]
<1> DEFINE N == Len(items)
           tail == WithoutFirst(items, k)
<1>1. N \in Nat /\ DOMAIN items = 1..N /\ k \in Nat /\ k =< N
    OBVIOUS
<1>2. \A i \in 1..N : items[i] \in T
    OBVIOUS
<1>3. tail \in Seq(T) /\ Len(tail) = N - k /\ \A i \in 1..(N - k) : tail[i] = items[k + i]
    <2> DEFINE m == 1 + k
    <2>1. m \in 1..(N + 1) /\ N \in Int /\ \A i \in m..N : items[i] \in T
        BY <1>1, <1>2
    <2>2. tail = SubSeq(items, m, N)
        BY DEF WithoutFirst
    <2> HIDE DEF N
    <2>3. N - m + 1 = N - k /\ (m =< N + 1) /\ (m =< N => N - k # 0) /\ N - k \in Nat
        BY <1>1
    <2> HIDE DEF m, tail
    <2>4. /\ SubSeq(items, m, N) \in Seq(T)
          /\ Len(SubSeq(items, m, N)) = IF m =< N THEN N - m + 1 ELSE 0
        BY <2>1, SubSeqProperties
    <2>5. Len(tail) = N - k
        <3>1. CASE m =< N
            BY <2>2, <2>3, <2>4, <3>1
        <3>2. CASE ~ (m =< N)
            BY <1>1, <2>1, <2>2, <2>3, <2>4, <3>2 DEF m
        <3> QED
            BY <3>1, <3>2
    <2>6. ASSUME NEW i \in 1..(N - k) PROVE tail[i] = items[k + i]
        <3>1. i \in 1..((N - m) + 1) /\ i \in Int /\ (m + i) - 1 = k + i
            BY <1>1, <2>1, <2>3 DEF m
        <3>2. SubSeq(items, m, N)[i] = items[(m + i) - 1]
            BY <2>1, <3>1
        <3> QED
            BY <2>2, <3>1, <3>2
    <2> QED
        BY <2>2, <2>4, <2>5, <2>6
<1> QED
    BY <1>3 DEF N

\* What is left of a list when its end or its beginning is dropped.
LEMMA LeftIs ==
    ASSUME NEW T, NEW items \in Seq(T), NEW k \in 0..Len(items), NEW class
    PROVE  LET s == Left(class, items, k) IN
           /\ s \in Seq(T) /\ Len(s) = Len(items) - k
           /\ k = 0 => s = items
           /\ \A x : Among(x, s) => Among(x, items)
<1> DEFINE N == Len(items)
           head == WithoutLast(items, k)
           tail == WithoutFirst(items, k)
           s == Left(class, items, k)
<1>1. N \in Nat /\ DOMAIN items = 1..N /\ k \in Nat /\ k =< N
    OBVIOUS
<1>2. s = head \/ s = tail
    BY DEF Left
<1>3. \A i \in 1..N : items[i] \in T
    OBVIOUS
<1>4. head \in Seq(T) /\ Len(head) = N - k /\ \A i \in 1..(N - k) : head[i] = items[i]
    BY HeadIs
<1>5. tail \in Seq(T) /\ Len(tail) = N - k /\ \A i \in 1..(N - k) : tail[i] = items[k + i]
    BY TailIs
<1> HIDE DEF head, tail, s
<1>6. ASSUME k = 0 PROVE s = items
    <2>1. head = items
        <3>1. Len(head) = Len(items) /\ \A i \in 1..Len(items) : head[i] = items[i]
            BY <1>1, <1>4, <1>6 DEF N
        <3> QED
            BY <1>4, <3>1, SeqEqual
    <2>2. tail = items
        <3>1. Len(tail) = Len(items) /\ \A i \in 1..Len(items) : tail[i] = items[i]
            BY <1>1, <1>5, <1>6 DEF N
        <3> QED
            BY <1>5, <3>1, SeqEqual
    <2> QED
        BY <1>2, <2>1, <2>2
<1>7. ASSUME NEW x, Among(x, s) PROVE Among(x, items)
    <2>1. s \in Seq(T) /\ Len(s) = N - k
        BY <1>2, <1>4, <1>5
    <2>2. PICK i \in 1..(N - k) : s[i] = x
        BY <1>7, <2>1 DEF Among
    <2>3. i \in 1..N /\ k + i \in 1..N
        BY <1>1
    <2>4. s[i] = items[i] \/ s[i] = items[k + i]
        BY <1>2, <1>4, <1>5
    <2> QED
        BY <1>1, <2>2, <2>3, <2>4 DEF Among
<1> QED
    BY <1>2, <1>4, <1>5, <1>6, <1>7 DEF s, N

-----------------------------------------------------------------------------
(* Giving up the material.                                                 *)

\* The kinds of material, in the order they are given up in.
Kinds == {"world", "timeline", "plots", "previous", "characters", "outline"}
Turns == <<"world", "timeline", "plots", "previous", "characters", "outline">>

\* The material of a call: what was found, the texts made of it and the cuts.
MaterialOK(m) ==
  /\ m = [found |-> m.found, variables |-> m.variables, cut |-> m.cut]
  /\ m.variables \in [Names -> Int] /\ m.cut \in [Kinds -> Nat]

\* The text of a class is that of the items that are left of it.
Part(m, user, class, variable) ==
  /\ m.cut[class] =< Len(m.found[class])
  /\ variable \in user => m.cut[class] = 0
  /\ variable \notin user => m.variables[variable] = World(Left(class, m.found[class], m.cut[class]))

\* One step of giving up: the items of a class that are dropped.
Dropped(m, r, b, class, variable, k) ==
  /\ r.found = m.found
  /\ r.variables = [m.variables EXCEPT ![variable] = World(Left(class, m.found[class], k))]
  /\ r.cut = [m.cut EXCEPT ![class] = k]
  /\ MaterialOK(r)
  /\ k = Len(m.found[class]) \/ ~ TooLong(r, b)

\* Items are dropped while the rest does not fit, and none when all fit.
LEMMA DropItemsIs ==
    ASSUME NEW T, \A x \in T : x.size \in Nat, NEW m, NEW b, NEW user, NEW class \in Kinds, NEW variable \in Names,
           MaterialOK(m), m.found[class] \in Seq(T), m.cut[class] = 0, Part(m, user, class, variable)
    PROVE  LET r == DropItems(m, b, user, class, variable)
               items == m.found[class] IN
           \/ r = m /\ (variable \in user \/ items = <<>> \/ ~ TooLong(m, b))
           \/ /\ TooLong(m, b) /\ variable \notin user
              /\ \E k \in 1..Len(items) : Dropped(m, r, b, class, variable, k)
<1> DEFINE items == m.found[class]
           N == Len(items)
           With(n) == [m.variables EXCEPT ![variable] = World(Left(class, items, n))]
           S == {n \in 0..N : n = N \/ ~ Exceeds(With(n), b)}
           k == IF variable \in user THEN 0 ELSE Min(S)
           new == [m EXCEPT !.variables = With(k), !.cut[class] = k]
           r == DropItems(m, b, user, class, variable)
<1>1. r = IF k = 0 THEN m ELSE new
    BY DEF DropItems
<1>2. N \in Nat /\ (N = 0 <=> items = <<>>)
    BY EmptySeq, LenProperties
<1>3. CASE variable \in user
    <2>1. r = m
        BY <1>1, <1>3
    <2> QED
        BY <1>3, <2>1
<1>4. CASE variable \notin user
    <2>1. S \in SUBSET Nat /\ S # {}
        <3>1. N \in S
            BY <1>2
        <3> QED
            BY <1>2, <3>1
    <2>2. Min(S) \in S /\ \A n \in S : Min(S) =< n
        <3> HIDE DEF S
        <3> QED
            BY <2>1, MinExists
    <2>3. k = Min(S)
        BY <1>4
    <2>4. With(0) = m.variables
        <3>1. m.variables[variable] = World(Left(class, items, 0)) /\ m.variables \in [Names -> Int]
            BY <1>4 DEF Part, MaterialOK
        <3> QED
            BY <3>1
    <2> HIDE DEF With
    <2>5. k \in 0..N /\ (k = N \/ ~ Exceeds(With(k), b))
        <3> HIDE DEF k
        <3> QED
            BY <2>2, <2>3
    <2>6. 0 \in S => k = 0
        <3>1. \A n \in S : n \in Nat
            BY <2>1
        <3> HIDE DEF S, k
        <3> QED
            BY <2>2, <2>3, <3>1
    <2> HIDE DEF k
    <2>7. CASE k = 0
        <3>1. r = m
            BY <1>1, <2>7
        <3>2. items = <<>> \/ ~ Exceeds(m.variables, b)
            BY <1>2, <2>4, <2>5, <2>7
        <3> QED
            BY <3>1, <3>2 DEF TooLong
    <2>8. CASE k # 0
        <3>1. r = new
            BY <1>1, <2>8
        <3>2. Exceeds(m.variables, b)
            <4>1. 0 \notin S /\ 0 \in 0..N
                BY <1>2, <2>6, <2>8
            <4> QED
                BY <2>4, <4>1
        <3>3. k \in 1..N
            BY <1>2, <2>5, <2>8
        <3>4. /\ m = [found |-> m.found, variables |-> m.variables, cut |-> m.cut]
              /\ m.variables \in [Names -> Int] /\ m.cut \in [Kinds -> Nat]
            BY DEF MaterialOK
        <3> DEFINE f == m.found
                   v == m.variables
                   u == m.cut
                   w == With(k)
        <3>5. new = [found |-> f, variables |-> w, cut |-> [u EXCEPT ![class] = k]]
            <4>1. new = [m EXCEPT !.variables = w, !.cut[class] = k]
                OBVIOUS
            <4> HIDE DEF w, new
            <4>2. new = [[m EXCEPT !.variables = w] EXCEPT !.cut = [u EXCEPT ![class] = k]]
                BY <3>4, <4>1
            <4>3. m = [found |-> f, variables |-> v, cut |-> u]
                BY <3>4
            <4> HIDE DEF f, v, u
            <4> QED
                BY <4>2, <4>3
        <3>6. World(Left(class, items, k)) \in Nat
            <4> DEFINE s == Left(class, items, k)
            <4>1. k \in 0..Len(items)
                BY <2>5
            <4>2. s \in Seq(T)
                BY <4>1, LeftIs
            <4> HIDE DEF s
            <4>3. \A n \in DOMAIN s : s[n].size \in Nat
                BY <4>2
            <4> QED
                BY <4>2, <4>3, WorldIs DEF s
        <3>7. w \in [Names -> Int]
            BY <3>4, <3>6 DEF With
        <3>8. [u EXCEPT ![class] = k] \in [Kinds -> Nat]
            BY <3>3, <3>4
        <3> HIDE DEF new
        <3>9. /\ new.found = f /\ new.variables = w /\ new.cut = [u EXCEPT ![class] = k]
            BY <3>5
        <3>10. MaterialOK(new)
            BY <3>5, <3>7, <3>8, <3>9 DEF MaterialOK
        <3>11. k = N \/ ~ TooLong(new, b)
            BY <2>5, <3>9 DEF TooLong
        <3>12. Dropped(m, new, b, class, variable, k)
            BY <3>9, <3>10, <3>11 DEF Dropped, With
        <3> QED
            BY <1>4, <3>1, <3>2, <3>3, <3>12 DEF TooLong
    <2> QED
        BY <2>7, <2>8
<1> QED
    BY <1>3, <1>4

\* What the material of a call keeps while it is given up: the text of each
\* class is that of the items left of it.
Whole(m, user) ==
  /\ MaterialOK(m)
  /\ m.found.world \in Seq(WorldRows) /\ m.found.plots \in Seq(PlotRows) /\ m.found.timeline \in Seq(EventRows)
  /\ m.found.characters \in Seq(CharacterRows) /\ m.found.mains \in Seq(CharacterRows)
  /\ Part(m, user, "world", "world_setting") /\ Part(m, user, "timeline", "timeline")
  /\ Part(m, user, "plots", "plot_threads")
  /\ m.variables.previous_chapter_summary \in Nat /\ m.variables.chapter_outline \in Nat

\* All of a kind that may be given up is.
GoneOf(m, b, user, kind) ==
  \/ kind = "world" /\ (m.variables.world_setting = 0 \/ "world_setting" \in user)
  \/ kind = "timeline" /\ (m.variables.timeline = 0 \/ "timeline" \in user)
  \/ kind = "plots" /\ (m.variables.plot_threads = 0 \/ "plot_threads" \in user)
  \/ kind = "previous" /\ (m.variables.previous_chapter_summary = 0 \/ "previous_chapter_summary" \in user)
  \/ kind = "characters" /\ (m.cut.characters > 0 \/ "characters" \in user \/ m.found.characters = <<>>)
  \/ kind = "outline" /\ (m.variables.chapter_outline = 0 \/ "chapter_outline" \in user \/ ~ b.hard)

\* A turn gives something of its kind up, and touches nothing else.
Gives(m, r, b, user, kind) ==
  /\ TooLong(m, b) /\ r.cut[kind] > 0
  /\ \A other \in Kinds \ {kind} :
       r.cut[other] = m.cut[other] /\ (GoneOf(m, b, user, other) => GoneOf(r, b, user, other))
  /\ r.variables.pov_character = m.variables.pov_character

\* A turn: nothing is given up, or something of its kind; and what is too long
\* after it has nothing of that kind left.
Turn(m, r, b, user, kind) ==
  /\ Whole(r, user) /\ r.found = m.found
  /\ r = m \/ Gives(m, r, b, user, kind)
  /\ TooLong(r, b) => GoneOf(r, b, user, kind)

\* After the n-th turn: what is cut goes by the order of the turns.
Stage(m, g, b, user, n) ==
  /\ Whole(m, user) /\ m.found = g
  /\ m.variables.pov_character = g.variables.pov_character
  /\ m.variables = g.variables \/ Exceeds(g.variables, b)
  /\ \A k \in 1..6 : m.cut[Turns[k]] > 0 =>
       k =< n /\ Exceeds(g.variables, b) /\ \A j \in 1..(k - 1) : GoneOf(m, b, user, Turns[j])
  /\ TooLong(m, b) => \A j \in 1..n : GoneOf(m, b, user, Turns[j])

\* The turns are of the kinds, each once.
LEMMA TurnsAre ==
    /\ \A k \in 1..6 : Turns[k] \in Kinds
    /\ \A j, k \in 1..6 : Turns[j] = Turns[k] => j = k
    /\ Turns[1] = "world" /\ Turns[2] = "timeline" /\ Turns[3] = "plots" /\ Turns[4] = "previous"
    /\ Turns[5] = "characters" /\ Turns[6] = "outline"
BY DEF Turns, Kinds

\* A turn leads to the next stage.
LEMMA StageStep ==
    ASSUME NEW m, NEW r, NEW g, NEW b, NEW user, NEW n \in 1..6,
           Stage(m, g, b, user, n - 1), Turn(m, r, b, user, Turns[n])
    PROVE  Stage(r, g, b, user, n)
<1> DEFINE Gone(x, k) == GoneOf(x, b, user, Turns[k])
           heavy == Exceeds(g.variables, b)
<1>1. /\ Whole(r, user) /\ r.found = m.found /\ m.found = g
      /\ m.variables.pov_character = g.variables.pov_character
      /\ m.variables = g.variables \/ heavy
      /\ \A k \in 1..6 : m.cut[Turns[k]] > 0 => k =< n - 1 /\ heavy /\ \A j \in 1..(k - 1) : Gone(m, j)
      /\ TooLong(m, b) => \A j \in 1..(n - 1) : Gone(m, j)
      /\ r = m \/ Gives(m, r, b, user, Turns[n])
      /\ TooLong(r, b) => Gone(r, n)
    BY DEF Stage, Turn
<1>2. n - 1 \in 0..5 /\ \A j \in 1..n : j \in 1..(n - 1) \/ j = n
    OBVIOUS
<1>3. TooLong(m, b) <=> Exceeds(m.variables, b)
    BY DEF TooLong
<1> HIDE DEF Gone, heavy
<1>4. CASE r = m
    <2>1. \A k \in 1..6 : r.cut[Turns[k]] > 0 => k =< n /\ heavy /\ \A j \in 1..(k - 1) : Gone(r, j)
        BY <1>1, <1>2, <1>4
    <2>2. TooLong(r, b) => \A j \in 1..n : Gone(r, j)
        BY <1>1, <1>2, <1>4
    <2> QED
        BY <1>1, <1>4, <2>1, <2>2 DEF Stage, Gone, heavy
<1>5. CASE Gives(m, r, b, user, Turns[n])
    <2>1. /\ TooLong(m, b) /\ r.cut[Turns[n]] > 0
          /\ r.variables.pov_character = m.variables.pov_character
          /\ \A other \in Kinds \ {Turns[n]} :
               r.cut[other] = m.cut[other] /\ (GoneOf(m, b, user, other) => GoneOf(r, b, user, other))
        BY <1>5 DEF Gives
    <2>2. \A k \in 1..6 : k # n => Turns[k] \in Kinds \ {Turns[n]}
        BY TurnsAre
    <2>3. \A k \in 1..6 : k # n => r.cut[Turns[k]] = m.cut[Turns[k]] /\ (Gone(m, k) => Gone(r, k))
        BY <2>1, <2>2 DEF Gone
    <2>4. heavy
        BY <1>1, <1>3, <2>1 DEF heavy
    <2>5. \A j \in 1..(n - 1) : Gone(r, j)
        <3>1. \A j \in 1..(n - 1) : j \in 1..6 /\ j # n
            OBVIOUS
        <3> QED
            BY <1>1, <2>1, <2>3, <3>1
    <2>6. ASSUME NEW k \in 1..6, r.cut[Turns[k]] > 0
          PROVE  k =< n /\ heavy /\ \A j \in 1..(k - 1) : Gone(r, j)
        <3>1. k =< n
            <4>1. CASE k = n
                BY <4>1
            <4>2. CASE k # n
                BY <1>1, <1>2, <2>3, <2>6, <4>2
            <4> QED
                BY <4>1, <4>2
        <3>2. \A j \in 1..(k - 1) : j \in 1..(n - 1)
            BY <3>1
        <3> QED
            BY <2>4, <2>5, <3>1, <3>2
    <2>7. TooLong(r, b) => \A j \in 1..n : Gone(r, j)
        BY <1>1, <1>2, <2>5
    <2> QED
        BY <1>1, <2>1, <2>4, <2>6, <2>7 DEF Stage, Gone, heavy
<1> QED
    BY <1>1, <1>4, <1>5

\* The kinds whose items are dropped, with the variable they are told in.
Told(class, variable) ==
  \/ class = "world" /\ variable = "world_setting"
  \/ class = "timeline" /\ variable = "timeline"
  \/ class = "plots" /\ variable = "plot_threads"

\* They are kinds and variables.
LEMMA ToldAre ==
    ASSUME NEW class, NEW variable, Told(class, variable)
    PROVE  class \in Kinds /\ variable \in Names
BY DEF Told, Kinds, Names

\* The text of no items is empty.
LEMMA NothingLeft ==
    ASSUME NEW T, \A x \in T : x.size \in Nat, NEW items \in Seq(T), NEW class, NEW k \in 0..Len(items)
    PROVE  /\ Left(class, items, k) \in Seq(T)
           /\ World(Left(class, items, k)) \in Nat
           /\ World(Left(class, items, k)) = 0 <=> k = Len(items)
           /\ Left(class, items, k) = <<>> <=> k = Len(items)
<1> DEFINE s == Left(class, items, k)
<1>1. s \in Seq(T) /\ Len(s) = Len(items) - k
    BY LeftIs
<1> HIDE DEF s
<1>2. \A n \in DOMAIN s : s[n].size \in Nat
    BY <1>1
<1>3. World(s) \in Nat /\ (World(s) = 0 <=> s = <<>>)
    BY <1>1, <1>2, WorldIs
<1>4. s = <<>> <=> Len(s) = 0
    BY <1>1
<1>5. k \in Nat /\ Len(items) \in Nat
    OBVIOUS
<1>6. s = <<>> <=> k = Len(items)
    BY <1>1, <1>4, <1>5
<1> QED
    BY <1>1, <1>3, <1>6 DEF s

\* All but one cut and one text are kept.
Kept(m, r, b, user, class, variable, k, x) ==
  /\ \A other \in Kinds \ {class} :
       r.cut[other] = m.cut[other] /\ (GoneOf(m, b, user, other) => GoneOf(r, b, user, other))
  /\ r.variables.pov_character = m.variables.pov_character
  /\ r.variables.previous_chapter_summary = m.variables.previous_chapter_summary
  /\ r.variables.chapter_outline = m.variables.chapter_outline
  /\ r.cut[class] = k /\ r.variables[variable] = x
  /\ \A c, v : Told(c, v) /\ c # class => Part(r, user, c, v)

\* A turn that changes one cut and one text leaves the other kinds as they are.
LEMMA OthersKept ==
    ASSUME NEW m, NEW r, NEW b, NEW user, NEW class, NEW variable, Told(class, variable), NEW k, NEW x,
           Whole(m, user), r.found = m.found, r.cut = [m.cut EXCEPT ![class] = k],
           r.variables = [m.variables EXCEPT ![variable] = x]
    PROVE  Kept(m, r, b, user, class, variable, k, x)
<1>1. /\ m.variables \in [Names -> Int] /\ m.cut \in [Kinds -> Nat]
      /\ Part(m, user, "world", "world_setting") /\ Part(m, user, "timeline", "timeline")
      /\ Part(m, user, "plots", "plot_threads")
    BY DEF Whole, MaterialOK
<1>2. class \in Kinds /\ variable \in Names
    BY ToldAre
<1> DEFINE v == m.variables
           w == r.variables
           u == m.cut
           z == r.cut
<1>3. /\ \A name \in Names : name # variable => w[name] = v[name]
      /\ \A kind \in Kinds : kind # class => z[kind] = u[kind]
      /\ w[variable] = x /\ z[class] = k
    BY <1>1, <1>2
<1> HIDE DEF v, w, u, z
<1>4. /\ class # "world" => w["world_setting"] = v["world_setting"]
      /\ class # "timeline" => w["timeline"] = v["timeline"]
      /\ class # "plots" => w["plot_threads"] = v["plot_threads"]
      /\ w["pov_character"] = v["pov_character"]
      /\ w["previous_chapter_summary"] = v["previous_chapter_summary"]
      /\ w["chapter_outline"] = v["chapter_outline"]
      /\ z["characters"] = u["characters"]
    BY <1>2, <1>3 DEF Told, Names, Kinds
<1>5. ASSUME NEW other \in Kinds \ {class} PROVE GoneOf(m, b, user, other) => GoneOf(r, b, user, other)
    BY <1>4, <1>5 DEF GoneOf, v, w, u, z
<1>6. ASSUME NEW c, NEW d, Told(c, d), c # class PROVE Part(r, user, c, d)
    <2>1. c \in Kinds
        BY <1>6, ToldAre
    <2>2. z[c] = u[c] /\ w[d] = v[d]
        BY <1>3, <1>4, <1>6, <2>1 DEF Told
    <2>3. Part(m, user, c, d)
        BY <1>1, <1>6 DEF Told
    <2> QED
        BY <2>2, <2>3 DEF Part, v, w, u, z
<1> QED
    BY <1>3, <1>4, <1>5, <1>6 DEF Kept, v, w, u, z

\* The turns of the world entries, the events and the plot threads.
LEMMA DropTurn ==
    ASSUME NEW m, NEW b, NEW user, NEW class, NEW variable, Told(class, variable),
           Whole(m, user), m.cut[class] = 0
    PROVE  Turn(m, DropItems(m, b, user, class, variable), b, user, class)
<1> DEFINE r == DropItems(m, b, user, class, variable)
           items == m.found[class]
           N == Len(items)
<1>1. PICK T : items \in Seq(T) /\ \A x \in T : x.size \in Nat
    <2>1. /\ m.found.world \in Seq(WorldRows) /\ m.found.plots \in Seq(PlotRows)
          /\ m.found.timeline \in Seq(EventRows)
        BY DEF Whole
    <2>2. class = "world" \/ class = "timeline" \/ class = "plots"
        BY DEF Told
    <2> QED
        BY <2>1, <2>2, SizesAre
<1>2. class \in Kinds /\ variable \in Names
    BY ToldAre
<1>3. MaterialOK(m) /\ Part(m, user, class, variable)
    BY DEF Whole, Told
<1>4. \/ r = m /\ (variable \in user \/ items = <<>> \/ ~ TooLong(m, b))
      \/ /\ TooLong(m, b) /\ variable \notin user
         /\ \E k \in 1..Len(items) : Dropped(m, r, b, class, variable, k)
    BY <1>1, <1>2, <1>3, DropItemsIs
<1> HIDE DEF r, items
<1>5. N \in Nat /\ (N = 0 <=> items = <<>>)
    BY <1>1, EmptySeq, LenProperties
<1>6. variable \in user \/ r.variables[variable] = 0 => GoneOf(r, b, user, class)
    BY DEF GoneOf, Told
<1>7. CASE r = m /\ (variable \in user \/ items = <<>> \/ ~ TooLong(m, b))
    <2>1. variable \in user \/ items = <<>> => GoneOf(r, b, user, class)
        <3>1. CASE variable \in user
            BY <1>6, <3>1
        <3>2. CASE items = <<>> /\ variable \notin user
            <4>1. m.variables[variable] = World(Left(class, items, 0))
                BY <1>3, <3>2 DEF Part, items
            <4>2. 0 \in 0..Len(items) /\ 0 = Len(items)
                BY <1>5, <3>2
            <4>3. World(Left(class, items, 0)) = 0
                BY <1>1, <4>2, NothingLeft
            <4> QED
                BY <1>6, <1>7, <4>1, <4>3
        <3> QED
            BY <3>1, <3>2
    <2> QED
        BY <1>7, <2>1 DEF Turn, r
<1>8. CASE /\ TooLong(m, b) /\ variable \notin user
           /\ \E k \in 1..Len(items) : Dropped(m, r, b, class, variable, k)
    <2>1. PICK k \in 1..Len(items) : Dropped(m, r, b, class, variable, k)
        BY <1>8
    <2> DEFINE x == World(Left(class, items, k))
    <2>2. /\ r.found = m.found /\ MaterialOK(r)
          /\ r.variables = [m.variables EXCEPT ![variable] = x]
          /\ r.cut = [m.cut EXCEPT ![class] = k]
          /\ k = N \/ ~ TooLong(r, b)
        BY <2>1 DEF Dropped, items
    <2> HIDE DEF x
    <2>3. Kept(m, r, b, user, class, variable, k, x)
        BY <2>2, OthersKept
    <2>4. /\ \A other \in Kinds \ {class} :
                r.cut[other] = m.cut[other] /\ (GoneOf(m, b, user, other) => GoneOf(r, b, user, other))
          /\ r.variables.pov_character = m.variables.pov_character
          /\ r.variables.previous_chapter_summary = m.variables.previous_chapter_summary
          /\ r.variables.chapter_outline = m.variables.chapter_outline
          /\ r.cut[class] = k /\ r.variables[variable] = x
          /\ \A c, v : Told(c, v) /\ c # class => Part(r, user, c, v)
        BY <2>3 DEF Kept
    <2>5. k \in Nat /\ k > 0 /\ k =< N /\ k \in 0..Len(items)
        BY <1>5
    <2>6. Part(r, user, class, variable)
        BY <1>8, <2>2, <2>4, <2>5 DEF Part, items, x
    <2>7. Whole(r, user)
        <3>1. \A c, v : Told(c, v) => Part(r, user, c, v)
            <4>1. SUFFICES ASSUME NEW c, NEW v, Told(c, v) PROVE Part(r, user, c, v)
                OBVIOUS
            <4>2. c = class => v = variable
                BY <4>1 DEF Told
            <4> QED
                BY <2>4, <2>6, <4>1, <4>2
        <3>2. /\ Part(r, user, "world", "world_setting") /\ Part(r, user, "timeline", "timeline")
              /\ Part(r, user, "plots", "plot_threads")
            BY <3>1 DEF Told
        <3> QED
            BY <2>2, <2>4, <3>2 DEF Whole
    <2>8. Gives(m, r, b, user, class)
        BY <1>8, <2>4, <2>5 DEF Gives
    <2>9. TooLong(r, b) => GoneOf(r, b, user, class)
        <3>1. k = N => x = 0
            BY <1>1, <2>5, NothingLeft DEF x
        <3> QED
            BY <1>6, <2>2, <2>4, <3>1
    <2> QED
        BY <2>2, <2>7, <2>8, <2>9 DEF Turn, r
<1> QED
    BY <1>4, <1>7, <1>8

\* What becomes of the material when two texts and a cut are replaced.
TextsChanged(m, f, v, u, p, q) ==
  /\ [m EXCEPT !.variables.previous_chapter_summary = p, !.variables.previous_chapter_title = q,
               !.cut.previous = 1]
       = [found |-> f,
          variables |-> [[v EXCEPT !["previous_chapter_summary"] = p] EXCEPT !["previous_chapter_title"] = q],
          cut |-> [u EXCEPT !["previous"] = 1]]
  /\ [m EXCEPT !.variables.characters = p, !.variables.main_characters = q, !.cut.characters = 1]
       = [found |-> f, variables |-> [[v EXCEPT !["characters"] = p] EXCEPT !["main_characters"] = q],
          cut |-> [u EXCEPT !["characters"] = 1]]

\* Two texts and a cut of the material are replaced.
LEMMA TwoTexts ==
    ASSUME NEW f, NEW v, NEW u, NEW p, NEW q, NEW m, m = [found |-> f, variables |-> v, cut |-> u]
    PROVE  TextsChanged(m, f, v, u, p, q)
<1>1. [m EXCEPT !.variables.previous_chapter_summary = p, !.variables.previous_chapter_title = q,
                !.cut.previous = 1]
        = [found |-> f,
           variables |-> [[v EXCEPT !["previous_chapter_summary"] = p] EXCEPT !["previous_chapter_title"] = q],
           cut |-> [u EXCEPT !["previous"] = 1]]
    <2> DEFINE v1 == [v EXCEPT !["previous_chapter_summary"] = p]
               m1 == [m EXCEPT !.variables.previous_chapter_summary = p]
               v2 == [v1 EXCEPT !["previous_chapter_title"] = q]
               m2 == [m1 EXCEPT !.variables.previous_chapter_title = q]
    <2>1. m1 = [found |-> f, variables |-> v1, cut |-> u]
        OBVIOUS
    <2> HIDE DEF m1
    <2>2. m2 = [found |-> f, variables |-> v2, cut |-> u]
        <3> HIDE DEF v1
        <3> QED
            BY <2>1
    <2> HIDE DEF m2
    <2>3. [m2 EXCEPT !.cut.previous = 1] = [found |-> f, variables |-> v2, cut |-> [u EXCEPT !["previous"] = 1]]
        <3> HIDE DEF v2
        <3> QED
            BY <2>2
    <2>4. [m EXCEPT !.variables.previous_chapter_summary = p, !.variables.previous_chapter_title = q,
                    !.cut.previous = 1] = [m2 EXCEPT !.cut.previous = 1]
        BY DEF m1, m2
    <2> QED
        BY <2>3, <2>4
<1>2. [m EXCEPT !.variables.characters = p, !.variables.main_characters = q, !.cut.characters = 1]
        = [found |-> f, variables |-> [[v EXCEPT !["characters"] = p] EXCEPT !["main_characters"] = q],
           cut |-> [u EXCEPT !["characters"] = 1]]
    <2> DEFINE v1 == [v EXCEPT !["characters"] = p]
               m1 == [m EXCEPT !.variables.characters = p]
               v2 == [v1 EXCEPT !["main_characters"] = q]
               m2 == [m1 EXCEPT !.variables.main_characters = q]
    <2>1. m1 = [found |-> f, variables |-> v1, cut |-> u]
        OBVIOUS
    <2> HIDE DEF m1
    <2>2. m2 = [found |-> f, variables |-> v2, cut |-> u]
        <3> HIDE DEF v1
        <3> QED
            BY <2>1
    <2> HIDE DEF m2
    <2>3. [m2 EXCEPT !.cut.characters = 1] = [found |-> f, variables |-> v2, cut |-> [u EXCEPT !["characters"] = 1]]
        <3> HIDE DEF v2
        <3> QED
            BY <2>2
    <2>4. [m EXCEPT !.variables.characters = p, !.variables.main_characters = q, !.cut.characters = 1]
            = [m2 EXCEPT !.cut.characters = 1]
        BY DEF m1, m2
    <2> QED
        BY <2>3, <2>4
<1> QED
    BY <1>1, <1>2 DEF TextsChanged

\* What becomes of the material when the outline is replaced.
OutlineChanged(m, f, v, u, p) ==
  [m EXCEPT !.variables.chapter_outline = p, !.cut.outline = 1]
    = [found |-> f, variables |-> [v EXCEPT !["chapter_outline"] = p], cut |-> [u EXCEPT !["outline"] = 1]]

\* One text and a cut of the material are replaced.
LEMMA OneText ==
    ASSUME NEW f, NEW v, NEW u, NEW p, NEW m, m = [found |-> f, variables |-> v, cut |-> u]
    PROVE  OutlineChanged(m, f, v, u, p)
<1> DEFINE w == [v EXCEPT !["chapter_outline"] = p]
           m1 == [m EXCEPT !.variables.chapter_outline = p]
<1>1. m1 = [found |-> f, variables |-> w, cut |-> u]
    OBVIOUS
<1> HIDE DEF m1
<1>2. [m1 EXCEPT !.cut.outline = 1] = [found |-> f, variables |-> w, cut |-> [u EXCEPT !["outline"] = 1]]
    <2> HIDE DEF w
    <2> QED
        BY <1>1
<1>3. [m EXCEPT !.variables.chapter_outline = p, !.cut.outline = 1] = [m1 EXCEPT !.cut.outline = 1]
    BY DEF m1
<1> QED
    BY <1>2, <1>3 DEF OutlineChanged

\* What a turn that changes none of the listed classes keeps of the material.
LEMMA WholeKept ==
    ASSUME NEW m, NEW r, NEW user, Whole(m, user), MaterialOK(r), r.found = m.found,
           \A class \in {"world", "timeline", "plots"} : r.cut[class] = m.cut[class],
           \A x \in {"world_setting", "timeline", "plot_threads"} : r.variables[x] = m.variables[x],
           r.variables.previous_chapter_summary \in Nat, r.variables.chapter_outline \in Nat
    PROVE  Whole(r, user)
<1>1. /\ Part(m, user, "world", "world_setting") /\ Part(m, user, "timeline", "timeline")
      /\ Part(m, user, "plots", "plot_threads")
    BY DEF Whole
<1>2. /\ Part(r, user, "world", "world_setting") /\ Part(r, user, "timeline", "timeline")
      /\ Part(r, user, "plots", "plot_threads")
    BY <1>1 DEF Part
<1> QED
    BY <1>2 DEF Whole

\* The turn of the summary of the chapter before.
LEMMA PreviousTurn ==
    ASSUME NEW m, NEW b, NEW user, Whole(m, user), m.cut.previous = 0
    PROVE  Turn(m, DropPrevious(m, b, user), b, user, "previous")
<1> DEFINE r == DropPrevious(m, b, user)
           f == m.found
           v == m.variables
           u == m.cut
           w == [[v EXCEPT !["previous_chapter_summary"] = 0] EXCEPT !["previous_chapter_title"] = 0]
           z == [u EXCEPT !["previous"] = 1]
           new == [found |-> f, variables |-> w, cut |-> z]
           drops == /\ TooLong(m, b) /\ "previous_chapter_summary" \notin user
                    /\ v.previous_chapter_summary > 0
<1>1. /\ m = [found |-> f, variables |-> v, cut |-> u]
      /\ v \in [Names -> Int] /\ u \in [Kinds -> Nat] /\ v.previous_chapter_summary \in Nat
      /\ v.chapter_outline \in Nat
    BY DEF Whole, MaterialOK
<1>2. r = IF drops THEN new ELSE m
    <2>1. [m EXCEPT !.variables.previous_chapter_summary = 0, !.variables.previous_chapter_title = 0,
                    !.cut.previous = 1] = new
        <3> HIDE DEF f, v, u
        <3>1. TextsChanged(m, f, v, u, 0, 0)
            BY <1>1, TwoTexts
        <3> QED
            BY <3>1 DEF TextsChanged
    <2> QED
        BY <2>1 DEF DropPrevious
<1>3. /\ "previous" \in Kinds /\ "previous_chapter_summary" \in Names /\ "previous_chapter_title" \in Names
    BY DEF Kinds, Names
<1>4. CASE ~ drops
    <2>1. r = m
        BY <1>2, <1>4
    <2>2. TooLong(m, b) => GoneOf(m, b, user, "previous")
        BY <1>1, <1>4 DEF GoneOf
    <2> QED
        BY <2>1, <2>2 DEF Turn
<1>5. CASE drops
    <2>1. r = new
        BY <1>2, <1>5
    <2>2. TooLong(m, b)
        BY <1>5
    <2> HIDE DEF r
    <2>3. r.found = f /\ r.variables = w /\ r.cut = z
        BY <2>1
    <2>4. /\ w \in [Names -> Int] /\ z \in [Kinds -> Nat] /\ z["previous"] = 1 /\ w["previous_chapter_summary"] = 0
          /\ \A x \in Names \ {"previous_chapter_summary", "previous_chapter_title"} : w[x] = v[x]
          /\ \A x \in Kinds \ {"previous"} : z[x] = u[x]
        BY <1>1, <1>3
    <2>5. MaterialOK(r)
        BY <2>1, <2>3, <2>4 DEF MaterialOK
    <2> HIDE DEF w, z, new, drops
    <2>6. /\ w["world_setting"] = v["world_setting"] /\ w["timeline"] = v["timeline"]
          /\ w["plot_threads"] = v["plot_threads"] /\ w["chapter_outline"] = v["chapter_outline"]
          /\ w["pov_character"] = v["pov_character"]
          /\ z["world"] = u["world"] /\ z["timeline"] = u["timeline"] /\ z["plots"] = u["plots"]
          /\ z["characters"] = u["characters"]
        BY <2>4 DEF Names, Kinds
    <2>7. Whole(r, user)
        BY <1>1, <2>3, <2>4, <2>5, <2>6, WholeKept
    <2>8. \A other \in Kinds \ {"previous"} : GoneOf(m, b, user, other) => GoneOf(r, b, user, other)
        BY <2>3, <2>6 DEF GoneOf
    <2>9. Gives(m, r, b, user, "previous")
        BY <2>2, <2>3, <2>4, <2>6, <2>8 DEF Gives
    <2>10. GoneOf(r, b, user, "previous")
        BY <2>3, <2>4 DEF GoneOf
    <2> QED
        BY <2>3, <2>7, <2>9, <2>10 DEF Turn, r
<1> QED
    BY <1>4, <1>5

\* The turn of the characters, who are told shorter.
LEMMA CharactersTurn ==
    ASSUME NEW m, NEW b, NEW user, Whole(m, user), m.cut.characters = 0
    PROVE  Turn(m, CompactCharacters(m, b, user), b, user, "characters")
<1> DEFINE r == CompactCharacters(m, b, user)
           f == m.found
           v == m.variables
           u == m.cut
           shorter == Characters(f.characters, TRUE)
           mains == Characters(f.mains, TRUE)
           w == [[v EXCEPT !["characters"] = shorter] EXCEPT !["main_characters"] = mains]
           z == [u EXCEPT !["characters"] = 1]
           new == [found |-> f, variables |-> w, cut |-> z]
           compacts == TooLong(m, b) /\ "characters" \notin user /\ f.characters # <<>>
<1>1. /\ m = [found |-> f, variables |-> v, cut |-> u]
      /\ v \in [Names -> Int] /\ u \in [Kinds -> Nat] /\ v.previous_chapter_summary \in Nat
      /\ v.chapter_outline \in Nat
      /\ f.characters \in Seq(CharacterRows) /\ f.mains \in Seq(CharacterRows)
    BY DEF Whole, MaterialOK
<1>2. shorter \in Int /\ mains \in Int
    BY <1>1, CharactersTextIs
<1>3. r = IF compacts THEN new ELSE m
    <2>1. [m EXCEPT !.variables.characters = shorter, !.variables.main_characters = mains,
                    !.cut.characters = 1] = new
        <3> HIDE DEF shorter, mains, f, v, u
        <3>1. TextsChanged(m, f, v, u, shorter, mains)
            BY <1>1, TwoTexts
        <3> QED
            BY <3>1 DEF TextsChanged
    <2> QED
        BY <2>1 DEF CompactCharacters
<1> HIDE DEF shorter, mains
<1>4. "characters" \in Kinds /\ "characters" \in Names /\ "main_characters" \in Names
    BY DEF Kinds, Names
<1>5. CASE ~ compacts
    <2>1. r = m
        BY <1>3, <1>5
    <2>2. TooLong(m, b) => GoneOf(m, b, user, "characters")
        BY <1>1, <1>5 DEF GoneOf
    <2> QED
        BY <2>1, <2>2 DEF Turn
<1>6. CASE compacts
    <2>1. r = new
        BY <1>3, <1>6
    <2>2. TooLong(m, b)
        BY <1>6
    <2> HIDE DEF r
    <2>3. r.found = f /\ r.variables = w /\ r.cut = z
        BY <2>1
    <2>4. /\ w \in [Names -> Int] /\ z \in [Kinds -> Nat] /\ z["characters"] = 1
          /\ \A x \in Names \ {"characters", "main_characters"} : w[x] = v[x]
          /\ \A x \in Kinds \ {"characters"} : z[x] = u[x]
        BY <1>1, <1>2, <1>4
    <2>5. MaterialOK(r)
        BY <2>1, <2>3, <2>4 DEF MaterialOK
    <2> HIDE DEF w, z, new, compacts
    <2>6. /\ w["world_setting"] = v["world_setting"] /\ w["timeline"] = v["timeline"]
          /\ w["plot_threads"] = v["plot_threads"] /\ w["chapter_outline"] = v["chapter_outline"]
          /\ w["previous_chapter_summary"] = v["previous_chapter_summary"]
          /\ w["pov_character"] = v["pov_character"]
          /\ z["world"] = u["world"] /\ z["timeline"] = u["timeline"] /\ z["plots"] = u["plots"]
        BY <2>4 DEF Names, Kinds
    <2>7. Whole(r, user)
        BY <1>1, <2>3, <2>4, <2>5, <2>6, WholeKept
    <2>8. \A other \in Kinds \ {"characters"} : GoneOf(m, b, user, other) => GoneOf(r, b, user, other)
        BY <2>3, <2>6 DEF GoneOf
    <2>9. Gives(m, r, b, user, "characters")
        BY <2>2, <2>3, <2>4, <2>6, <2>8 DEF Gives
    <2>10. GoneOf(r, b, user, "characters")
        BY <2>3, <2>4 DEF GoneOf
    <2> QED
        BY <2>3, <2>7, <2>9, <2>10 DEF Turn, r
<1> QED
    BY <1>5, <1>6

\* An outline is not cut shorter than it must be.
CutNoShorter(r, b) ==
  r.cut.outline > 0 /\ ~ TooLong(r, b) => Exceeds([r.variables EXCEPT !.chapter_outline = @ + 1], b)

\* The turn of the outline of the chapter.
LEMMA OutlineTurn ==
    ASSUME NEW m, NEW b, NEW user, Whole(m, user), m.cut.outline = 0
    PROVE  /\ Turn(m, ShortenOutline(m, b, user), b, user, "outline")
           /\ CutNoShorter(ShortenOutline(m, b, user), b)
<1> DEFINE r == ShortenOutline(m, b, user)
           f == m.found
           v == m.variables
           u == m.cut
           length == v.chapter_outline
           w(n) == [v EXCEPT !["chapter_outline"] = n]
           z == [u EXCEPT !["outline"] = 1]
           With(n) == [m EXCEPT !.variables.chapter_outline = n, !.cut.outline = 1]
           fits == {n \in 0..length : ~ TooLong(With(n), b)}
           best == TruncateToFit(length, fits)
           cuts == b.hard /\ TooLong(m, b) /\ "chapter_outline" \notin user /\ length > 0
<1>1. /\ m = [found |-> f, variables |-> v, cut |-> u]
      /\ v \in [Names -> Int] /\ u \in [Kinds -> Nat] /\ v.previous_chapter_summary \in Nat
      /\ length \in Nat
    BY DEF Whole, MaterialOK
<1>2. r = IF cuts THEN With(best) ELSE m
    BY DEF ShortenOutline
<1>3. ASSUME NEW n PROVE With(n) = [found |-> f, variables |-> w(n), cut |-> z]
    <2> HIDE DEF f, v, u
    <2>1. OutlineChanged(m, f, v, u, n)
        BY <1>1, OneText
    <2> QED
        BY <2>1 DEF OutlineChanged
<1>4. "outline" \in Kinds /\ "chapter_outline" \in Names
    BY DEF Kinds, Names
<1>5. ASSUME NEW n \in 0..length
      PROVE  /\ With(n).found = f /\ With(n).variables = w(n) /\ With(n).cut = z
             /\ n \in fits <=> ~ Exceeds(w(n), b)
    <2>1. With(n).found = f /\ With(n).variables = w(n) /\ With(n).cut = z
        <3> HIDE DEF With, w, z, f
        <3> QED
            BY <1>3
    <2>2. TooLong(With(n), b) <=> Exceeds(w(n), b)
        <3> HIDE DEF With, w
        <3> QED
            BY <2>1 DEF TooLong
    <2>3. n \in fits <=> ~ TooLong(With(n), b)
        <3> HIDE DEF With
        <3> QED
            OBVIOUS
    <2> QED
        BY <2>1, <2>2, <2>3
<1>6. w(length) = v
    BY <1>1
<1>7. /\ best \in 0..length
      /\ \/ best \in fits /\ (best = length \/ best + 1 \notin fits)
         \/ best = 0 /\ 0 \notin fits
    <2> HIDE DEF fits, length
    <2> QED
        BY <1>1, TruncateIs
<1>8. CASE ~ cuts
    <2>1. r = m
        BY <1>2, <1>8
    <2>2. TooLong(m, b) => GoneOf(m, b, user, "outline")
        BY <1>1, <1>8 DEF GoneOf
    <2>3. CutNoShorter(r, b)
        BY <2>1 DEF CutNoShorter
    <2> QED
        BY <2>1, <2>2, <2>3 DEF Turn
<1>9. CASE cuts
    <2>1. r = With(best)
        BY <1>2, <1>9
    <2>2. TooLong(m, b) /\ Exceeds(v, b)
        BY <1>9 DEF TooLong
    <2> DEFINE x == w(best)
    <2>3. r.found = f /\ r.variables = x /\ r.cut = z
        <3> HIDE DEF r, With, w, best, z, f
        <3> QED
            BY <1>5, <1>7, <2>1 DEF x
    <2>4. r = [found |-> f, variables |-> x, cut |-> z]
        <3> HIDE DEF r, With, w, best, z, f
        <3> QED
            BY <1>3, <2>1 DEF x
    <2>5. /\ x \in [Names -> Int] /\ z \in [Kinds -> Nat] /\ z["outline"] = 1 /\ x["chapter_outline"] = best
          /\ \A y \in Names \ {"chapter_outline"} : x[y] = v[y]
          /\ \A y \in Kinds \ {"outline"} : z[y] = u[y]
        <3> HIDE DEF best
        <3> QED
            BY <1>1, <1>4, <1>7
    <2>6. TooLong(r, b) <=> best \notin fits
        <3>1. TooLong(r, b) <=> Exceeds(x, b)
            BY <2>3 DEF TooLong
        <3> HIDE DEF r, With, w, best, fits
        <3> QED
            BY <1>5, <1>7, <3>1 DEF x
    <2>7. CutNoShorter(r, b)
        <3>1. SUFFICES ASSUME ~ TooLong(r, b) PROVE Exceeds([r.variables EXCEPT !.chapter_outline = @ + 1], b)
            BY DEF CutNoShorter
        <3>2. best # length
            <4>1. length \notin fits
                <5>1. length \in 0..length
                    BY <1>1
                <5> HIDE DEF With, w, fits, length
                <5> QED
                    BY <1>5, <1>6, <2>2, <5>1
            <4> HIDE DEF best, fits, length
            <4> QED
                BY <2>6, <3>1, <4>1
        <3>3. best + 1 \in 0..length /\ best + 1 \notin fits
            <4> HIDE DEF best, fits, r
            <4> QED
                BY <1>1, <1>7, <2>6, <3>1, <3>2
        <3>4. Exceeds(w(best + 1), b)
            <4> HIDE DEF best, fits, w
            <4> QED
                BY <1>5, <3>3
        <3>5. [x EXCEPT !["chapter_outline"] = x["chapter_outline"] + 1] = w(best + 1)
            <4> HIDE DEF best
            <4> QED
                BY <1>1, <1>4, <2>5
        <3>6. [r.variables EXCEPT !.chapter_outline = @ + 1] = w(best + 1)
            <4> HIDE DEF best, r, w, x
            <4> QED
                BY <2>3, <3>5
        <3> QED
            BY <3>4, <3>6
    <2>8. best \notin fits => best = 0
        <3> HIDE DEF best, fits
        <3> QED
            BY <1>7
    <2> HIDE DEF r, x, z, w, With, best, fits, cuts
    <2>9. MaterialOK(r)
        BY <2>3, <2>4, <2>5 DEF MaterialOK
    <2>10. /\ x["world_setting"] = v["world_setting"] /\ x["timeline"] = v["timeline"]
           /\ x["plot_threads"] = v["plot_threads"]
           /\ x["previous_chapter_summary"] = v["previous_chapter_summary"]
           /\ x["pov_character"] = v["pov_character"]
           /\ z["world"] = u["world"] /\ z["timeline"] = u["timeline"] /\ z["plots"] = u["plots"]
           /\ z["characters"] = u["characters"]
        BY <2>5 DEF Names, Kinds
    <2>11. r.variables.chapter_outline \in Nat /\ r.variables.previous_chapter_summary \in Nat
        <3>1. best \in Nat
            BY <1>7
        <3> QED
            BY <1>1, <2>3, <2>5, <2>10, <3>1
    <2>12. Whole(r, user)
        BY <2>3, <2>9, <2>10, <2>11, WholeKept
    <2>13. \A other \in Kinds \ {"outline"} : GoneOf(m, b, user, other) => GoneOf(r, b, user, other)
        BY <2>3, <2>10 DEF GoneOf
    <2>14. Gives(m, r, b, user, "outline")
        BY <2>2, <2>3, <2>5, <2>10, <2>13 DEF Gives
    <2>15. TooLong(r, b) => GoneOf(r, b, user, "outline")
        BY <2>3, <2>5, <2>6, <2>8 DEF GoneOf
    <2> QED
        BY <2>3, <2>7, <2>12, <2>14, <2>15 DEF Turn, r
<1> QED
    BY <1>8, <1>9

\* Before the first turn nothing is cut.
LEMMA StartIs ==
    ASSUME NEW p \in Projects, NEW user, NEW b
    PROVE  Stage(Material(Gather(p, user)), Gather(p, user), b, user, 0)
<1> DEFINE g == Gather(p, user)
           m == Material(g)
<1>1. Gathered(g, p, user)
    BY GatherIs
<1> HIDE DEF g
<1>2. m = [found |-> g, variables |-> g.variables, cut |-> Uncut]
    BY DEF Material
<1>3. Uncut \in [Kinds -> Nat] /\ \A kind \in Kinds : Uncut[kind] = 0
    BY DEF Uncut, Kinds
<1>4. m.found = g /\ m.variables = g.variables /\ m.cut = Uncut
    BY <1>2
<1>5. /\ g.world \in Seq(WorldRows) /\ g.plots \in Seq(PlotRows) /\ g.timeline \in Seq(EventRows)
      /\ g.characters \in Seq(CharacterRows) /\ g.mains \in Seq(CharacterRows)
      /\ g.variables \in [Names -> Int]
      /\ "world_setting" \notin user => g.variables.world_setting = World(g.world)
      /\ "timeline" \notin user => g.variables.timeline = World(g.timeline)
      /\ "plot_threads" \notin user => g.variables.plot_threads = World(g.plots)
      /\ g.variables["chapter_outline"] \in Nat /\ g.variables["previous_chapter_summary"] \in Nat
    BY <1>1 DEF Gathered
<1>6. MaterialOK(m)
    BY <1>2, <1>3, <1>4, <1>5 DEF MaterialOK
<1> HIDE DEF m
<1>7. ASSUME NEW T, NEW items \in Seq(T), NEW class
      PROVE  Left(class, items, 0) = items /\ 0 =< Len(items)
    <2>1. 0 \in 0..Len(items)
        BY <1>7
    <2> QED
        BY <2>1, LeftIs
<1>8. \A class : class \in {"world", "timeline", "plots"} => m.cut[class] = 0
    BY <1>3, <1>4 DEF Kinds
<1>9. /\ Left("world", g.world, 0) = g.world /\ 0 =< Len(g.world)
      /\ Left("timeline", g.timeline, 0) = g.timeline /\ 0 =< Len(g.timeline)
      /\ Left("plots", g.plots, 0) = g.plots /\ 0 =< Len(g.plots)
    BY <1>5, <1>7
<1>10. /\ Part(m, user, "world", "world_setting") /\ Part(m, user, "timeline", "timeline")
       /\ Part(m, user, "plots", "plot_threads")
    BY <1>4, <1>5, <1>8, <1>9 DEF Part
<1>11. Whole(m, user)
    BY <1>4, <1>5, <1>6, <1>10 DEF Whole
<1>12. \A k \in 1..6 : m.cut[Turns[k]] = 0
    BY <1>3, <1>4, TurnsAre
<1> QED
    BY <1>4, <1>11, <1>12 DEF Stage, m, g

\* What a kind has not had its turn of is not cut.
LEMMA NotYetCut ==
    ASSUME NEW m, NEW g, NEW b, NEW user, NEW n \in 1..6, Stage(m, g, b, user, n - 1)
    PROVE  Whole(m, user) /\ m.cut[Turns[n]] = 0
<1>1. Whole(m, user) /\ (m.cut[Turns[n]] > 0 => n =< n - 1)
    BY DEF Stage
<1>2. m.cut \in [Kinds -> Nat] /\ Turns[n] \in Kinds
    BY <1>1, TurnsAre DEF Whole, MaterialOK
<1> QED
    BY <1>1, <1>2

\* The six turns, in their order.
LEMMA AssembledIs ==
    ASSUME NEW p \in Projects, NEW b, NEW user
    PROVE  \E m : /\ Assemble(p, b, user) = ContextOf(m, b, user)
                  /\ Stage(m, Gather(p, user), b, user, 6) /\ CutNoShorter(m, b)
<1> DEFINE g == Gather(p, user)
           m0 == Material(g)
           m1 == DropWorld(m0, b, user)
           m2 == DropTimeline(m1, b, user)
           m3 == DropPlots(m2, b, user)
           m4 == DropPrevious(m3, b, user)
           m5 == CompactCharacters(m4, b, user)
           m6 == ShortenOutline(m5, b, user)
<1>1. Stage(m0, g, b, user, 0)
    BY StartIs
<1>2. Assemble(p, b, user) = ContextOf(m6, b, user)
    BY DEF Assemble
<1>3. /\ m1 = DropItems(m0, b, user, "world", "world_setting")
      /\ m2 = DropItems(m1, b, user, "timeline", "timeline")
      /\ m3 = DropItems(m2, b, user, "plots", "plot_threads")
    BY DEF DropWorld, DropTimeline, DropPlots
<1>4. m4 = DropPrevious(m3, b, user) /\ m5 = CompactCharacters(m4, b, user) /\ m6 = ShortenOutline(m5, b, user)
    OBVIOUS
<1>5. Told("world", "world_setting") /\ Told("timeline", "timeline") /\ Told("plots", "plot_threads")
    BY DEF Told
<1>6. /\ Turns[1] = "world" /\ Turns[2] = "timeline" /\ Turns[3] = "plots" /\ Turns[4] = "previous"
      /\ Turns[5] = "characters" /\ Turns[6] = "outline"
    BY TurnsAre
<1> HIDE DEF m0, m1, m2, m3, m4, m5, m6, g
<1> DEFINE At(m, n) == Stage(m, g, b, user, n)
<1>7. ASSUME NEW m, NEW n \in 1..6, At(m, n - 1)
      PROVE  Whole(m, user) /\ m.cut[Turns[n]] = 0
    BY <1>7, NotYetCut
<1>8. ASSUME NEW m, NEW r, NEW n \in 1..6, At(m, n - 1), Turn(m, r, b, user, Turns[n]) PROVE At(r, n)
    BY <1>8, StageStep
<1>9. /\ 1 \in 1..6 /\ 1 - 1 = 0 /\ 2 \in 1..6 /\ 2 - 1 = 1 /\ 3 \in 1..6 /\ 3 - 1 = 2
      /\ 4 \in 1..6 /\ 4 - 1 = 3 /\ 5 \in 1..6 /\ 5 - 1 = 4 /\ 6 \in 1..6 /\ 6 - 1 = 5
    OBVIOUS
<1>10. At(m0, 0)
    BY <1>1
<1> HIDE DEF At
<1>11. At(m1, 1)
    <2>1. Whole(m0, user) /\ m0.cut["world"] = 0
        BY <1>6, <1>7, <1>9, <1>10
    <2>2. Turn(m0, m1, b, user, "world")
        BY <1>3, <1>5, <2>1, DropTurn
    <2> QED
        BY <1>6, <1>8, <1>9, <1>10, <2>2
<1>12. At(m2, 2)
    <2>1. Whole(m1, user) /\ m1.cut["timeline"] = 0
        BY <1>6, <1>7, <1>9, <1>11
    <2>2. Turn(m1, m2, b, user, "timeline")
        BY <1>3, <1>5, <2>1, DropTurn
    <2> QED
        BY <1>6, <1>8, <1>9, <1>11, <2>2
<1>13. At(m3, 3)
    <2>1. Whole(m2, user) /\ m2.cut["plots"] = 0
        BY <1>6, <1>7, <1>9, <1>12
    <2>2. Turn(m2, m3, b, user, "plots")
        BY <1>3, <1>5, <2>1, DropTurn
    <2> QED
        BY <1>6, <1>8, <1>9, <1>12, <2>2
<1>14. At(m4, 4)
    <2>1. Whole(m3, user) /\ m3.cut["previous"] = 0
        BY <1>6, <1>7, <1>9, <1>13
    <2>2. Turn(m3, m4, b, user, "previous")
        BY <1>4, <2>1, PreviousTurn
    <2> QED
        BY <1>6, <1>8, <1>9, <1>13, <2>2
<1>15. At(m5, 5)
    <2>1. Whole(m4, user) /\ m4.cut["characters"] = 0
        BY <1>6, <1>7, <1>9, <1>14
    <2>2. Turn(m4, m5, b, user, "characters")
        BY <1>4, <2>1, CharactersTurn
    <2> QED
        BY <1>6, <1>8, <1>9, <1>14, <2>2
<1>16. At(m6, 6) /\ CutNoShorter(m6, b)
    <2>1. Whole(m5, user) /\ m5.cut["outline"] = 0
        BY <1>6, <1>7, <1>9, <1>15
    <2>2. Turn(m5, m6, b, user, "outline") /\ CutNoShorter(m6, b)
        BY <1>4, <2>1, OutlineTurn
    <2> QED
        BY <1>6, <1>8, <1>9, <1>15, <2>2
<1>17. Assemble(p, b, user) = ContextOf(m6, b, user)
    BY <1>2
<1> QED
    BY <1>16, <1>17 DEF At, g

\* The ids of what is left are a beginning, or an end, of the ids.
LEMMA IdsLeft ==
    ASSUME NEW T, NEW items \in Seq(T), NEW k \in 0..Len(items)
    PROVE  /\ IsPrefix(Ids(WithoutLast(items, k)), Ids(items))
           /\ IsSuffix(Ids(WithoutFirst(items, k)), Ids(items))
<1> DEFINE N == Len(items)
           n == N - k
           X == {x.id : x \in T}
           head == WithoutLast(items, k)
           tail == WithoutFirst(items, k)
           all == Ids(items)
           h == Ids(head)
           t == Ids(tail)
<1>1. N \in Nat /\ DOMAIN items = 1..N /\ k \in Nat /\ n \in Nat /\ n =< N
    OBVIOUS
<1>2. head \in Seq(T) /\ Len(head) = n /\ \A i \in 1..n : head[i] = items[i]
    BY HeadIs
<1>3. tail \in Seq(T) /\ Len(tail) = n /\ \A i \in 1..n : tail[i] = items[k + i]
    BY TailIs
<1>4. all \in Seq(X) /\ Len(all) = N /\ DOMAIN all = 1..N /\ \A i \in 1..N : all[i] = items[i].id
    BY <1>1, IdsAre
<1> HIDE DEF head, tail
<1>5. DOMAIN head = 1..n /\ DOMAIN tail = 1..n
    BY <1>2, <1>3
<1> HIDE DEF n
<1>6. h \in Seq(X) /\ Len(h) = n /\ \A i \in 1..n : h[i] = all[i]
    <2>1. h \in Seq(X) /\ Len(h) = n /\ \A i \in 1..n : h[i] = head[i].id
        BY <1>2, <1>5, IdsAre
    <2>2. \A i \in 1..n : i \in 1..N
        BY <1>1
    <2> HIDE DEF h, all, N
    <2> QED
        BY <1>2, <1>4, <2>1, <2>2
<1>7. t \in Seq(X) /\ Len(t) = n /\ \A i \in 1..n : t[i] = all[k + i]
    <2>1. t \in Seq(X) /\ Len(t) = n /\ \A i \in 1..n : t[i] = tail[i].id
        BY <1>3, <1>5, IdsAre
    <2>2. \A i \in 1..n : k + i \in 1..N
        BY <1>1 DEF n
    <2> HIDE DEF t, all, N
    <2> QED
        BY <1>3, <1>4, <2>1, <2>2
<1> HIDE DEF h, t, all, X, N
<1>8. IsPrefix(h, all)
    <2>1. n \in Nat /\ n =< Len(h) /\ n =< Len(all)
        BY <1>1, <1>4, <1>6
    <2> DEFINE a == SubSeq(h, 1, n)
               c == SubSeq(all, 1, n)
    <2>2. a \in Seq(X) /\ Len(a) = n /\ \A i \in 1..n : a[i] = h[i]
        BY <1>6, <2>1, PrefixIs
    <2>3. c \in Seq(X) /\ Len(c) = n /\ \A i \in 1..n : c[i] = all[i]
        BY <1>4, <2>1, PrefixIs
    <2> HIDE DEF a, c
    <2>4. a = c
        <3>1. Len(a) = Len(c) /\ \A i \in 1..Len(a) : a[i] = c[i]
            BY <1>6, <2>2, <2>3
        <3> QED
            BY <2>2, <2>3, <3>1, SeqEqual
    <2> QED
        BY <1>1, <1>4, <1>6, <2>4 DEF IsPrefix, a, c
<1>9. IsSuffix(t, all)
    <2> DEFINE u == Reverse(t)
               v == Reverse(all)
    <2>1. u = [i \in 1..n |-> t[(n - i) + 1]] /\ v = [i \in 1..N |-> all[(N - i) + 1]]
        BY <1>4, <1>7 DEF Reverse
    <2>2. \A i \in 1..n : (n - i) + 1 \in 1..n
        BY <1>1
    <2>3. \A i \in 1..N : (N - i) + 1 \in 1..N
        BY <1>1
    <2>4. \A i \in 1..n : t[i] \in X
        <3>1. DOMAIN t = 1..n
            BY <1>7
        <3> QED
            BY <1>7, <3>1
    <2>5. \A i \in 1..N : all[i] \in X
        BY <1>4
    <2>6. u \in [1..n -> X] /\ \A i \in 1..n : u[i] = t[(n - i) + 1]
        BY <2>1, <2>2, <2>4
    <2>7. v \in [1..N -> X] /\ \A i \in 1..N : v[i] = all[(N - i) + 1]
        BY <2>1, <2>3, <2>5
    <2> HIDE DEF u, v
    <2>8. u \in Seq(X) /\ Len(u) = n /\ v \in Seq(X) /\ Len(v) = N
        BY <1>1, <2>6, <2>7, ListIs
    <2>9. ASSUME NEW i \in 1..n PROVE u[i] = v[i]
        <3> DEFINE j == (n - i) + 1
        <3>1. j \in 1..n
            BY <2>2
        <3>2. i \in 1..N /\ k + j = (N - i) + 1
            BY <1>1 DEF n
        <3> HIDE DEF j
        <3>3. t[j] = all[k + j]
            BY <1>7, <3>1
        <3>4. u[i] = t[j]
            BY <2>6 DEF j
        <3>5. v[i] = all[(N - i) + 1]
            BY <2>7, <3>2
        <3> QED
            BY <3>2, <3>3, <3>4, <3>5
    <2>10. n \in Nat /\ n =< Len(u) /\ n =< Len(v)
        BY <1>1, <2>8
    <2> DEFINE a == SubSeq(u, 1, n)
               c == SubSeq(v, 1, n)
    <2>11. a \in Seq(X) /\ Len(a) = n /\ \A i \in 1..n : a[i] = u[i]
        BY <2>8, <2>10, PrefixIs
    <2>12. c \in Seq(X) /\ Len(c) = n /\ \A i \in 1..n : c[i] = v[i]
        BY <2>8, <2>10, PrefixIs
    <2> HIDE DEF a, c
    <2>13. a = c
        <3>1. Len(a) = Len(c) /\ \A i \in 1..Len(a) : a[i] = c[i]
            BY <2>9, <2>11, <2>12
        <3> QED
            BY <2>11, <2>12, <3>1, SeqEqual
    <2>14. IsPrefix(u, v)
        BY <1>1, <2>8, <2>13 DEF IsPrefix, a, c
    <2> QED
        BY <2>14 DEF IsSuffix, u, v
<1> QED
    BY <1>8, <1>9 DEF h, t, all, head, tail

\* GivenUpInOrder of a context.
InOrder(r, user, b) ==
  LET Heavy(v) == Exceeds(v, b)
      gone == [world |-> r.variables.world_setting = 0 \/ "world_setting" \in user,
               timeline |-> r.variables.timeline = 0 \/ "timeline" \in user,
               plots |-> r.variables.plot_threads = 0 \/ "plot_threads" \in user,
               previous |-> r.variables.previous_chapter_summary = 0 \/ "previous_chapter_summary" \in user,
               characters |-> "characters" \in r.truncated \cup user \/ r.ranked.characters = <<>>,
               outline |-> r.variables.chapter_outline = 0 \/ "chapter_outline" \in user \/ ~ b.hard]
      order == <<"world", "timeline", "plots", "previous", "characters", "outline">>
  IN  /\ (r.truncated # {}) => Heavy(r.before)
      /\ \A n \in DOMAIN order : order[n] \in r.truncated => \A m \in 1..(n - 1) : gone[order[m]]
      /\ r.exceeded => \A x \in DOMAIN gone : gone[x]
      /\ "world_setting" \notin user => IsPrefix(r.items.world, r.ranked.world)
      /\ "plot_threads" \notin user => IsPrefix(r.items.plots, r.ranked.plots)
      /\ "timeline" \notin user => IsSuffix(r.items.timeline, r.ranked.timeline)
      /\ "outline" \in r.truncated /\ ~ r.exceeded => Heavy([r.variables EXCEPT !.chapter_outline = @ + 1])
      /\ (r.items.world # <<>>) = (r.variables.world_setting > 0 /\ "world_setting" \notin user)
      /\ (r.items.timeline # <<>>) = (r.variables.timeline > 0 /\ "timeline" \notin user)

\* The ids that are listed of a class whose text a context tells.
LEMMA ListedIs ==
    ASSUME NEW T, \A x \in T : x.size \in Nat, NEW m, NEW user, NEW class, NEW variable,
           Part(m, user, class, variable), m.found[class] \in Seq(T), m.cut[class] \in Nat, NEW ids,
           ids = IF variable \in user THEN <<>> ELSE Ids(Left(class, m.found[class], m.cut[class]))
    PROVE  (ids # <<>>) <=> (m.variables[variable] > 0 /\ variable \notin user)
<1> DEFINE items == m.found[class]
           k == m.cut[class]
           s == Left(class, items, k)
           x == m.variables[variable]
<1>1. /\ k \in Nat /\ k =< Len(items) /\ items \in Seq(T) /\ Len(items) \in Nat
      /\ variable \notin user => x = World(s)
    BY DEF Part
<1>2. k \in 0..Len(items)
    BY <1>1
<1> HIDE DEF items, k, x
<1>3. s \in Seq(T) /\ World(s) \in Nat /\ (World(s) = 0 <=> s = <<>>)
    BY <1>1, <1>2, NothingLeft
<1>4. ids = IF variable \in user THEN <<>> ELSE Ids(s)
    BY DEF items, k
<1> HIDE DEF s
<1>5. Ids(s) = <<>> <=> s = <<>>
    BY <1>3, IdsAre
<1>6. CASE variable \in user
    BY <1>4, <1>6
<1>7. CASE variable \notin user
    <2>1. ids = Ids(s) /\ x = World(s)
        BY <1>1, <1>4, <1>7
    <2> QED
        BY <1>3, <1>5, <1>7, <2>1 DEF x
<1> QED
    BY <1>6, <1>7

\* What a context records of the material that is left.
Records(r, m, b, user) ==
  /\ r.before = m.found.variables /\ r.variables = m.variables
  /\ r.ranked.world = Ids(m.found.world) /\ r.ranked.plots = Ids(m.found.plots)
  /\ r.ranked.timeline = Ids(m.found.timeline) /\ r.ranked.characters = Ids(m.found.characters)
  /\ r.items.world = IF "world_setting" \in user THEN <<>> ELSE Ids(WithoutLast(m.found.world, m.cut.world))
  /\ r.items.timeline = IF "timeline" \in user THEN <<>> ELSE Ids(WithoutFirst(m.found.timeline, m.cut.timeline))
  /\ r.items.plots = IF "plot_threads" \in user THEN <<>> ELSE Ids(WithoutLast(m.found.plots, m.cut.plots))
  /\ r.truncated = {class \in DOMAIN m.cut : m.cut[class] > 0}
  /\ r.exceeded <=> TooLong(m, b)

\* A context records the material it was made of.
LEMMA RecordsIs ==
    ASSUME NEW m, NEW b, NEW user
    PROVE  Records(ContextOf(m, b, user), m, b, user)
<1> DEFINE r == ContextOf(m, b, user)
           Listed(variable, items) == IF variable \in user THEN <<>> ELSE Ids(items)
           world == Listed("world_setting", WithoutLast(m.found.world, m.cut.world))
           timeline == Listed("timeline", WithoutFirst(m.found.timeline, m.cut.timeline))
           plots == Listed("plot_threads", WithoutLast(m.found.plots, m.cut.plots))
           people == Listed("characters", m.found.characters)
           chapters == IF m.cut.previous > 0 \/ m.found.previous.chapter.id = 0 THEN <<>>
                       ELSE Listed("previous_chapter_summary", <<m.found.previous.chapter>>)
           items == [world |-> world, timeline |-> timeline, plots |-> plots,
                     characters |-> people, chapters |-> chapters]
           ranked == [class \in {"world", "plots", "timeline", "characters"} |-> Ids(m.found[class])]
           truncated == {class \in DOMAIN m.cut : m.cut[class] > 0}
           exceeded == TooLong(m, b)
<1>1. r = [error |-> "none", saved |-> TRUE, before |-> m.found.variables, variables |-> m.variables,
           ranked |-> ranked, items |-> items, truncated |-> truncated,
           fallback |-> m.found.previous.fallback, exceeded |-> exceeded]
    BY DEF ContextOf
<1>2. items.world = world /\ items.timeline = timeline /\ items.plots = plots
    <2> HIDE DEF world, timeline, plots, people, chapters
    <2> QED
        OBVIOUS
<1>3. /\ ranked.world = Ids(m.found.world) /\ ranked.plots = Ids(m.found.plots)
      /\ ranked.timeline = Ids(m.found.timeline) /\ ranked.characters = Ids(m.found.characters)
    OBVIOUS
<1> HIDE DEF r, items, ranked, exceeded, truncated
<1>4. /\ r.before = m.found.variables /\ r.variables = m.variables /\ r.ranked = ranked /\ r.items = items
      /\ r.truncated = truncated /\ (r.exceeded <=> exceeded)
    BY <1>1
<1>5. r.items.world = world /\ r.items.timeline = timeline /\ r.items.plots = plots
    <2> HIDE DEF world, timeline, plots
    <2> QED
        BY <1>2, <1>4
<1> QED
    BY <1>3, <1>4, <1>5 DEF Records, r, truncated, exceeded

\* A context of what is left after the six turns is given up in order.
LEMMA InOrderIs ==
    ASSUME NEW m, NEW g, NEW b, NEW user, NEW r,
           Stage(m, g, b, user, 6), CutNoShorter(m, b), Records(r, m, b, user)
    PROVE  InOrder(r, user, b)
<1> DEFINE gone == [world |-> r.variables.world_setting = 0 \/ "world_setting" \in user,
               timeline |-> r.variables.timeline = 0 \/ "timeline" \in user,
               plots |-> r.variables.plot_threads = 0 \/ "plot_threads" \in user,
               previous |-> r.variables.previous_chapter_summary = 0 \/ "previous_chapter_summary" \in user,
               characters |-> "characters" \in r.truncated \cup user \/ r.ranked.characters = <<>>,
               outline |-> r.variables.chapter_outline = 0 \/ "chapter_outline" \in user \/ ~ b.hard]
           order == <<"world", "timeline", "plots", "previous", "characters", "outline">>
           heavy == Exceeds(g.variables, b)
           f == m.found
           u == m.cut
           Gone(k) == GoneOf(m, b, user, Turns[k])
<1>1. /\ Whole(m, user) /\ m.found = g
      /\ \A k \in 1..6 : m.cut[Turns[k]] > 0 => k =< 6 /\ heavy /\ \A j \in 1..(k - 1) : Gone(j)
      /\ TooLong(m, b) => \A j \in 1..6 : Gone(j)
    BY DEF Stage
<1>2. /\ m.variables \in [Names -> Int] /\ m.cut \in [Kinds -> Nat]
      /\ Part(m, user, "world", "world_setting") /\ Part(m, user, "timeline", "timeline")
      /\ Part(m, user, "plots", "plot_threads")
      /\ m.found.world \in Seq(WorldRows) /\ m.found.plots \in Seq(PlotRows)
      /\ m.found.timeline \in Seq(EventRows) /\ m.found.characters \in Seq(CharacterRows)
    BY <1>1 DEF Whole, MaterialOK
<1>3. /\ r.before = m.found.variables /\ r.variables = m.variables
      /\ r.ranked.world = Ids(m.found.world) /\ r.ranked.plots = Ids(m.found.plots)
      /\ r.ranked.timeline = Ids(m.found.timeline) /\ r.ranked.characters = Ids(m.found.characters)
      /\ r.items.world = IF "world_setting" \in user THEN <<>> ELSE Ids(WithoutLast(m.found.world, m.cut.world))
      /\ r.items.timeline = IF "timeline" \in user THEN <<>> ELSE Ids(WithoutFirst(m.found.timeline, m.cut.timeline))
      /\ r.items.plots = IF "plot_threads" \in user THEN <<>> ELSE Ids(WithoutLast(m.found.plots, m.cut.plots))
      /\ r.truncated = {class \in DOMAIN m.cut : m.cut[class] > 0}
      /\ (r.exceeded <=> TooLong(m, b))
    BY DEF Records
<1>4. /\ "world" \in Kinds /\ "timeline" \in Kinds /\ "plots" \in Kinds /\ "previous" \in Kinds
      /\ "characters" \in Kinds /\ "outline" \in Kinds
    BY DEF Kinds
<1>5. \A class \in Kinds : class \in r.truncated <=> m.cut[class] > 0
    BY <1>2, <1>3
<1>6. \A class \in r.truncated : class \in Kinds
    BY <1>2, <1>3
<1>7. \A kind \in Kinds : \E k \in 1..6 : Turns[k] = kind
    <2>1. 1 \in 1..6 /\ 2 \in 1..6 /\ 3 \in 1..6 /\ 4 \in 1..6 /\ 5 \in 1..6 /\ 6 \in 1..6
        OBVIOUS
    <2> QED
        BY <2>1, TurnsAre DEF Kinds
<1>8. /\ m.cut.world \in Nat /\ m.cut.timeline \in Nat /\ m.cut.plots \in Nat
      /\ m.cut.characters \in Nat
    BY <1>2, <1>4
<1>9. r.ranked.characters = <<>> <=> m.found.characters = <<>>
    BY <1>2, <1>3, IdsAre
<1> HIDE DEF gone, Gone, heavy
<1>10. (r.truncated # {}) => Exceeds(r.before, b)
    <2>1. SUFFICES ASSUME NEW class \in r.truncated PROVE heavy
        BY <1>1, <1>3 DEF heavy
    <2>2. class \in Kinds /\ m.cut[class] > 0
        BY <1>5, <1>6
    <2>3. PICK k \in 1..6 : Turns[k] = class
        BY <1>7, <2>2
    <2> QED
        BY <1>1, <2>2, <2>3
<1>11. /\ DOMAIN gone = Kinds
       /\ GoneOf(m, b, user, "world") => gone["world"]
       /\ GoneOf(m, b, user, "timeline") => gone["timeline"]
       /\ GoneOf(m, b, user, "plots") => gone["plots"]
       /\ GoneOf(m, b, user, "previous") => gone["previous"]
       /\ GoneOf(m, b, user, "characters") => gone["characters"]
       /\ GoneOf(m, b, user, "outline") => gone["outline"]
    <2>1. GoneOf(m, b, user, "world") => r.variables.world_setting = 0 \/ "world_setting" \in user
        BY <1>3 DEF GoneOf
    <2>2. GoneOf(m, b, user, "timeline") => r.variables.timeline = 0 \/ "timeline" \in user
        BY <1>3 DEF GoneOf
    <2>3. GoneOf(m, b, user, "plots") => r.variables.plot_threads = 0 \/ "plot_threads" \in user
        BY <1>3 DEF GoneOf
    <2>4. GoneOf(m, b, user, "previous") =>
            r.variables.previous_chapter_summary = 0 \/ "previous_chapter_summary" \in user
        BY <1>3 DEF GoneOf
    <2>5. GoneOf(m, b, user, "characters") =>
            "characters" \in r.truncated \cup user \/ r.ranked.characters = <<>>
        BY <1>4, <1>5, <1>9 DEF GoneOf
    <2>6. GoneOf(m, b, user, "outline") =>
            r.variables.chapter_outline = 0 \/ "chapter_outline" \in user \/ ~ b.hard
        BY <1>3 DEF GoneOf
    <2>7. DOMAIN gone = Kinds
        BY DEF gone, Kinds
    <2>8. /\ gone["world"] = (r.variables.world_setting = 0 \/ "world_setting" \in user)
          /\ gone["timeline"] = (r.variables.timeline = 0 \/ "timeline" \in user)
          /\ gone["plots"] = (r.variables.plot_threads = 0 \/ "plot_threads" \in user)
          /\ gone["previous"] =
               (r.variables.previous_chapter_summary = 0 \/ "previous_chapter_summary" \in user)
          /\ gone["characters"] = ("characters" \in r.truncated \cup user \/ r.ranked.characters = <<>>)
          /\ gone["outline"] = (r.variables.chapter_outline = 0 \/ "chapter_outline" \in user \/ ~ b.hard)
        BY DEF gone
    <2> QED
        BY <2>1, <2>2, <2>3, <2>4, <2>5, <2>6, <2>7, <2>8
<1>12. \A k \in 1..6 : Gone(k) => gone[Turns[k]]
    <2> SUFFICES ASSUME NEW k \in 1..6, Gone(k) PROVE gone[Turns[k]]
        OBVIOUS
    <2>1. k = 1 \/ k = 2 \/ k = 3 \/ k = 4 \/ k = 5 \/ k = 6
        OBVIOUS
    <2> QED
        BY <1>11, <2>1, TurnsAre DEF Gone
<1>13. order = Turns /\ DOMAIN order = 1..6
    BY DEF Turns
<1> HIDE DEF order
<1>14. \A n \in DOMAIN order : order[n] \in r.truncated => \A j \in 1..(n - 1) : gone[order[j]]
    <2> SUFFICES ASSUME NEW n \in 1..6, Turns[n] \in r.truncated, NEW j \in 1..(n - 1) PROVE gone[Turns[j]]
        BY <1>13
    <2>1. Turns[n] \in Kinds /\ m.cut[Turns[n]] > 0
        BY <1>5, TurnsAre
    <2>2. Gone(j) /\ j \in 1..6
        BY <1>1, <2>1
    <2> QED
        BY <1>12, <2>2
<1>15. r.exceeded => \A x \in DOMAIN gone : gone[x]
    <2> SUFFICES ASSUME TooLong(m, b), NEW x \in Kinds PROVE gone[x]
        BY <1>3, <1>11
    <2>1. PICK k \in 1..6 : Turns[k] = x
        BY <1>7
    <2> QED
        BY <1>1, <1>12, <2>1
<1>16. /\ m.cut.world \in 0..Len(m.found.world) /\ m.cut.timeline \in 0..Len(m.found.timeline)
       /\ m.cut.plots \in 0..Len(m.found.plots)
    <2>1. /\ m.cut["world"] =< Len(m.found["world"]) /\ m.cut["timeline"] =< Len(m.found["timeline"])
          /\ m.cut["plots"] =< Len(m.found["plots"])
        BY <1>2 DEF Part
    <2> QED
        BY <1>2, <1>8, <2>1
<1>17. /\ "world_setting" \notin user => IsPrefix(r.items.world, r.ranked.world)
       /\ "plot_threads" \notin user => IsPrefix(r.items.plots, r.ranked.plots)
       /\ "timeline" \notin user => IsSuffix(r.items.timeline, r.ranked.timeline)
    <2>1. /\ IsPrefix(Ids(WithoutLast(m.found.world, m.cut.world)), Ids(m.found.world))
          /\ IsPrefix(Ids(WithoutLast(m.found.plots, m.cut.plots)), Ids(m.found.plots))
          /\ IsSuffix(Ids(WithoutFirst(m.found.timeline, m.cut.timeline)), Ids(m.found.timeline))
        BY <1>2, <1>16, IdsLeft
    <2> QED
        BY <1>3, <2>1
<1>18. "outline" \in r.truncated /\ ~ r.exceeded => Exceeds([r.variables EXCEPT !.chapter_outline = @ + 1], b)
    BY <1>3, <1>4, <1>5 DEF CutNoShorter
<1>19. (r.items.world # <<>>) <=> (r.variables.world_setting > 0 /\ "world_setting" \notin user)
    <2>1. WithoutLast(m.found.world, m.cut.world) = Left("world", m.found["world"], m.cut["world"])
        BY DEF Left
    <2> DEFINE ids == r.items.world
    <2>2. ids = IF "world_setting" \in user THEN <<>> ELSE Ids(Left("world", m.found["world"], m.cut["world"]))
        BY <1>3, <2>1
    <2> HIDE DEF ids
    <2>3. (ids # <<>>) <=> (m.variables["world_setting"] > 0 /\ "world_setting" \notin user)
        BY <1>2, <1>8, <2>2, ListedIs, SizesAre
    <2> QED
        BY <1>3, <2>3 DEF ids
<1>20. (r.items.timeline # <<>>) <=> (r.variables.timeline > 0 /\ "timeline" \notin user)
    <2>1. WithoutFirst(m.found.timeline, m.cut.timeline) = Left("timeline", m.found["timeline"], m.cut["timeline"])
        BY DEF Left
    <2> DEFINE ids == r.items.timeline
    <2>2. ids = IF "timeline" \in user THEN <<>> ELSE Ids(Left("timeline", m.found["timeline"], m.cut["timeline"]))
        BY <1>3, <2>1
    <2> HIDE DEF ids
    <2>3. (ids # <<>>) <=> (m.variables["timeline"] > 0 /\ "timeline" \notin user)
        BY <1>2, <1>8, <2>2, ListedIs, SizesAre
    <2> QED
        BY <1>3, <2>3 DEF ids
<1> QED
    BY <1>10, <1>14, <1>15, <1>17, <1>18, <1>19, <1>20 DEF InOrder, gone, order

\* NothingOfLaterChapters of a context.
NothingLater(r, p, user) ==
  /\ \A n \in DOMAIN p.timeline, c \in DOMAIN p.chapters :
       /\ p.chapter.id # 0 /\ p.timeline[n].chapter = p.chapters[c].id
       /\ p.chapters[c].index > p.chapter.index
       => p.timeline[n].id \notin ToSet(r.items.timeline)
  /\ \A n \in DOMAIN p.characters :
       p.characters[n].id = p.scene.pov /\ "pov_character" \notin user => r.variables.pov_character > 0

\* An event of a later chapter is later, whatever chapters there are.
LEMMA LaterIs ==
    ASSUME NEW chapters, Keyed(chapters), NEW ours, ours.id # 0, NEW e, NEW c \in DOMAIN chapters,
           e.chapter = chapters[c].id, chapters[c].index > ours.index
    PROVE  Later(e, ours, chapters)
<1> DEFINE Is(n) == chapters[n].id = e.chapter
           first == CHOOSE n \in DOMAIN chapters : Is(n)
<1>1. Is(c)
    OBVIOUS
<1>2. first \in DOMAIN chapters /\ Is(first)
    <2> HIDE DEF Is
    <2> QED
        BY <1>1
<1>3. first = c
    BY <1>2 DEF Keyed
<1>4. ChapterIndex(chapters, e.chapter) = chapters[first].index
    BY <1>1 DEF ChapterIndex
<1> HIDE DEF first
<1> QED
    BY <1>3, <1>4 DEF Later

\* Nothing that lies ahead is in the context, and the one it is told by is.
LEMMA NothingLaterIs ==
    ASSUME NEW p \in Projects, NEW user, NEW b, NEW m, NEW r,
           Stage(m, Gather(p, user), b, user, 6), Records(r, m, b, user)
    PROVE  NothingLater(r, p, user)
<1> DEFINE g == Gather(p, user)
           items == m.found.timeline
           k == m.cut.timeline
           s == WithoutFirst(items, k)
           ids == r.items.timeline
<1>1. Gathered(g, p, user)
    BY GatherIs
<1> HIDE DEF g
<1>2. Whole(m, user) /\ m.found = g /\ m.variables.pov_character = g.variables.pov_character
    BY DEF Stage, g
<1>3. /\ items \in Seq(EventRows) /\ m.cut \in [Kinds -> Nat] /\ "timeline" \in Kinds
      /\ m.cut["timeline"] =< Len(m.found["timeline"])
    BY <1>2 DEF Whole, MaterialOK, Part, Kinds
<1>4. k \in 0..Len(items)
    <2>1. m.cut["timeline"] \in Nat
        BY <1>3
    <2>2. Len(items) \in Nat
        BY <1>3
    <2> QED
        BY <1>3, <2>1, <2>2
<1>5. ids = IF "timeline" \in user THEN <<>> ELSE Ids(s)
    BY DEF Records
<1>6. r.variables = m.variables
    BY DEF Records
<1>7. \A x : Among(x, items) =>
        \E n \in DOMAIN p.timeline : p.timeline[n] = x /\ ~ Later(x, p.chapter, p.chapters)
    BY <1>1, <1>2 DEF Gathered
<1>8. Keyed(p.chapters) /\ Keyed(p.timeline)
    BY ContextAssumption
<1> HIDE DEF items, k
<1>9. s \in Seq(EventRows) /\ \A x : Among(x, s) => Among(x, items)
    <2>1. s = Left("timeline", items, k)
        BY DEF Left
    <2> HIDE DEF s
    <2> QED
        BY <1>3, <1>4, <2>1, LeftIs DEF items
<1> HIDE DEF s, ids
<1>10. ASSUME NEW x, x \in ToSet(ids) PROVE \E e : Among(e, items) /\ e.id = x
    <2>1. ids # <<>>
        BY <1>10 DEF ToSet
    <2>2. ids = Ids(s)
        BY <1>5, <2>1
    <2>3. /\ Ids(s) \in Seq({y.id : y \in EventRows}) /\ DOMAIN Ids(s) = DOMAIN s
          /\ \A n \in DOMAIN s : Ids(s)[n] = s[n].id
        BY <1>9, IdsAre
    <2>4. Among(x, Ids(s))
        BY <1>10, <2>2, <2>3, ToSetIs
    <2>5. PICK n \in DOMAIN s : s[n].id = x
        BY <2>3, <2>4 DEF Among
    <2>6. Among(s[n], s)
        BY DEF Among
    <2> QED
        BY <1>9, <2>5, <2>6
<1>11. ASSUME NEW n \in DOMAIN p.timeline, NEW c \in DOMAIN p.chapters,
              p.chapter.id # 0, p.timeline[n].chapter = p.chapters[c].id, p.chapters[c].index > p.chapter.index,
              p.timeline[n].id \in ToSet(ids)
       PROVE  FALSE
    <2>1. PICK e : Among(e, items) /\ e.id = p.timeline[n].id
        BY <1>10, <1>11
    <2>2. PICK j \in DOMAIN p.timeline : p.timeline[j] = e /\ ~ Later(e, p.chapter, p.chapters)
        BY <1>7, <2>1
    <2>3. j = n
        BY <1>8, <2>1, <2>2 DEF Keyed
    <2>4. Later(p.timeline[n], p.chapter, p.chapters)
        BY <1>8, <1>11, LaterIs
    <2> QED
        BY <2>2, <2>3, <2>4
<1>12. ASSUME NEW n \in DOMAIN p.characters, p.characters[n].id = p.scene.pov, "pov_character" \notin user
       PROVE  r.variables.pov_character > 0
    BY <1>1, <1>2, <1>6, <1>12 DEF Gathered
<1> QED
    BY <1>11, <1>12 DEF NothingLater, ids

\* A call that succeeded answers what was assembled.
LEMMA AnswerIs ==
    ASSUME NEW p, NEW b, NEW user, NEW template, NEW r,
           r = AssembleContext(p, b, user, template) \/ r = AssembleAndRender(p, b, user, template),
           r.error = "none"
    PROVE  r = Assemble(p, b, user)
<1> DEFINE x == AssembleContext(p, b, user, template)
           refusal == Refusal(p, b, template)
           a == Assemble(p, b, user)
<1>1. x = IF refusal # "none" THEN [error |-> refusal, saved |-> FALSE] ELSE a
    BY DEF AssembleContext
<1> HIDE DEF refusal, a
<1>2. x.error = "none" => x = a
    <2> HIDE DEF x
    <2> QED
        BY <1>1
<1>3. r = AssembleAndRender(p, b, user, template) => r = x
    <2> SUFFICES ASSUME r = AssembleAndRender(p, b, user, template) PROVE r = x
        OBVIOUS
    <2>1. r = IF template # "own" THEN [error |-> "TEMPLATE_NOT_FOUND", saved |-> FALSE] ELSE RenderOf(x)
        BY DEF AssembleAndRender
    <2>2. RenderOf(x) = x \/ RenderOf(x) = [error |-> "RENDER_FAILED", saved |-> TRUE]
        <3> HIDE DEF x
        <3> QED
            BY DEF RenderOf
    <2> HIDE DEF x
    <2>3. r = x \/ r.error = "TEMPLATE_NOT_FOUND" \/ r.error = "RENDER_FAILED"
        BY <2>1, <2>2
    <2> QED
        BY <2>3
<1> QED
    BY <1>2, <1>3 DEF a

\* Of a request whatever, what the model is told of a novel is cut in the
\* documented order to its budget, and holds nothing that lies ahead of the
\* chapter: for every project, budget, limit and set of supplied variables.
THEOREM ContextCorrect == ContextSpec => []ContextSound
<1>1. ContextInit => ContextSound
    <2> SUFFICES ASSUME ContextInit PROVE ContextSound
        OBVIOUS
    <2>1. assembled.fn = "none"
        BY DEF ContextInit, Unasked
    <2> QED
        BY <2>1 DEF ContextSound, GivenUpInOrder, NothingOfLaterChapters, Succeeded
<1>2. ContextSound /\ [ContextNext]_assembled => ContextSound'
    <2> SUFFICES ASSUME ContextSound, [ContextNext]_assembled PROVE ContextSound'
        OBVIOUS
    <2>1. CASE UNCHANGED assembled
        BY <2>1 DEF ContextSound, GivenUpInOrder, NothingOfLaterChapters, Succeeded
    <2>2. CASE ContextNext
        <3>1. PICK p \in Projects, budget \in BudgetRequests, user \in Protections,
                   template \in {"none", "own", "of_another"}, call \in {"assemble", "render"} :
                assembled' = [fn |-> call, rows |-> p, budget |-> budget, user |-> user,
                              result |-> IF call = "render" THEN AssembleAndRender(p, budget, user, template)
                                         ELSE AssembleContext(p, budget, user, template)]
            BY <2>2 DEF ContextNext
        <3> DEFINE r == IF call = "render" THEN AssembleAndRender(p, budget, user, template)
                        ELSE AssembleContext(p, budget, user, template)
        <3>2. assembled' = [fn |-> call, rows |-> p, budget |-> budget, user |-> user, result |-> r]
            BY <3>1
        <3>3. r = AssembleContext(p, budget, user, template) \/ r = AssembleAndRender(p, budget, user, template)
            OBVIOUS
        <3> HIDE DEF r
        <3>4. /\ assembled'.rows = p /\ assembled'.budget = budget /\ assembled'.user = user
              /\ assembled'.result = r
            BY <3>2
        <3>5. Succeeded' => r.error = "none"
            BY <3>4 DEF Succeeded
        <3>6. ASSUME r.error = "none" PROVE InOrder(r, user, budget) /\ NothingLater(r, p, user)
            <4>1. r = Assemble(p, budget, user)
                BY <3>3, <3>6, AnswerIs
            <4>2. PICK m : /\ Assemble(p, budget, user) = ContextOf(m, budget, user)
                           /\ Stage(m, Gather(p, user), budget, user, 6) /\ CutNoShorter(m, budget)
                BY AssembledIs
            <4>3. Records(r, m, budget, user)
                BY <4>1, <4>2, RecordsIs
            <4> QED
                BY <4>2, <4>3, InOrderIs, NothingLaterIs
        <3>7. Succeeded' => InOrder(assembled'.result, assembled'.user, assembled'.budget)
            BY <3>4, <3>5, <3>6
        <3>8. Succeeded' => NothingLater(assembled'.result, assembled'.rows, assembled'.user)
            BY <3>4, <3>5, <3>6
        <3>9. GivenUpInOrder'
            BY <3>7 DEF GivenUpInOrder, InOrder
        <3>10. NothingOfLaterChapters'
            BY <3>8 DEF NothingOfLaterChapters, NothingLater
        <3> QED
            BY <3>9, <3>10 DEF ContextSound
    <2> QED
        BY <2>1, <2>2
<1> QED
    BY <1>1, <1>2, PTL DEF ContextSpec
==================================================================================
