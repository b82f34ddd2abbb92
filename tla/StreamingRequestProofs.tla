------------------------ MODULE StreamingRequestProofs ------------------------
(***************************************************************************)
(* Proofs about GenerationStream and about StreamingRequest, which         *)
(* composes it with the scheduler, for any tasks, permits and chunks.      *)
(***************************************************************************)
EXTENDS StreamingRequest, GpuSchedulerProofs, SequenceTheorems

-----------------------------------------------------------------------------
(* The worker and its iterator: the order of the chunks, the completeness  *)
(* of a normal end, and that an error of the model is never lost.          *)
(*                                                                         *)
(* What the caller got says little by itself; the induction needs what is  *)
(* still in the queue, and that a stop signal can only be its last item.   *)

Ended == thread \in {"ending", "dead"}
Left == at \in {"join", "over"}

\* Number of the last chunk that was taken out of the queue.
Taken == IF at = "check" THEN Len(received) + 1 ELSE Len(received)

\* The queue continues where the reader is, up to the last chunk made; a stop
\* signal is its last item and nothing follows it.
QueueInv ==
    ~Left =>
        /\ at = "check" => item = Len(received) + 1
        /\ \A i \in 1..Len(queue) : queue[i] # StopSignal => queue[i] = Taken + i
        /\ \A i \in 1..Len(queue) : queue[i] = StopSignal => i = Len(queue) /\ Ended /\ ~errors
        /\ made = IF \E i \in 1..Len(queue) : queue[i] = StopSignal
                  THEN Taken + Len(queue) - 1
                  ELSE Taken + Len(queue)

\* Where the reader stands tells what the worker has done.
PlaceInv ==
    /\ at = "new" => thread = "new" /\ queue = <<>>
    /\ errors => Ended
    /\ at = "broke" => Ended
    /\ at \in {"drain", "check", "drainYielded", "final"} => Ended /\ ~errors
    /\ at = "final" => queue = <<>>
    /\ Left <=> result # "none"
    /\ result \in {"done", "empty"} => Ended /\ ~errors
    /\ result = "done" => made = Len(received)

StreamInv == TypeOK /\ QueueInv /\ PlaceInv /\ InOrder

-----------------------------------------------------------------------------
LEMMA StreamInitInv == Init => StreamInv
<1> SUFFICES ASSUME Init PROVE StreamInv
    OBVIOUS
<1>1. TypeOK
    <2>1. 0 \in 0..MaxChunks
        BY ChunkAssumption
    <2>2. <<>> \in Seq(0..MaxChunks) /\ <<>> \in Seq(1..MaxChunks)
        OBVIOUS
    <2> QED
        BY <2>1, <2>2 DEF Init, TypeOK, Points, Results
<1>2. QueueInv /\ PlaceInv /\ InOrder
    <2>1. Len(queue) = 0 /\ Len(received) = 0 /\ made = 0 /\ at = "new"
        BY DEF Init
    <2> QED
        BY <2>1 DEF Init, QueueInv, PlaceInv, InOrder, Left, Ended, Taken
<1> QED
    BY <1>1, <1>2 DEF StreamInv

LEMMA TakenType == TypeOK => Taken \in Nat /\ Len(queue) \in Nat /\ Len(received) \in Nat
BY DEF TypeOK, Taken

LEMMA ThreadInv == StreamInv /\ Thread => StreamInv'
<1> SUFFICES ASSUME StreamInv, Thread PROVE StreamInv'
    OBVIOUS
<1> USE ChunkAssumption DEF StreamInv, TypeOK, Left, Ended, readerVars
<1>1. CASE Begin
    <2>1. TypeOK'
        BY <1>1 DEF Begin
    <2>2. QueueInv' /\ PlaceInv' /\ InOrder'
        BY <1>1 DEF Begin, QueueInv, PlaceInv, InOrder, Taken
    <2> QED
        BY <2>1, <2>2
<1>2. CASE Produce
    <2>1. /\ thread = "generating" /\ thread' = "generating" /\ ~errors /\ ~errors'
          /\ queue' = Append(queue, made + 1) /\ Len(queue') = Len(queue) + 1
          /\ \A i \in 1..Len(queue) : queue'[i] = queue[i]
          /\ queue'[Len(queue) + 1] = made + 1
        BY <1>2 DEF Produce, PlaceInv
    <2>2. TypeOK'
        BY <1>2 DEF Produce
    <2>3. QueueInv'
        <3> SUFFICES ASSUME ~Left PROVE QueueInv'
            BY <1>2 DEF Produce, QueueInv
        <3>1. made = Taken + Len(queue) /\ \A i \in 1..Len(queue) : queue[i] # StopSignal
            BY <2>1 DEF QueueInv
        <3>2. made + 1 # StopSignal
            BY DEF StopSignal
        <3>3. \A i \in 1..Len(queue') : queue'[i] # StopSignal /\ queue'[i] = Taken + i
            <4> SUFFICES ASSUME NEW i \in 1..Len(queue')
                         PROVE  queue'[i] # StopSignal /\ queue'[i] = Taken + i
                OBVIOUS
            <4>1. CASE i \in 1..Len(queue)
                BY <2>1, <3>1, <4>1 DEF QueueInv
            <4>2. CASE i = Len(queue) + 1
                BY <2>1, <3>1, <3>2, <4>2, TakenType
            <4> QED
                BY <2>1, <4>1, <4>2, TakenType
        <3>4. Taken' = Taken /\ (at = "check" => item = Len(received) + 1)
            BY <1>2 DEF Produce, Taken, QueueInv
        <3>5. made' = Taken' + Len(queue')
            BY <1>2, <2>1, <3>1, <3>4, TakenType DEF Produce
        <3> QED
            BY <1>2, <3>3, <3>4, <3>5 DEF Produce, QueueInv
    <2>4. PlaceInv' /\ InOrder'
        BY <1>2, <2>1 DEF Produce, PlaceInv, InOrder
    <2> QED
        BY <2>2, <2>3, <2>4
<1>3. CASE Finish
    <2>1. /\ thread = "generating" /\ Ended' /\ ~errors /\ ~errors'
          /\ queue' = Append(queue, StopSignal) /\ Len(queue') = Len(queue) + 1
          /\ \A i \in 1..Len(queue) : queue'[i] = queue[i]
          /\ queue'[Len(queue) + 1] = StopSignal
        BY <1>3 DEF Finish, PlaceInv, StopSignal
    <2>2. TypeOK'
        BY <1>3 DEF Finish, StopSignal
    <2>3. QueueInv'
        <3> SUFFICES ASSUME ~Left PROVE QueueInv'
            BY <1>3 DEF Finish, QueueInv
        <3>1. made = Taken + Len(queue) /\ \A i \in 1..Len(queue) : queue[i] # StopSignal
            BY <2>1 DEF QueueInv
        <3>2. \A i \in 1..Len(queue') : queue'[i] # StopSignal => queue'[i] = Taken + i
            BY <2>1, <3>1 DEF QueueInv, Taken
        <3>3. \A i \in 1..Len(queue') : queue'[i] = StopSignal => i = Len(queue')
            BY <2>1, <3>1
        <3>4. Taken' = Taken /\ made' = Taken + Len(queue') - 1
            BY <1>3, <2>1, <3>1 DEF Finish, Taken
        <3>5. \E i \in 1..Len(queue') : queue'[i] = StopSignal
            BY <2>1
        <3> QED
            BY <1>3, <2>1, <3>2, <3>3, <3>4, <3>5 DEF Finish, QueueInv
    <2>4. PlaceInv' /\ InOrder'
        BY <1>3, <2>1 DEF Finish, PlaceInv, InOrder
    <2> QED
        BY <2>2, <2>3, <2>4
<1>4. CASE Break
    <2>1. TypeOK'
        BY <1>4 DEF Break
    <2>2. QueueInv' /\ PlaceInv' /\ InOrder'
        BY <1>4 DEF Break, QueueInv, PlaceInv, InOrder, Taken
    <2> QED
        BY <2>1, <2>2
<1>5. CASE Die
    <2>1. TypeOK'
        BY <1>5 DEF Die
    <2>2. QueueInv' /\ PlaceInv' /\ InOrder'
        BY <1>5 DEF Die, QueueInv, PlaceInv, InOrder, Taken
    <2> QED
        BY <2>1, <2>2
<1> QED
    BY <1>1, <1>2, <1>3, <1>4, <1>5 DEF Thread

\* A chunk or the stop signal taken from the head of the queue.
LEMMA HeadTaken ==
    ASSUME StreamInv, ~Left, at # "check", queue # <<>>
    PROVE  /\ Len(queue) \in Nat \ {0} /\ Len(Tail(queue)) = Len(queue) - 1
           /\ Tail(queue) \in Seq(0..MaxChunks)
           /\ \A i \in 1..Len(Tail(queue)) : Tail(queue)[i] = queue[i + 1]
           /\ Head(queue) # StopSignal =>
                /\ Head(queue) = Len(received) + 1 /\ Head(queue) \in 1..MaxChunks
                /\ (\E i \in 1..Len(queue) : queue[i] = StopSignal)
                        <=> \E i \in 1..Len(Tail(queue)) : Tail(queue)[i] = StopSignal
           /\ Head(queue) = StopSignal => Ended /\ ~errors /\ Tail(queue) = <<>> /\ made = Len(received)
<1> USE DEF StreamInv, TypeOK
<1>1. /\ Len(queue) \in Nat \ {0} /\ Len(Tail(queue)) = Len(queue) - 1
      /\ Tail(queue) \in Seq(0..MaxChunks) /\ Head(queue) = queue[1] /\ 1 \in 1..Len(queue)
      /\ \A i \in 1..Len(Tail(queue)) : Tail(queue)[i] = queue[i + 1]
      /\ Head(queue) \in 0..MaxChunks
    <2>1. Len(queue) \in Nat \ {0} /\ Head(queue) = queue[1] /\ 1 \in 1..Len(queue)
        OBVIOUS
    <2>2. Tail(queue) \in Seq(0..MaxChunks) /\ Len(Tail(queue)) = Len(queue) - 1
        BY <2>1
    <2>3. \A i \in 1..Len(Tail(queue)) : Tail(queue)[i] = queue[i + 1]
        BY <2>1, <2>2
    <2>4. Head(queue) \in 0..MaxChunks
        <3>1. queue \in Seq(0..MaxChunks) /\ queue # <<>>
            BY DEF TypeOK
        <3> QED
            BY <3>1, HeadTailProperties
    <2> QED
        BY <2>1, <2>2, <2>3, <2>4
<1>2. ASSUME Head(queue) # StopSignal
      PROVE  /\ Head(queue) = Len(received) + 1 /\ Head(queue) \in 1..MaxChunks
             /\ (\E i \in 1..Len(queue) : queue[i] = StopSignal)
                        <=> \E i \in 1..Len(Tail(queue)) : Tail(queue)[i] = StopSignal
    <2>0. Taken = Len(received)
        BY DEF Taken
    <2>1. Head(queue) = Len(received) + 1
        BY <1>1, <1>2, <2>0 DEF QueueInv
    <2>4. Head(queue) \in 1..MaxChunks
        BY <1>1, <1>2, ChunkAssumption DEF StopSignal
    <2>2. ASSUME NEW i \in 1..Len(queue), queue[i] = StopSignal
          PROVE  \E j \in 1..Len(Tail(queue)) : Tail(queue)[j] = StopSignal
        <3>1. i - 1 \in 1..Len(Tail(queue)) /\ Tail(queue)[i - 1] = queue[i]
            BY <1>1, <1>2, <2>2
        <3> QED
            BY <2>2, <3>1
    <2>3. ASSUME NEW i \in 1..Len(Tail(queue)), Tail(queue)[i] = StopSignal
          PROVE  \E j \in 1..Len(queue) : queue[j] = StopSignal
        <3>1. i + 1 \in 1..Len(queue) /\ queue[i + 1] = StopSignal
            BY <1>1, <2>3
        <3> QED
            BY <3>1
    <2> QED
        BY <2>1, <2>2, <2>3, <2>4
<1>3. ASSUME Head(queue) = StopSignal
      PROVE  Ended /\ ~errors /\ Tail(queue) = <<>> /\ made = Len(received)
    <2>1. Len(queue) = 1 /\ Ended /\ ~errors
        BY <1>1, <1>3 DEF QueueInv
    <2>2. made = Len(received)
        BY <1>1, <1>3, <2>1 DEF QueueInv, Taken
    <2>3. Tail(queue) = <<>>
        <3>1. Len(Tail(queue)) = 0 /\ Tail(queue) \in Seq(0..MaxChunks)
            BY <1>1, <2>1
        <3> QED
            BY <3>1, EmptySeq
    <2> QED
        BY <2>1, <2>2, <2>3
<1> QED
    BY <1>1, <1>2, <1>3

\* A chunk in hand, or at the head of the queue, has not been handed out.
LEMMA QueueAhead ==
    ASSUME StreamInv, ~Left, at = "check" \/ (queue # <<>> /\ Head(queue) # StopSignal)
    PROVE  Len(received) < made
<1>1. Taken \in Nat /\ Len(queue) \in Nat /\ Len(received) \in Nat /\ made \in Nat
    BY TakenType, ChunkAssumption DEF StreamInv, TypeOK
<1>2. CASE at = "check"
    <2>1. Taken = Len(received) + 1
        BY <1>2 DEF Taken
    <2>2. (\E i \in 1..Len(queue) : queue[i] = StopSignal) => Len(queue) >= 1
        BY <1>1
    <2>3. made >= Taken
        BY <1>1, <2>2 DEF StreamInv, QueueInv
    <2> QED
        BY <1>1, <2>1, <2>3
<1>3. CASE at # "check"
    <2>1. Len(queue) >= 1 /\ Taken = Len(received)
        BY <1>3, HeadTaken DEF Taken
    <2>2. (\E i \in 1..Len(queue) : queue[i] = StopSignal) => Len(queue) >= 2
        <3>1. 1 \in 1..Len(queue) /\ Head(queue) = queue[1]
            BY <1>1, <2>1
        <3>2. queue[1] # StopSignal
            BY <1>3, <3>1
        <3>3. ASSUME NEW i \in 1..Len(queue), queue[i] = StopSignal PROVE Len(queue) >= 2
            BY <1>1, <3>2, <3>3
        <3> QED
            BY <3>3
    <2> QED
        BY <1>1, <2>1, <2>2 DEF StreamInv, QueueInv
<1> QED
    BY <1>2, <1>3

LEMMA ReaderInv == StreamInv /\ Reader => StreamInv'
<1> SUFFICES ASSUME StreamInv, Reader PROVE StreamInv'
    OBVIOUS
<1> USE ChunkAssumption DEF StreamInv, TypeOK, Left, Ended, modelVars, Goto, Leave, Points, Results
<1>1. CASE Loop \/ Look \/ Resume \/ Close \/ AfterLoop \/ Final \/ Join
    <2>1. TypeOK'
        BY <1>1 DEF Loop, Look, Resume, Close, AfterLoop, Final, Join
    <2>2. QueueInv'
        BY <1>1 DEF Loop, Look, Resume, Close, AfterLoop, Final, Join, QueueInv, Taken
    <2>3. PlaceInv'
        <3>1. CASE Final
            BY <3>1 DEF Final, PlaceInv, QueueInv, Taken
        <3>2. CASE Loop \/ Look \/ Resume \/ Close \/ AfterLoop \/ Join
            BY <3>2 DEF Loop, Look, Resume, Close, AfterLoop, Join, PlaceInv
        <3> QED
            BY <1>1, <3>1, <3>2
    <2>4. InOrder'
        BY <1>1 DEF Loop, Look, Resume, Close, AfterLoop, Final, Join, InOrder
    <2> QED
        BY <2>1, <2>2, <2>3, <2>4
<1>2. CASE TakeNext
    <2>1. CASE queue = <<>>
        <3>1. TypeOK'
            BY <1>2, <2>1 DEF TakeNext
        <3>2. QueueInv' /\ PlaceInv' /\ InOrder'
            BY <1>2, <2>1 DEF TakeNext, QueueInv, PlaceInv, InOrder, Taken
        <3> QED
            BY <3>1, <3>2
    <2>2. CASE queue # <<>> /\ Head(queue) = StopSignal
        <3>1. Ended /\ ~errors /\ queue' = <<>> /\ made = Len(received) /\ at' = "broke"
            BY <1>2, <2>2, HeadTaken DEF TakeNext
        <3>2. UNCHANGED <<modelVars, token, late, item, received, result>>
            BY <1>2, <2>2 DEF TakeNext
        <3>3. TypeOK' /\ InOrder'
            BY <3>1, <3>2 DEF InOrder
        <3>4. QueueInv' /\ PlaceInv'
            BY <1>2, <3>1, <3>2 DEF TakeNext, QueueInv, PlaceInv, Taken
        <3> QED
            BY <3>3, <3>4
    <2>3. CASE queue # <<>> /\ Head(queue) # StopSignal
        <3>1. /\ queue' = Tail(queue) /\ at' = "yielded"
              /\ received' = Append(received, Len(received) + 1) /\ Len(received) + 1 \in 1..MaxChunks
              /\ item' = Len(received) + 1
            BY <1>2, <2>3, HeadTaken DEF TakeNext
        <3>2. UNCHANGED <<modelVars, token, late, result>>
            BY <1>2 DEF TakeNext
        <3>3. TypeOK' /\ InOrder' /\ Len(received') = Len(received) + 1
            BY <1>2, <2>3, <3>1, <3>2, HeadTaken DEF InOrder, TakeNext
        <3>4. PlaceInv'
            BY <1>2, <3>1, <3>2 DEF TakeNext, PlaceInv
        <3>5. QueueInv'
            <4>1. Taken = Len(received) /\ Taken' = Len(received) + 1 /\ at = "next"
                BY <1>2, <3>1, <3>3 DEF Taken, TakeNext
            <4>2. /\ \A i \in 1..Len(queue') : queue'[i] = queue[i + 1] /\ i + 1 \in 1..Len(queue)
                  /\ Len(queue') = Len(queue) - 1 /\ Len(queue) \in Nat
                BY <2>3, <3>1, <4>1, HeadTaken
            <4>3. \A i \in 1..Len(queue') : queue'[i] # StopSignal => queue'[i] = Taken' + i
                <5> SUFFICES ASSUME NEW i \in 1..Len(queue'), queue'[i] # StopSignal
                             PROVE  queue'[i] = Taken' + i
                    OBVIOUS
                <5>1. queue[i + 1] # StopSignal /\ i + 1 \in 1..Len(queue)
                    BY <4>2
                <5>2. queue[i + 1] = Taken + (i + 1)
                    BY <4>1, <5>1 DEF QueueInv
                <5> QED
                    BY <4>1, <4>2, <5>2, TakenType
            <4>4. \A i \in 1..Len(queue') : queue'[i] = StopSignal => i = Len(queue') /\ Ended /\ ~errors
                <5> SUFFICES ASSUME NEW i \in 1..Len(queue'), queue'[i] = StopSignal
                             PROVE  i = Len(queue') /\ Ended /\ ~errors
                    OBVIOUS
                <5>1. queue[i + 1] = StopSignal /\ i + 1 \in 1..Len(queue)
                    BY <4>2
                <5>2. i + 1 = Len(queue) /\ Ended /\ ~errors
                    BY <4>1, <5>1 DEF QueueInv
                <5> QED
                    BY <4>2, <5>2
            <4>5. (\E i \in 1..Len(queue) : queue[i] = StopSignal) <=> \E i \in 1..Len(queue') : queue'[i] = StopSignal
                BY <2>3, <3>1, <4>1, HeadTaken
            <4>6. made = IF \E i \in 1..Len(queue') : queue'[i] = StopSignal
                         THEN Taken' + Len(queue') - 1
                         ELSE Taken' + Len(queue')
                <5>1. made = IF \E i \in 1..Len(queue) : queue[i] = StopSignal
                             THEN Taken + Len(queue) - 1
                             ELSE Taken + Len(queue)
                    BY <4>1 DEF QueueInv
                <5>2. Taken' + Len(queue') = Taken + Len(queue)
                    BY <4>1, <4>2, TakenType
                <5>3. made = IF \E i \in 1..Len(queue') : queue'[i] = StopSignal
                             THEN Taken + Len(queue) - 1
                             ELSE Taken + Len(queue)
                    BY <4>5, <5>1
                <5>4. CASE \E i \in 1..Len(queue') : queue'[i] = StopSignal
                    BY <4>1, <4>2, <5>2, <5>3, <5>4, TakenType
                <5>5. CASE ~\E i \in 1..Len(queue') : queue'[i] = StopSignal
                    BY <4>1, <4>2, <5>2, <5>3, <5>5, TakenType
                <5> QED
                    BY <5>4, <5>5
            <4> QED
                BY <3>1, <3>2, <4>3, <4>4, <4>6 DEF QueueInv
        <3> QED
            BY <3>3, <3>4, <3>5
    <2> QED
        BY <2>1, <2>2, <2>3
<1>3. CASE Drain
    <2>1. CASE queue = <<>>
        <3>1. TypeOK'
            BY <1>3, <2>1 DEF Drain
        <3>2. QueueInv' /\ PlaceInv' /\ InOrder'
            BY <1>3, <2>1 DEF Drain, QueueInv, PlaceInv, InOrder, Taken
        <3> QED
            BY <3>1, <3>2
    <2>2. CASE queue # <<>> /\ Head(queue) = StopSignal
        <3>1. Ended /\ ~errors /\ queue' = <<>> /\ made = Len(received) /\ at' = "final"
            BY <1>3, <2>2, HeadTaken DEF Drain
        <3>2. UNCHANGED <<modelVars, token, late, item, received, result>>
            BY <1>3, <2>2 DEF Drain
        <3>3. TypeOK' /\ InOrder'
            BY <3>1, <3>2 DEF InOrder
        <3>4. QueueInv' /\ PlaceInv'
            BY <1>3, <3>1, <3>2 DEF Drain, QueueInv, PlaceInv, Taken
        <3> QED
            BY <3>3, <3>4
    <2>3. CASE queue # <<>> /\ Head(queue) # StopSignal
        <3>1. /\ queue' = Tail(queue) /\ at' = "check" /\ received' = received
              /\ Len(received) + 1 \in 1..MaxChunks
              /\ item' = Len(received) + 1
            BY <1>3, <2>3, HeadTaken DEF Drain
        <3>2. UNCHANGED <<modelVars, token, late, result>>
            BY <1>3, <2>3 DEF Drain
        <3>3. TypeOK' /\ InOrder'
            BY <1>3, <2>3, <3>1, <3>2, HeadTaken DEF InOrder, Drain
        <3>4. PlaceInv'
            BY <1>3, <3>1, <3>2 DEF Drain, PlaceInv
        <3>5. QueueInv'
            <4>1. Taken = Len(received) /\ Taken' = Len(received) + 1 /\ at = "drain"
                BY <1>3, <3>1, <3>3 DEF Taken, Drain
            <4>2. /\ \A i \in 1..Len(queue') : queue'[i] = queue[i + 1] /\ i + 1 \in 1..Len(queue)
                  /\ Len(queue') = Len(queue) - 1 /\ Len(queue) \in Nat
                BY <2>3, <3>1, <4>1, HeadTaken
            <4>3. \A i \in 1..Len(queue') : queue'[i] # StopSignal => queue'[i] = Taken' + i
                <5> SUFFICES ASSUME NEW i \in 1..Len(queue'), queue'[i] # StopSignal
                             PROVE  queue'[i] = Taken' + i
                    OBVIOUS
                <5>1. queue[i + 1] # StopSignal /\ i + 1 \in 1..Len(queue)
                    BY <4>2
                <5>2. queue[i + 1] = Taken + (i + 1)
                    BY <4>1, <5>1 DEF QueueInv
                <5> QED
                    BY <4>1, <4>2, <5>2, TakenType
            <4>4. \A i \in 1..Len(queue') : queue'[i] = StopSignal => i = Len(queue') /\ Ended /\ ~errors
                <5> SUFFICES ASSUME NEW i \in 1..Len(queue'), queue'[i] = StopSignal
                             PROVE  i = Len(queue') /\ Ended /\ ~errors
                    OBVIOUS
                <5>1. queue[i + 1] = StopSignal /\ i + 1 \in 1..Len(queue)
                    BY <4>2
                <5>2. i + 1 = Len(queue) /\ Ended /\ ~errors
                    BY <4>1, <5>1 DEF QueueInv
                <5> QED
                    BY <4>2, <5>2
            <4>5. (\E i \in 1..Len(queue) : queue[i] = StopSignal) <=> \E i \in 1..Len(queue') : queue'[i] = StopSignal
                BY <2>3, <3>1, <4>1, HeadTaken
            <4>6. made = IF \E i \in 1..Len(queue') : queue'[i] = StopSignal
                         THEN Taken' + Len(queue') - 1
                         ELSE Taken' + Len(queue')
                <5>1. made = IF \E i \in 1..Len(queue) : queue[i] = StopSignal
                             THEN Taken + Len(queue) - 1
                             ELSE Taken + Len(queue)
                    BY <4>1 DEF QueueInv
                <5>2. Taken' + Len(queue') = Taken + Len(queue)
                    BY <4>1, <4>2, TakenType
                <5>3. made = IF \E i \in 1..Len(queue') : queue'[i] = StopSignal
                             THEN Taken + Len(queue) - 1
                             ELSE Taken + Len(queue)
                    BY <4>5, <5>1
                <5>4. CASE \E i \in 1..Len(queue') : queue'[i] = StopSignal
                    BY <4>1, <4>2, <5>2, <5>3, <5>4, TakenType
                <5>5. CASE ~\E i \in 1..Len(queue') : queue'[i] = StopSignal
                    BY <4>1, <4>2, <5>2, <5>3, <5>5, TakenType
                <5> QED
                    BY <5>4, <5>5
            <4> QED
                BY <3>1, <3>2, <4>3, <4>4, <4>6 DEF QueueInv
        <3> QED
            BY <3>3, <3>4, <3>5
    <2> QED
        BY <2>1, <2>2, <2>3
<1>4. CASE Check
    <2>1. CASE at' = "join"
        <3>1. TypeOK' /\ PlaceInv' /\ InOrder'
            BY <1>4, <2>1 DEF Check, PlaceInv, InOrder
        <3>2. QueueInv'
            BY <2>1 DEF QueueInv
        <3> QED
            BY <3>1, <3>2
    <2>2. CASE at' # "join"
        <3>1. /\ at = "check" /\ at' = "drainYielded" /\ item = Len(received) + 1
              /\ received' = Append(received, Len(received) + 1)
              /\ UNCHANGED <<modelVars, queue, item, token, late, result>>
            BY <1>4, <2>2 DEF Check, QueueInv
        <3>2. TypeOK' /\ InOrder' /\ Len(received') = Len(received) + 1
            BY <3>1 DEF InOrder
        <3>3. PlaceInv'
            BY <3>1 DEF PlaceInv
        <3>4. Taken' = Taken
            BY <3>1, <3>2 DEF Taken
        <3>5. QueueInv'
            BY <3>1, <3>4 DEF QueueInv
        <3> QED
            BY <3>2, <3>3, <3>5
    <2> QED
        BY <2>1, <2>2
<1> QED
    BY <1>1, <1>2, <1>3, <1>4 DEF Reader

LEMMA StreamStepInv == StreamInv /\ [Next]_vars => StreamInv'
<1> SUFFICES ASSUME StreamInv, [Next]_vars PROVE StreamInv'
    OBVIOUS
<1>1. CASE Start
    BY <1>1, ChunkAssumption
    DEF Start, Goto, StreamInv, TypeOK, QueueInv, PlaceInv, InOrder, Taken, Left, Ended, Points
<1>2. CASE CancelCall \/ Elapse
    <2>1. UNCHANGED <<modelVars, queue, readerVars>>
        BY <1>2 DEF CancelCall, Elapse
    <2>2. token' \in BOOLEAN /\ late' \in BOOLEAN
        BY <1>2 DEF CancelCall, Elapse, StreamInv, TypeOK
    <2>3. TypeOK'
        BY <2>1, <2>2 DEF StreamInv, TypeOK, modelVars, readerVars
    <2>4. QueueInv' /\ PlaceInv' /\ InOrder'
        BY <2>1 DEF modelVars, readerVars, StreamInv, QueueInv, PlaceInv, InOrder, Taken, Left, Ended
    <2> QED
        BY <2>3, <2>4 DEF StreamInv
<1>3. CASE UNCHANGED vars
    BY <1>3 DEF vars, modelVars, readerVars, StreamInv, TypeOK, QueueInv, PlaceInv, InOrder, Taken, Left, Ended
<1> QED
    BY <1>1, <1>2, <1>3, ThreadInv, ReaderInv DEF Next

LEMMA StreamInductive == Spec => []StreamInv
BY StreamInitInv, StreamStepInv, PTL DEF Spec

\* Every variable keeps its type, whatever number of chunks the model makes.
THEOREM StreamTypes == Spec => []TypeOK
<1>1. StreamInv => TypeOK
    BY DEF StreamInv
<1> QED
    BY StreamInductive, <1>1, PTL

\* Chunks reach the caller of GenerationWorker in the order they were made.
THEOREM ChunksInOrder == Spec => []InOrder
<1>1. StreamInv => InOrder
    BY DEF StreamInv
<1> QED
    BY StreamInductive, <1>1, PTL

\* An iteration that ends without an exception has delivered everything.
THEOREM NormalEndIsComplete == Spec => []DoneIsComplete
<1>1. StreamInv => DoneIsComplete
    BY DEF StreamInv, PlaceInv, DoneIsComplete
<1> QED
    BY StreamInductive, <1>1, PTL

\* An exception of the model leaves the iterator as an exception.
THEOREM ErrorsSurface == Spec => []ErrorSurfaces
<1>1. StreamInv => ErrorSurfaces
    BY DEF StreamInv, PlaceInv, ErrorSurfaces
<1> QED
    BY StreamInductive, <1>1, PTL
-----------------------------------------------------------------------------
(* The refinement: which step of ChunkStream each step of the code is.     *)

LEMMA ThreadSimulation == StreamInv /\ Thread => [Caller!Next]_(Caller!vars)
<1> SUFFICES ASSUME StreamInv, Thread PROVE [Caller!Next]_(Caller!vars)
    OBVIOUS
<1>1. Ended \/ result \notin {"done", "empty"}
    BY DEF StreamInv, PlaceInv
<1>2. CASE Begin \/ Finish \/ Die
    BY <1>2 DEF Begin, Finish, Die, readerVars, Caller!vars
<1>3. CASE Produce
    <2>1. ~errors /\ result \notin {"done", "empty"}
        BY <1>1, <1>3 DEF Produce, StreamInv, PlaceInv, Ended
    <2>2. Caller!Make
        BY <2>1, <1>3 DEF Produce, readerVars, Caller!Make
    <2> QED
        BY <2>2 DEF Caller!Next
<1>4. CASE Break
    <2>1. ~errors /\ result \notin {"done", "empty"}
        BY <1>1, <1>4 DEF Break, StreamInv, PlaceInv, Ended
    <2>2. Caller!ModelFails
        BY <2>1, <1>4 DEF Break, readerVars, Caller!ModelFails
    <2> QED
        BY <2>2 DEF Caller!Next
<1> QED
    BY <1>2, <1>3, <1>4 DEF Thread

\* A chunk that the iterator hands out is the next one in ChunkStream.
LEMMA DeliverSimulation ==
    ASSUME StreamInv, ~Left, UNCHANGED <<made, errors, result>>,
           received' = Append(received, Len(received) + 1), Len(received) < made
    PROVE  Caller!Deliver
BY DEF StreamInv, PlaceInv, Left, Caller!Deliver

LEMMA ReaderSimulation == StreamInv /\ Reader => [Caller!Next]_(Caller!vars)
<1> SUFFICES ASSUME StreamInv, Reader PROVE [Caller!Next]_(Caller!vars)
    OBVIOUS
<1>1. CASE Loop \/ Resume \/ Join
    BY <1>1 DEF Loop, Resume, Join, modelVars, Caller!vars
<1>2. CASE Look
    <2>1. ~Left /\ UNCHANGED <<made, errors, received>>
        BY <1>2 DEF Look, Left, modelVars
    <2>2. result = "none"
        BY <2>1 DEF StreamInv, PlaceInv
    <2>3. UNCHANGED result \/ result' \in {"cancelled", "timeout"} \/ (result' = "failed" /\ errors)
        BY <1>2 DEF Look, Leave
    <2> QED
        BY <2>1, <2>2, <2>3 DEF Caller!Next, Caller!End, Caller!vars
<1>3. CASE TakeNext
    <2>1. ~Left /\ at # "check" /\ UNCHANGED <<made, errors, result>>
        BY <1>3 DEF TakeNext, Left, modelVars
    <2>2. CASE queue # <<>> /\ Head(queue) # StopSignal
        <3>1. received' = Append(received, Len(received) + 1)
            BY <1>3, <2>1, <2>2, HeadTaken DEF TakeNext
        <3>2. Len(received) < made
            BY <1>3, <2>1, <2>2, QueueAhead
        <3> QED
            BY <2>1, <3>1, <3>2, DeliverSimulation DEF Caller!Next
    <2>3. CASE queue = <<>> \/ Head(queue) = StopSignal
        BY <1>3, <2>1, <2>3 DEF TakeNext, Caller!vars
    <2> QED
        BY <2>2, <2>3
<1>4. CASE Close
    <2>1. ~Left /\ UNCHANGED <<made, errors, received>> /\ result' = "closed"
        BY <1>4 DEF Close, Leave, Left, modelVars
    <2>2. result = "none"
        BY <2>1 DEF StreamInv, PlaceInv
    <2> QED
        BY <2>1, <2>2 DEF Caller!Next, Caller!End
<1>5. CASE AfterLoop
    <2>1. ~Left /\ UNCHANGED <<made, errors, received>>
        BY <1>5 DEF AfterLoop, Left, modelVars
    <2>2. result = "none"
        BY <2>1 DEF StreamInv, PlaceInv
    <2>3. UNCHANGED result \/ (result' = "failed" /\ errors)
        BY <1>5 DEF AfterLoop, Leave
    <2> QED
        BY <2>1, <2>2, <2>3 DEF Caller!Next, Caller!End, Caller!vars
<1>6. CASE Drain
    <2>1. ~Left /\ ~errors /\ UNCHANGED <<made, errors, received>>
        BY <1>6 DEF Drain, Left, modelVars, StreamInv, PlaceInv
    <2>2. result = "none"
        BY <2>1 DEF StreamInv, PlaceInv
    <2>3. UNCHANGED result \/ result' = "empty"
        BY <1>6 DEF Drain, Leave
    <2> QED
        BY <2>1, <2>2, <2>3 DEF Caller!Next, Caller!End, Caller!vars
<1>7. CASE Check
    <2>1. ~Left /\ at = "check" /\ UNCHANGED <<made, errors>>
        BY <1>7 DEF Check, Left, modelVars
    <2>2. result = "none"
        BY <2>1 DEF StreamInv, PlaceInv
    <2>3. CASE result' \in {"cancelled", "timeout"} /\ UNCHANGED received
        BY <2>1, <2>2, <2>3 DEF Caller!Next, Caller!End
    <2>4. CASE received' = Append(received, item) /\ UNCHANGED result
        <3>1. item = Len(received) + 1
            BY <2>1 DEF StreamInv, QueueInv
        <3>2. Len(received) < made
            BY <2>1, QueueAhead
        <3> QED
            BY <2>1, <2>4, <3>1, <3>2, DeliverSimulation DEF Caller!Next
    <2> QED
        BY <1>7, <2>3, <2>4 DEF Check, Leave
<1>8. CASE Final
    <2>1. ~Left /\ ~errors /\ queue = <<>> /\ UNCHANGED <<made, errors, received>>
        BY <1>8 DEF Final, Left, modelVars, StreamInv, PlaceInv
    <2>2. result = "none" /\ result' = "done"
        BY <1>8, <2>1 DEF Final, Leave, StreamInv, PlaceInv
    <2>3. made = Len(received)
        BY <1>8, <2>1, TakenType DEF Final, StreamInv, QueueInv, Taken
    <2> QED
        BY <2>1, <2>2, <2>3 DEF Caller!Next, Caller!End
<1> QED
    BY <1>1, <1>2, <1>3, <1>4, <1>5, <1>6, <1>7, <1>8 DEF Reader

\* The worker thread and its iterator are, for the caller, the stream of
\* ChunkStream: it needs to know nothing of threads, queue, token and time.
THEOREM ContractKept == Spec => Contract
<1>1. Init => Caller!Init
    BY DEF Init, Caller!Init
<1>2. StreamInv /\ [Next]_vars => [Caller!Next]_(Caller!vars)
    <2> SUFFICES ASSUME StreamInv, [Next]_vars PROVE [Caller!Next]_(Caller!vars)
        OBVIOUS
    <2>1. CASE Start \/ CancelCall \/ Elapse \/ UNCHANGED vars
        BY <2>1 DEF Start, CancelCall, Elapse, vars, modelVars, readerVars, Caller!vars
    <2> QED
        BY <2>1, ThreadSimulation, ReaderSimulation DEF Next
<1> QED
    BY <1>1, <1>2, StreamInductive, PTL DEF Spec, Contract, Caller!Spec

-----------------------------------------------------------------------------
(* A streaming request keeps the protocol of the scheduler and of the      *)
(* worker, so what is proved of them holds of it, and a model runs without *)
(* its permit only after it was told to stop or in a request that its      *)
(* client left.                                                            *)
(*                                                                         *)
(* The last needs what ties the request to both: while it streams it holds *)
(* the permit, before that the worker has not begun, and an iteration that *)
(* was left has cancelled the token.                                       *)

RequestStages == {"new", "asking", "streaming", "abandoned", "over"}

StageInv ==
    /\ stage \in RequestStages
    /\ stage \in {"new", "asking"} => at = "new"
    /\ stage = "streaming" => Holds(Streamer)
    /\ stage = "over" => at \in {"new", "over"}
    /\ at = "new" => thread = "new"
    /\ at \in {"join", "over"} => token

-----------------------------------------------------------------------------
LEMMA RequestGpuStep == [RequestNext]_requestVars => [GpuNext]_gpuVars
<1> SUFFICES ASSUME [RequestNext]_requestVars PROVE [GpuNext]_gpuVars
  OBVIOUS
<1>0. Streamer \in Tasks
  BY StreamerAssumption, GpuAssumption
<1>1. CASE AskGpu
  BY <1>0, <1>1 DEF AskGpu, GpuNext
<1>2. CASE LeaveBlock
  BY <1>0, <1>2 DEF LeaveBlock, GpuNext
<1>3. CASE Abandon
  BY <1>0, <1>3 DEF Abandon, GpuNext
<1>4. CASE Scheduler
  BY <1>4 DEF Scheduler, GpuNext
<1>5. CASE Open \/ GiveUp \/ Iterate \/ Worker \/ TokenCancelled \/ TimePasses
  BY <1>5 DEF Open, GiveUp, Iterate, Worker, TokenCancelled, TimePasses
<1>6. CASE UNCHANGED requestVars
  BY <1>6 DEF requestVars
<1> QED
  BY <1>1, <1>2, <1>3, <1>4, <1>5, <1>6 DEF RequestNext

LEMMA RequestStreamStep == [RequestNext]_requestVars => [Next]_vars
<1> SUFFICES ASSUME [RequestNext]_requestVars PROVE [Next]_vars
  OBVIOUS
<1>1. CASE Open
  BY <1>1 DEF Open, Next
<1>2. CASE Iterate
  BY <1>2 DEF Iterate, Next
<1>3. CASE Worker
  BY <1>3 DEF Worker, Next
<1>4. CASE TokenCancelled
  BY <1>4 DEF TokenCancelled, Next
<1>5. CASE TimePasses
  BY <1>5 DEF TimePasses, Next
<1>6. CASE AskGpu \/ GiveUp \/ LeaveBlock \/ Abandon \/ Scheduler
  BY <1>6 DEF AskGpu, GiveUp, LeaveBlock, Abandon, Scheduler
<1>7. CASE UNCHANGED requestVars
  BY <1>7 DEF requestVars
<1> QED
  BY <1>1, <1>2, <1>3, <1>4, <1>5, <1>6, <1>7 DEF RequestNext

\* Every step of the request and the other tasks is a step of the scheduler or
\* leaves it alone (async with _gpu_scheduler.acquire around the iteration).
THEOREM RequestUsesScheduler == RequestSpec => GpuSpec
<1>1. RequestInit => GpuInit
  BY DEF RequestInit
<1> QED
  BY <1>1, RequestGpuStep, PTL DEF RequestSpec, GpuSpec

\* Every step is a step of the worker and its iterator or leaves them alone, so
\* whoever reads a chat or a writing sees the stream that ChunkStream promises.
THEOREM RequestStreams == RequestSpec => Contract
<1>1. RequestInit => Init
  BY DEF RequestInit
<1> QED
  BY <1>1, RequestStreamStep, ContractKept, PTL DEF RequestSpec, Spec

\* No request that is refused, abandoned, cancelled in its wait or over keeps a
\* permit that the scheduler counts as free, or loses one.
THEOREM RequestPermits == RequestSpec => []PermitsAccounted
BY RequestUsesScheduler, EveryPermitHasAnOwner, PTL

-----------------------------------------------------------------------------
LEMMA StageInit == RequestInit => StageInv
BY DEF RequestInit, Init, StageInv, RequestStages

\* No step of the scheduler takes the permit of a task inside its block.
LEMMA KeepsHolding ==
  ASSUME GpuTypeOK, Holds(Streamer), Scheduler
  PROVE  Holds(Streamer)'
<1>0. /\ gpu \in [Tasks -> Stages] /\ gpu[Streamer] = "held" /\ Streamer \notin gone
      /\ Streamer \in Tasks
  BY StreamerAssumption, GpuAssumption DEF GpuTypeOK, Holds
<1>1. ASSUME NEW t \in Tasks, GpuStep(t) PROVE Holds(Streamer)'
  <2>1. t # Streamer
    BY <1>0, <1>1 DEF GpuStep, GpuThread, Grant, Expire, List, Uncount, Return
  <2> QED
    BY <1>0, <1>1, <2>1 DEF GpuStep, GpuThread, Grant, Expire, List, Uncount, Return, Move, Holds
<1>2. ASSUME NEW t \in Tasks, Cancel(t) PROVE Holds(Streamer)'
  BY <1>0, <1>2 DEF Cancel, Counted, Holds
<1>3. ASSUME NEW t \in Tasks \ {Streamer}, Ask(t) \/ Unlist(t) PROVE Holds(Streamer)'
  BY <1>0, <1>3 DEF Ask, Unlist, Move, Holds
<1> QED
  BY <1>1, <1>2, <1>3 DEF Scheduler

\* The iterator cancels the token when it is left, and never begins anew.
LEMMA ReaderKeeps ==
  ASSUME StageInv, Reader
  PROVE  /\ at # "new" /\ at' # "new"
         /\ at' \in {"join", "over"} => token'
         /\ at = "over" => FALSE
         /\ thread' = thread
<1>1. at # "new" /\ at # "over" /\ at' # "new"
  BY DEF Reader, Loop, Look, TakeNext, Resume, Close, AfterLoop, Drain, Check, Final, Join, Goto, Leave
<1>2. at' \in {"join", "over"} => token'
  <2>1. CASE Join
    BY <2>1 DEF Join, StageInv
  <2>2. CASE Look \/ Close \/ AfterLoop \/ Drain \/ Check \/ Final
    BY <2>2 DEF Look, Close, AfterLoop, Drain, Check, Final, Goto, Leave
  <2>3. CASE Loop \/ TakeNext \/ Resume
    BY <2>3 DEF Loop, TakeNext, Resume, Goto
  <2> QED
    BY <2>1, <2>2, <2>3 DEF Reader
<1>3. thread' = thread
  BY DEF Reader, Loop, Look, TakeNext, Resume, Close, AfterLoop, Drain, Check, Final, Join, modelVars
<1> QED
  BY <1>1, <1>2, <1>3

LEMMA StageStep == GpuTypeOK /\ StageInv /\ [RequestNext]_requestVars => StageInv'
<1> SUFFICES ASSUME GpuTypeOK, StageInv, [RequestNext]_requestVars PROVE StageInv'
  OBVIOUS
<1>1. CASE AskGpu
  BY <1>1 DEF AskGpu, StageInv, RequestStages, vars, modelVars, readerVars
<1>2. CASE Open
  BY <1>2 DEF Open, Start, Goto, Holds, gpuVars, StageInv, RequestStages
<1>3. CASE GiveUp
  BY <1>3 DEF GiveUp, StageInv, RequestStages, vars, modelVars, readerVars
<1>4. CASE LeaveBlock
  BY <1>4 DEF LeaveBlock, StageInv, RequestStages, vars, modelVars, readerVars
<1>5. CASE Abandon
  BY <1>5 DEF Abandon, StageInv, RequestStages, vars, modelVars, readerVars
<1>6. CASE Iterate
  <2>1. /\ stage \in {"streaming", "abandoned"} /\ Reader /\ stage' = stage
        /\ gpu' = gpu /\ gone' = gone
    BY <1>6 DEF Iterate, gpuVars
  <2> QED
    BY <2>1, ReaderKeeps DEF StageInv, RequestStages, Holds
<1>7. CASE Worker
  <2>1. /\ at' = at /\ token' = token /\ stage' = stage /\ gpu' = gpu /\ gone' = gone
        /\ thread # "new"
    BY <1>7 DEF Worker, Thread, Begin, Produce, Finish, Break, Die, readerVars, gpuVars
  <2> QED
    BY <2>1 DEF StageInv, RequestStages, Holds
<1>8. CASE TokenCancelled
  BY <1>8 DEF TokenCancelled, CancelCall, gpuVars, modelVars, readerVars, Holds, StageInv, RequestStages
<1>9. CASE TimePasses
  BY <1>9 DEF TimePasses, Elapse, gpuVars, modelVars, readerVars, Holds, StageInv, RequestStages
<1>10. CASE Scheduler
  <2>1. /\ at' = at /\ token' = token /\ thread' = thread /\ stage' = stage
    BY <1>10 DEF Scheduler, vars, modelVars, readerVars
  <2>2. stage = "streaming" => Holds(Streamer)'
    BY <1>10, KeepsHolding DEF StageInv
  <2> QED
    BY <2>1, <2>2 DEF StageInv, RequestStages
<1>11. CASE UNCHANGED requestVars
  BY <1>11 DEF requestVars, vars, modelVars, readerVars, gpuVars, Holds, StageInv, RequestStages
<1> QED
  BY <1>1, <1>2, <1>3, <1>4, <1>5, <1>6, <1>7, <1>8, <1>9, <1>10, <1>11 DEF RequestNext

\* A model that generates holds the GPU permit of its request, was told to stop,
\* or belongs to a writing whose client left before its iterator was closed.
THEOREM PermitCoversGeneration == RequestSpec => []GeneratesUnderPermit
<1>1. StageInv => GeneratesUnderPermit
  BY DEF StageInv, RequestStages, GeneratesUnderPermit
<1>2. RequestSpec => []GpuTypeOK
  BY RequestUsesScheduler, GpuTypes, PTL
<1> QED
  BY <1>1, <1>2, StageInit, StageStep, PTL DEF RequestSpec
=============================================================================
