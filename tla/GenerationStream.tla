-------------------------- MODULE GenerationStream --------------------------
(***************************************************************************)
(* generation/worker.py: GenerationWorker turns a blocking model.generate  *)
(* into an iterator of text chunks.  A daemon thread runs the model, which *)
(* puts chunks, and at its end a stop signal, into the queue of a          *)
(* TextIteratorStreamer; whoever iterates takes them out.                  *)
(*                                                                         *)
(* The streamer is a library class.  Of it the code relies on: put and end *)
(* append to its queue; next() waits at most one second for an item        *)
(* (timeout=1.0 in runner.py) and raises Empty without one; it raises      *)
(* StopIteration when the item is the stop signal, which it takes out.     *)
(***************************************************************************)
EXTENDS Integers, Sequences

CONSTANTS
    MaxChunks,    \* (bound) chunks the model makes
    Cancels       \* somebody else holds the token and may cancel it

ASSUME ChunkAssumption == MaxChunks \in Nat /\ Cancels \in BOOLEAN

VARIABLES
    thread,    \* the worker thread
    made,      \* number of chunks the model has made
    queue,     \* the streamer's queue: chunk numbers, StopSignal
    errors,    \* _errors holds an exception
    token,     \* cancellation_token.is_cancelled
    late,      \* timeout_seconds have passed
    at,        \* where __iter__ stands
    item,      \* the chunk it has in hand
    received,  \* what the caller got
    result     \* how the iteration ends

modelVars == <<thread, made, errors>>
readerVars == <<at, item, received, result>>
vars == <<modelVars, queue, token, late, readerVars>>

StopSignal == 0
Results == {"none", "done", "failed", "cancelled", "timeout", "closed", "empty"}
Points == {"new", "loop", "look", "next", "yielded", "broke", "drain", "check", "drainYielded", "final",
           "join", "over"}

Init ==
    /\ thread = "new" /\ made = 0 /\ errors = FALSE
    /\ queue = <<>>
    /\ token = FALSE /\ late = FALSE
    /\ at = "new" /\ item = 0 /\ received = <<>> /\ result = "none"

-----------------------------------------------------------------------------
(* The worker thread: _run.                                                *)

\* A token cancelled before the thread looks keeps the model from running.
Begin ==
    /\ thread = "started"
    /\ thread' = IF token THEN "ending" ELSE "generating"
    /\ UNCHANGED <<made, errors, queue, token, late, readerVars>>

Produce ==
    /\ thread = "generating" /\ made < MaxChunks
    /\ made' = made + 1
    /\ queue' = Append(queue, made + 1)
    /\ UNCHANGED <<thread, errors, token, late, readerVars>>

\* generate() comes to its end, by itself or by the stopping criterion that
\* reads the token: streamer.end() puts the stop signal.
Finish ==
    /\ thread = "generating"
    /\ queue' = Append(queue, StopSignal)
    /\ thread' = "ending"
    /\ UNCHANGED <<made, errors, token, late, readerVars>>

\* generate() raises: the exception is kept, no stop signal is put.
Break ==
    /\ thread = "generating"
    /\ errors' = TRUE
    /\ thread' = "ending"
    /\ UNCHANGED <<made, queue, token, late, readerVars>>

Die ==
    /\ thread = "ending"
    /\ thread' = "dead"
    /\ UNCHANGED <<made, errors, queue, token, late, readerVars>>

-----------------------------------------------------------------------------
(* The iterator.                                                           *)

Goto(point) == at' = point

\* (Mutant) The iteration is left without cancelling the token.
MutLeave(outcome) ==
    /\ Goto("join")
    /\ result' = outcome
    /\ UNCHANGED token

\* The iteration ends, by an exception or not: the except and finally clauses
\* cancel the token.
Leave(outcome) ==
    /\ Goto("join")
    /\ result' = outcome
    /\ token' = TRUE

\* The first next() of the caller starts the thread.
Start ==
    /\ at = "new"
    /\ thread' = "started"
    /\ Goto("loop")
    /\ UNCHANGED <<made, errors, queue, token, late, item, received, result>>

Loop ==
    /\ at = "loop"
    /\ Goto(IF thread = "dead" THEN "broke" ELSE "look")
    /\ UNCHANGED <<modelVars, queue, token, late, item, received, result>>

\* What is tested before each wait: the token, the time, the worker's error.
Look ==
    /\ at = "look"
    /\ \/ token /\ Leave("cancelled")
       \/ ~token /\ late /\ Leave("timeout")
       \/ ~token /\ ~late /\ errors /\ Leave("failed")
       \/ ~token /\ ~late /\ ~errors /\ Goto("next") /\ UNCHANGED <<token, result>>
    /\ UNCHANGED <<modelVars, queue, late, item, received>>

\* next(streamer): a chunk is yielded, the stop signal breaks the loop, and
\* after a second without an item the loop goes round.
TakeNext ==
    /\ at = "next"
    /\ \/ /\ queue # <<>>
          /\ IF Head(queue) = StopSignal
             THEN Goto("broke") /\ UNCHANGED <<item, received>>
             ELSE Goto("yielded") /\ item' = Head(queue) /\ received' = Append(received, Head(queue))
          /\ queue' = Tail(queue)
       \/ queue = <<>> /\ Goto("loop") /\ UNCHANGED <<queue, item, received>>
    /\ UNCHANGED <<modelVars, token, late, result>>

\* The caller asks for more ...
Resume ==
    /\ at \in {"yielded", "drainYielded"}
    /\ Goto(IF at = "yielded" THEN "loop" ELSE "drain")
    /\ UNCHANGED <<modelVars, queue, token, late, item, received, result>>

\* ... or drops the iterator: GeneratorExit.
Close ==
    /\ at \in {"yielded", "drainYielded"}
    /\ Leave("closed")
    /\ UNCHANGED <<modelVars, queue, late, item, received>>

AfterLoop ==
    /\ at = "broke"
    /\ IF errors THEN Leave("failed") ELSE Goto("drain") /\ UNCHANGED <<token, result>>
    /\ UNCHANGED <<modelVars, queue, late, item, received>>

\* (Mutant) The chunk stays in the queue.
MutDrain ==
    /\ at = "drain"
    /\ \/ /\ queue # <<>> /\ Head(queue) # StopSignal
          /\ Goto("check") /\ item' = Head(queue)
          /\ UNCHANGED <<token, result, queue>>
       \/ /\ queue # <<>> /\ Head(queue) = StopSignal
          /\ Goto("final") /\ queue' = Tail(queue)
          /\ UNCHANGED <<item, token, result>>
       \/ /\ queue = <<>>
          /\ Leave("empty")
          /\ UNCHANGED <<item, queue>>
    /\ UNCHANGED <<modelVars, late, received>>

\* for chunk in streamer: what is left is taken out.  Empty is not caught here.
Drain ==
    /\ at = "drain"
    /\ \/ /\ queue # <<>> /\ Head(queue) # StopSignal
          /\ Goto("check") /\ item' = Head(queue) /\ queue' = Tail(queue)
          /\ UNCHANGED <<token, result>>
       \/ /\ queue # <<>> /\ Head(queue) = StopSignal
          /\ Goto("final") /\ queue' = Tail(queue)
          /\ UNCHANGED <<item, token, result>>
       \/ /\ queue = <<>>
          /\ Leave("empty")
          /\ UNCHANGED <<item, queue>>
    /\ UNCHANGED <<modelVars, late, received>>

\* The token and the time are tested with the chunk in hand.
Check ==
    /\ at = "check"
    /\ \/ token /\ Leave("cancelled") /\ UNCHANGED received
       \/ ~token /\ late /\ Leave("timeout") /\ UNCHANGED received
       \/ /\ ~token /\ ~late
          /\ Goto("drainYielded") /\ received' = Append(received, item)
          /\ UNCHANGED <<token, result>>
    /\ UNCHANGED <<modelVars, queue, late, item>>

Final ==
    /\ at = "final"
    /\ Leave(IF errors THEN "failed" ELSE "done")
    /\ UNCHANGED <<modelVars, queue, late, item, received>>

\* join(timeout): the thread is dead, or five seconds have passed.
Join ==
    /\ at = "join"
    /\ Goto("over")
    /\ UNCHANGED <<modelVars, queue, token, late, item, received, result>>

-----------------------------------------------------------------------------
(* The surroundings.                                                       *)

\* Somebody who has the token cancels it, before or during the iteration.
CancelCall ==
    /\ Cancels /\ ~token /\ at # "over"
    /\ token' = TRUE
    /\ UNCHANGED <<modelVars, queue, late, readerVars>>

Elapse ==
    /\ ~late /\ at \notin {"new", "over"}
    /\ late' = TRUE
    /\ UNCHANGED <<modelVars, queue, token, readerVars>>

Thread == Begin \/ Produce \/ Finish \/ Break \/ Die
Reader == Loop \/ Look \/ TakeNext \/ Resume \/ Close \/ AfterLoop \/ Drain \/ Check \/ Final \/ Join

Next == Start \/ Thread \/ Reader \/ CancelCall \/ Elapse

Spec == Init /\ [][Next]_vars

\* The thread is scheduled, and the caller goes on or drops the iterator.
\* The model is trusted with one thing only: it stops after the token is set.
Fairness ==
    /\ WF_vars(Begin) /\ WF_vars(Die) /\ WF_vars(token /\ Finish)
    /\ WF_vars(Reader) /\ WF_vars(Elapse)

LiveSpec == Spec /\ Fairness
-----------------------------------------------------------------------------
TypeOK ==
    /\ thread \in {"new", "started", "generating", "ending", "dead"}
    /\ made \in 0..MaxChunks
    /\ queue \in Seq(0..MaxChunks)
    /\ errors \in BOOLEAN /\ token \in BOOLEAN /\ late \in BOOLEAN
    /\ at \in Points
    /\ item \in 0..MaxChunks
    /\ received \in Seq(1..MaxChunks)
    /\ result \in Results

\* The caller gets the model's chunks in the order they were made, none twice
\* and none skipped: also where the iterator passes from its loop to the
\* draining loop with chunks still in the queue.
InOrder == \A i \in 1..Len(received) : received[i] = i

\* An iteration that ends without an exception has delivered all the model
\* made, and the model did not fail.
DoneIsComplete == result = "done" => Len(received) = made /\ ~errors

\* An exception of the model is never mistaken for a normal end or for a
\* queue that stayed empty.
ErrorSurfaces == errors => result \notin {"done", "empty"}

\* Seen by its caller the worker is the stream of chunks of ChunkStream: in no
\* interleaving of thread and iterator is a chunk invented, swapped or given
\* after the end, does a normal end leave a chunk behind, or does the model go
\* on, or fail, behind an end that did not say so.
Caller == INSTANCE ChunkStream WITH failed <- errors
Contract == Caller!Spec

\* The thread ends: not only when the model comes to its end, but whenever
\* the caller drops the iterator, cancels, or the time is over.
ThreadEnds == thread # "new" ~> thread = "dead"
=============================================================================
