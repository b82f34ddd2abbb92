--------------------------- MODULE StreamingRequest ---------------------------
(***************************************************************************)
(* A request that streams a generation while other tasks ask for the GPU:  *)
(* the scheduler (GpuScheduler) and the worker (GenerationStream) as they  *)
(* are put together by the SSE branch of /v1/chat/completions              *)
(* (event_stream in api_server.py) and by _stream_text_impl of             *)
(* writing/runtime_bridge.py.  Both ask for the GPU, iterate inside the    *)
(* block, and give the GPU back when the block is left; they differ in     *)
(* what happens when the client goes away.                                 *)
(*                                                                         *)
(* event_stream calls the iterator on the event loop, so it is only        *)
(* suspended between two chunks, and the for loop drops the iterator       *)
(* before the block is left.  The bridge runs each next(iterator) on a     *)
(* pool thread and keeps the iterator in a variable: it may be cancelled   *)
(* with a next() under way, and leaves the block while the iterator lives. *)
(***************************************************************************)
EXTENDS GpuScheduler, GenerationStream

CONSTANT Streamer       \* the task that streams; the others are any tasks

ASSUME StreamerAssumption == Streamer \in Coroutines

VARIABLES
    how,    \* "chat": event_stream; "writing": the runtime bridge
    stage   \* where the request stands

requestVars == <<gpuVars, vars, how, stage>>

RequestInit ==
    /\ GpuInit /\ Init
    /\ how \in {"chat", "writing"}
    /\ stage = "new"

AskGpu ==
    /\ stage = "new"
    /\ Ask(Streamer)
    /\ stage' = "asking"
    /\ UNCHANGED <<vars, how>>

\* The block is entered and the first chunk asked for.
Open ==
    /\ stage = "asking" /\ Holds(Streamer)
    /\ Start
    /\ stage' = "streaming"
    /\ UNCHANGED <<gpuVars, how>>

\* GpuTaskTimeoutError, or the coroutine is cancelled in its wait.
GiveUp ==
    /\ stage = "asking"
    /\ gpu[Streamer] = "out" \/ Streamer \in gone
    /\ stage' = "over"
    /\ UNCHANGED <<gpuVars, vars, how>>

\* (Mutant) The block is left with the iterator in hand, not at its end.
MutLeaveBlock ==
    /\ stage = "streaming"
    /\ Unlist(Streamer)
    /\ stage' = "over"
    /\ UNCHANGED <<vars, how>>

\* The iteration is over, by an exception or not: the block is left.
LeaveBlock ==
    /\ stage = "streaming" /\ at = "over"
    /\ Unlist(Streamer)
    /\ stage' = "over"
    /\ UNCHANGED <<vars, how>>

\* The client of the bridge is gone: the block is left at once, the iterator
\* and a next() under way are not.
Abandon ==
    /\ how = "writing" /\ stage = "streaming" /\ at # "over"
    /\ Unlist(Streamer)
    /\ stage' = "abandoned"
    /\ UNCHANGED <<vars, how>>

\* The iterator's steps.  Nobody asks an abandoned one for another chunk; it
\* is closed when its last reference goes, which in the bridge is after the
\* block was left.
Iterate ==
    /\ stage \in {"streaming", "abandoned"}
    /\ Reader
    /\ stage = "abandoned" => ~Resume
    /\ how = "writing" /\ stage = "streaming" => ~Close
    /\ UNCHANGED <<gpuVars, how, stage>>

Worker == Thread /\ UNCHANGED <<gpuVars, how, stage>>

\* cancel_generation of the bridge, by a caller that knows the key of the token
\* (the writing service does not: see WritingGeneration); a chat has no such call.
TokenCancelled == how = "writing" /\ stage = "streaming" /\ CancelCall /\ UNCHANGED <<gpuVars, how, stage>>

TimePasses == Elapse /\ UNCHANGED <<gpuVars, how, stage>>

Scheduler ==
    /\ \/ \E t \in Tasks : GpuStep(t) \/ Cancel(t)
       \/ \E t \in Tasks \ {Streamer} : Ask(t) \/ Unlist(t)
    /\ UNCHANGED <<vars, how, stage>>

RequestNext ==
    \/ AskGpu \/ Open \/ GiveUp \/ LeaveBlock \/ Abandon
    \/ Iterate \/ Worker \/ TokenCancelled \/ TimePasses \/ Scheduler

RequestSpec == RequestInit /\ [][RequestNext]_requestVars

\* The fairness of both parts, and an event loop that goes on.
RequestFairness ==
    /\ \A t \in Tasks : WF_requestVars(GpuStep(t) /\ Scheduler)
    /\ \A t \in Tasks \ {Streamer} : WF_requestVars(Unlist(t) /\ Scheduler)
    /\ WF_requestVars(Open \/ GiveUp \/ LeaveBlock)
    /\ WF_requestVars(Iterate) /\ WF_requestVars(TimePasses)
    /\ WF_requestVars(Begin /\ Worker) /\ WF_requestVars(Die /\ Worker)
    /\ WF_requestVars(token /\ Finish /\ Worker)

RequestLiveSpec == RequestSpec /\ RequestFairness
-----------------------------------------------------------------------------
\* A model generates under the GPU permit of its request.  Without it, it has
\* been told to stop (the worker outlived its join), or the bridge's client
\* went away before the iterator was closed.
GeneratesUnderPermit ==
    thread \in {"started", "generating"} /\ ~token => Holds(Streamer) \/ stage = "abandoned"
=============================================================================
