----------------------------- MODULE ChunkStream -----------------------------
(***************************************************************************)
(* What the caller of a generation stream may rely on, without threads,    *)
(* queues, tokens or time: chunks are numbered as the model makes them,    *)
(* the caller gets them one after the other, and the stream ends once.     *)
(*                                                                         *)
(* GenerationStream implements it.                                         *)
(***************************************************************************)
EXTENDS Naturals, Sequences

VARIABLES
    made,      \* number of chunks the model has made
    failed,    \* the model raised an exception
    received,  \* what the caller got
    result     \* how the stream ended, "none" before

vars == <<made, failed, received, result>>

Init == made = 0 /\ failed = FALSE /\ received = <<>> /\ result = "none"

\* A model that failed makes nothing more, and what has ended normally was all.
Make ==
    /\ ~failed /\ result \notin {"done", "empty"}
    /\ made' = made + 1
    /\ UNCHANGED <<failed, received, result>>

\* A failure never comes after an end that told the caller nothing of it.
ModelFails ==
    /\ ~failed /\ result \notin {"done", "empty"}
    /\ failed' = TRUE
    /\ UNCHANGED <<made, received, result>>

Deliver ==
    /\ result = "none" /\ Len(received) < made
    /\ received' = Append(received, Len(received) + 1)
    /\ UNCHANGED <<made, failed, result>>

\* done: the model came to its end and everything was handed out.
\* failed: the model's exception.    empty: nothing came for a second.
\* cancelled, timeout, closed: the caller, or somebody for it, ended it.
End ==
    /\ result = "none"
    /\ \/ result' = "done" /\ ~failed /\ Len(received) = made
       \/ result' = "failed" /\ failed
       \/ result' = "empty" /\ ~failed
       \/ result' \in {"cancelled", "timeout", "closed"}
    /\ UNCHANGED <<made, failed, received>>

Next == Make \/ ModelFails \/ Deliver \/ End

Spec == Init /\ [][Next]_vars
=============================================================================
