------------------------- MODULE WritingGeneration --------------------------
(***************************************************************************)
(* Novel text generation: writing/service.py drives a generation record    *)
(* while writing/runtime_bridge.py, behind the model gateway's local       *)
(* provider, resolves the runner, activates the adapter, enters the        *)
(* inference scope (gate and GPU) and reads the stream on pool threads;    *)
(* api/routers/writing.py passes the events on and watches the client.     *)
(*                                                                         *)
(* A generation is a coroutine: one action runs from one await or yield to *)
(* the next.  Text is a number of chunks.  A stop sequence, the prompt and *)
(* the length control (which only shortens what is stored) are abstracted. *)
(***************************************************************************)
EXTENDS Naturals, FiniteSets

CONSTANTS
    Gens,         \* generation ids, one per request
    Streaming,    \* those asked for by /stream, the others by /generate
    Worker,       \* those whose runner streams through GenerationWorker
    Adapter,      \* the adapter each one names, or None for the base model
    SaveTo,       \* those with save_to_chapter
    Slots,        \* capacity of the inference scope
    MaxChunks,    \* (bound) chunks of one generation
    None

ASSUME WritingAssumption ==
    /\ Streaming \subseteq Gens /\ Worker \subseteq Gens /\ SaveTo \subseteq Gens
    /\ Slots \in Nat \ {0} /\ MaxChunks \in Nat

VARIABLES
    at,        \* where each coroutine stands
    status,    \* status of the record
    shown,     \* chunks that were passed to the client
    stored,    \* chunks in the record's model_output
    fate,      \* what the run of the model came to
    tokens,    \* keys of _cancellations
    cancelled, \* generations whose CancellationToken is cancelled
    scope,     \* generations inside the inference scope
    dropped,   \* streams that were dropped and are not closed yet
    active,    \* the adapter active on the runner
    chapter,   \* the chapter still exists
    answer     \* the answer to a cancel request

recordVars == <<status, shown, stored>>
bridgeVars == <<tokens, cancelled, scope, dropped, active>>
vars == <<at, recordVars, fate, bridgeVars, chapter, answer>>

Points == {"idle", "begun", "resolve", "adapter", "activated", "scopeWait", "reading", "shown",
           "stopped", "ended", "over", "gone"}
Statuses == {"none", "running", "streaming", "succeeded", "failed", "cancelled"}
Final == {"succeeded", "failed", "cancelled"}

Init ==
    /\ at = [g \in Gens |-> "idle"]
    /\ status = [g \in Gens |-> "none"]
    /\ shown = [g \in Gens |-> 0]
    /\ stored = [g \in Gens |-> 0]
    /\ fate = [g \in Gens |-> "open"]
    /\ tokens = {} /\ cancelled = {} /\ scope = {} /\ dropped = {}
    /\ active = None
    /\ chapter = TRUE
    /\ answer = [g \in Gens |-> "none"]

Go(g, point) == at' = [at EXCEPT ![g] = point]

\* The local provider of the gateway makes up an id of its own for the bridge.
KeyOf(g) == <<"gateway", g>>

\* bridge.cancel_generation: is there a token under this very id?
HasToken(g) == g \in tokens

-----------------------------------------------------------------------------
(* The bridge.                                                             *)

\* (Mutant) A dropped stream keeps the scope: GeneratorExit is not handled.
MutLeaveBridge(g) ==
    /\ tokens' = tokens \ {KeyOf(g)}
    /\ scope' = IF g \in dropped THEN scope ELSE scope \ {g}

\* The finally clauses of the bridge: token and scope are given up.
LeaveBridge(g) ==
    /\ tokens' = tokens \ {KeyOf(g)}
    /\ scope' = scope \ {g}

\* (Mutant) An error loses what was shown since the last flush.
MutFail(g) ==
    /\ status' = [status EXCEPT ![g] = "failed"]
    /\ UNCHANGED stored
    /\ Go(g, "over")

\* An error reaches the service: what was shown is stored, the record fails -
\* unless it is a stream that was cancelled.
Fail(g) ==
    /\ IF g \in Streaming /\ status[g] = "cancelled"
       THEN UNCHANGED <<status, stored>>
       ELSE /\ status' = [status EXCEPT ![g] = "failed"]
            /\ stored' = [stored EXCEPT ![g] = shown[g]]
    /\ Go(g, "over")

\* The prompt is prepared (or the request refused) and the record created; a
\* stream first yields its start event.
Begin(g) ==
    /\ at[g] = "idle"
    /\ IF g \in Streaming
       THEN Go(g, "begun") /\ status' = [status EXCEPT ![g] = "streaming"]
       ELSE Go(g, "resolve") /\ status' = [status EXCEPT ![g] = "running"]
    /\ UNCHANGED <<shown, stored, fate, bridgeVars, chapter, answer>>

\* resolve_runner loads the model if need be, or fails.
Resolve(g) ==
    /\ at[g] = "resolve"
    /\ \/ Go(g, "adapter") /\ UNCHANGED <<status, stored>>
       \/ Fail(g)
    /\ UNCHANGED <<shown, fate, bridgeVars, chapter, answer>>

\* On a pool thread: the adapter is loaded and activated, or deactivated.
\* An unknown adapter is an error.
Activate(g) ==
    /\ at[g] = "adapter"
    /\ \/ /\ active' = Adapter[g]
          /\ Go(g, "activated") /\ UNCHANGED <<status, stored>>
       \/ Adapter[g] # None /\ Fail(g) /\ UNCHANGED active
    /\ UNCHANGED <<shown, fate, tokens, cancelled, scope, dropped, chapter, answer>>

\* A stream registers its token; both kinds ask for the scope.
Register(g) ==
    /\ at[g] = "activated"
    /\ tokens' = IF g \in Streaming THEN tokens \cup {KeyOf(g)} ELSE tokens
    /\ Go(g, "scopeWait")
    /\ UNCHANGED <<recordVars, fate, cancelled, scope, dropped, active, chapter, answer>>

EnterScope(g) ==
    /\ at[g] = "scopeWait" /\ Cardinality(scope) < Slots
    /\ scope' = scope \cup {g}
    /\ Go(g, "reading")
    /\ UNCHANGED <<recordVars, fate, tokens, cancelled, dropped, active, chapter, answer>>

\* Queue full, GPU busy or timed out.  A cancelled stream just ends.
Refuse(g) ==
    /\ at[g] = "scopeWait" /\ Cardinality(scope) = Slots
    /\ IF g \in cancelled THEN Go(g, "ended") /\ UNCHANGED <<status, stored>> ELSE Fail(g)
    /\ LeaveBridge(g)
    /\ UNCHANGED <<shown, fate, cancelled, dropped, active, chapter, answer>>

\* A chunk comes from the pool thread and is yielded as a delta.  With a stop
\* sequence in it, it is the last one that is taken.
Chunk(g) ==
    /\ at[g] = "reading" /\ g \in Streaming /\ shown[g] < MaxChunks
    /\ shown' = [shown EXCEPT ![g] = @ + 1]
    /\ Go(g, "shown") \/ Go(g, "stopped")
    /\ UNCHANGED <<status, stored, fate, bridgeVars, chapter, answer>>

\* The model is done, or a cancelled token made it stop.
ReadEnd(g) ==
    /\ at[g] = "reading"
    /\ fate' = [fate EXCEPT ![g] = "whole"]
    /\ shown' = IF g \in Streaming THEN shown ELSE [shown EXCEPT ![g] = MaxChunks]
    /\ LeaveBridge(g)
    /\ Go(g, "ended")
    /\ UNCHANGED <<status, stored, cancelled, dropped, active, chapter, answer>>

\* The model raises, or its time is over.  The bridge takes an error of a stream
\* whose token is cancelled for the effect of the cancel and returns as at the
\* end; GenerationWorker cancels the token on every way out.
ReadFails(g) ==
    /\ at[g] = "reading"
    /\ fate' = [fate EXCEPT ![g] = "broken"]
    /\ LeaveBridge(g)
    /\ cancelled' = IF g \in Streaming \cap Worker THEN cancelled \cup {g} ELSE cancelled
    /\ IF g \in Streaming /\ g \in cancelled'
       THEN Go(g, "ended") /\ UNCHANGED <<status, stored>>
       ELSE Fail(g)
    /\ UNCHANGED <<shown, dropped, active, chapter, answer>>

-----------------------------------------------------------------------------
(* The service.                                                            *)

\* The client takes the event; half a second after the last flush the text so
\* far is stored.
Resume(g) ==
    /\ \/ at[g] = "begun" /\ Go(g, "resolve") /\ UNCHANGED stored
       \/ at[g] = "shown" /\ Go(g, "reading") /\ stored' \in {stored, [stored EXCEPT ![g] = shown[g]]}
    /\ UNCHANGED <<status, shown, fate, bridgeVars, chapter, answer>>

\* save_output_to_chapter, where it is asked for, raises without a chapter.
SaveSucceeds(g) == g \in SaveTo => chapter

\* After the loop.  A stop sequence cancels, if it can, and drops the stream.
\* A cancelled stream keeps its partial text; any other succeeds, and fails
\* again when the chapter it shall be saved to is gone.
Conclude(g) ==
    /\ at[g] \in {"ended", "stopped"}
    /\ Go(g, "over")
    /\ stored' = [stored EXCEPT ![g] = shown[g]]
    /\ cancelled' = IF at[g] = "stopped" /\ HasToken(g) THEN cancelled \cup {g} ELSE cancelled
    /\ dropped' = IF at[g] = "stopped" THEN dropped \cup {g} ELSE dropped
    /\ IF status[g] = "cancelled" /\ g \in Streaming
       THEN UNCHANGED status
       ELSE status' = [status EXCEPT ![g] = IF SaveSucceeds(g) THEN "succeeded" ELSE "failed"]
    /\ UNCHANGED <<shown, fate, tokens, scope, active, chapter, answer>>

\* The event loop closes a dropped asynchronous generator.
CloseDropped(g) ==
    /\ g \in dropped
    /\ dropped' = dropped \ {g}
    /\ LeaveBridge(g)
    /\ UNCHANGED <<at, recordVars, fate, cancelled, active, chapter, answer>>

\* cancel_generation: the token is cancelled first, the record after it.
TryCancel(g) ==
    IF HasToken(g)
    THEN cancelled' = cancelled \cup {g} /\ status' = [status EXCEPT ![g] = "cancelled"]
    ELSE UNCHANGED <<cancelled, status>>

\* The router finds the client gone: it tries to cancel and drops the stream.
Abandon(g) ==
    /\ at[g] \in {"begun", "shown", "stopped"}
    /\ TryCancel(g)
    /\ Go(g, "gone")
    /\ dropped' = IF at[g] = "begun" THEN dropped ELSE dropped \cup {g}
    /\ UNCHANGED <<shown, stored, fate, tokens, scope, active, chapter, answer>>

-----------------------------------------------------------------------------
(* Other requests.                                                         *)

\* POST .../cancel (one per generation).
Cancel(g) ==
    /\ status[g] \in {"running", "streaming"} /\ answer[g] = "none"
    /\ TryCancel(g)
    /\ answer' = [answer EXCEPT ![g] = IF HasToken(g) THEN "accepted" ELSE "refused"]
    /\ UNCHANGED <<at, shown, stored, fate, tokens, scope, dropped, active, chapter>>

DeleteChapter ==
    /\ chapter
    /\ chapter' = FALSE
    /\ UNCHANGED <<at, recordVars, fate, bridgeVars, answer>>

Coroutine(g) ==
    \/ Resolve(g) \/ Activate(g) \/ Register(g) \/ EnterScope(g) \/ Refuse(g)
    \/ Chunk(g) \/ ReadEnd(g) \/ ReadFails(g) \/ Resume(g) \/ Conclude(g) \/ Abandon(g)

Next ==
    \/ \E g \in Gens : Begin(g) \/ Coroutine(g) \/ CloseDropped(g) \/ Cancel(g)
    \/ DeleteChapter

Spec == Init /\ [][Next]_vars

\* Coroutines are scheduled, their waits are bounded, and the client takes
\* events or is found gone.
Fairness == \A g \in Gens : WF_vars(Coroutine(g)) /\ WF_vars(CloseDropped(g))

LiveSpec == Spec /\ Fairness
-----------------------------------------------------------------------------
TypeOK ==
    /\ at \in [Gens -> Points]
    /\ status \in [Gens -> Statuses]
    /\ shown \in [Gens -> 0..MaxChunks]
    /\ stored \in [Gens -> 0..MaxChunks]
    /\ fate \in [Gens -> {"open", "whole", "broken"}]
    /\ tokens \subseteq {KeyOf(g) : g \in Gens}
    /\ cancelled \subseteq Gens /\ scope \subseteq Gens /\ dropped \subseteq Gens
    /\ active \in {Adapter[g] : g \in Gens} \cup {None}
    /\ chapter \in BOOLEAN
    /\ answer \in [Gens -> {"none", "accepted", "refused"}]

\* When a record is final it holds all the text its client has been shown: also
\* after an error between two flushes, and on every early end.
StoredIsShown == \A g \in Gens : status[g] \in Final /\ at[g] = "over" => stored[g] = shown[g]

\* The scope is never over its capacity, and whoever is in it either reads or
\* has been dropped and will be closed: no error path keeps a slot.
ScopeAccounted ==
    /\ Cardinality(scope) <= Slots
    /\ \A g \in scope : at[g] \in {"reading", "shown", "stopped"} \/ g \in dropped

\* What a generation took it has given back when its record is final: the text
\* its client saw is in the record, and the slot of the model is free or about
\* to be (_flush and the finally clauses of service.py and the bridge).
TextAndSlotsAccounted == TypeOK /\ StoredIsShown /\ ScopeAccounted

\* Every generation that was begun ends, unless its client is found gone, with a
\* record that says how; and none keeps the scope for ever: not when its client
\* is gone, a stop sequence was found or the model failed.
EveryGenerationEnds ==
    \A g \in Gens :
        /\ at[g] # "idle" ~> at[g] = "gone" \/ status[g] \in Final
        /\ g \in scope ~> g \notin scope

\* tests/test_writing_stream.py: a stream that breaks leaves a failed record.
BrokenStreamFails == \A g \in Gens : status[g] = "succeeded" => fate[g] # "broken"

\* docs/MODEL_GATEWAY_AUDIT.md: a cancel request reaches the CancellationToken of
\* the stream, if it has one.
CancelReachesToken ==
    [][\A g \in Gens : answer[g] = "none" /\ answer'[g] = "refused" => KeyOf(g) \notin tokens]_vars
=============================================================================
