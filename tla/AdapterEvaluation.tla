-------------------------- MODULE AdapterEvaluation --------------------------
(***************************************************************************)
(* The comparison of a base model with an adapter                          *)
(* (src/llm_studio/adapter_evaluation): sessions, their cases with a       *)
(* frozen prompt, the pair of results of a case, scores and reports, and   *)
(* the way of a generation through writing/runtime_bridge.py.              *)
(*                                                                         *)
(* All of it runs on the event loop; a comparison gives way only where the *)
(* bridge awaits: for the pool thread that switches the adapter, for the   *)
(* slot of the model and for the text.  A prompt is a number, 0 a blank    *)
(* one; a result carries, as history, the prompt it answers, the run it is *)
(* of and the adapter that was active.                                     *)
(***************************************************************************)
EXTENDS Integers, Sequences, FiniteSets, FiniteSetsExt

CONSTANTS Comparers,      \* bound on the calls that compare at a time
          MaxSessions, MaxCases, MaxPrompts, MaxRevised, MaxScored   \* bounds on the rows

VARIABLES session,        \* adapter_evaluation_sessions: their status
          case,           \* adapter_evaluation_cases
          result,         \* adapter_evaluation_results of each case
          score,          \* adapter_evaluation_scores of each case
          comparison,     \* adapter_evaluation_reports: their recommendation
          compare,        \* the calls of run_case and run_session
          active,         \* the adapter active on the runner
          slot,           \* who has the inference scope
          turns,          \* history: the number of comparisons begun
          revised         \* the revisions made of results

comparisonVars == <<session, case, result, score, comparison, compare, active, slot, turns, revised>>

Base == "base"
Adapter == "adapter"
Nobody == "nobody"
NoResult == [turn |-> 0]
NoMark == [winner |-> "none", base |-> 0, adapter |-> 0]
Resting == [pc |-> "rest", case |-> 0, prompt |-> 0, turn |-> 0, variant |-> Base,
            base |-> NoResult, seen |-> "none", whole |-> 0, rest |-> {}]

SessionStatuses == {"draft", "ready", "running", "reviewing", "completed", "failed", "archived"}

ComparisonInit ==
  /\ session = << >> /\ case = << >> /\ result = << >> /\ score = << >>
  /\ comparison = << >> /\ revised = << >> /\ turns = 0
  /\ compare = [c \in Comparers |-> Resting]
  /\ active = Base /\ slot = Nobody

recordVars == <<score, comparison, revised>>
CasesOf(s) == {k \in DOMAIN case : case[k].session = s}

(* The repository.  A result and a score replace the ones there were.      *)
NewCase(s, prompt) == [session |-> s, status |-> "ready", prompt |-> prompt, torn |-> FALSE]
Marked(sessions, s, status) == [sessions EXCEPT ![s] = status]
Closed(k, status) == [case EXCEPT ![k].status = status, ![k].torn = FALSE]
UpsertResults(k, base, adapter) == result' = [result EXCEPT ![k] = [base |-> base, adapter |-> adapter]]
UpsertScore(k, mark) == score' = [score EXCEPT ![k] = mark]
InsertComparison(row) == comparison' = Append(comparison, row)

-----------------------------------------------------------------------------
(* Sessions and cases                                                      *)

CreateSession ==
  /\ Len(session) < MaxSessions
  /\ session' = Append(session, "draft")
  /\ UNCHANGED <<case, result, compare, active, slot, turns, recordVars>>

UpdateSession(s, status) ==
  /\ session' = Marked(session, s, status)
  /\ UNCHANGED <<case, result, compare, active, slot, turns, recordVars>>
ArchiveSession(s) == UpdateSession(s, "archived")

(* What the context assembler and the prompt studio make of the case now.  *)
CreateCase(s, prompt) ==
  /\ Len(case) < MaxCases
  /\ case' = Append(case, NewCase(s, prompt))
  /\ result' = Append(result, [base |-> NoResult, adapter |-> NoResult])
  /\ score' = Append(score, NoMark)
  /\ session' = IF session[s] = "draft" THEN Marked(session, s, "ready") ELSE session
  /\ UNCHANGED <<comparison, revised, compare, active, slot, turns>>

(* A ready case keeps its prompt, any other one is frozen anew, also while *)
(* it runs.                                                                *)
PrepareCase(k, prompt) ==
  /\ case[k].prompt = 0 \/ case[k].status # "ready"
  /\ case' = [case EXCEPT ![k].prompt = prompt, ![k].status = "ready"]
  /\ UNCHANGED <<session, result, compare, active, slot, turns, recordVars>>

-----------------------------------------------------------------------------
(* run_case and run_session.  A call goes on with the oldest of its cases  *)
(* that may run; a blank prompt is an error that leaves the case running.  *)

Runnable(cases, k, sessions) ==
  cases[k].status \in {"ready", "completed"} /\ sessions[cases[k].session] # "archived"

Advance(cases, sessions, todo) ==
  LET may == {k \in todo : Runnable(cases, k, sessions)}
      prompted == {k \in may : cases[k].prompt # 0}
      next == IF prompted = {} THEN 0 ELSE Min(prompted)
      tried == {k \in may : next = 0 \/ k =< next}
  IN  [cases |-> [k \in DOMAIN cases |-> IF k \in tried THEN [cases[k] EXCEPT !.status = "running"]
                                        ELSE cases[k]],
       next |-> next, rest |-> {k \in todo : next # 0 /\ k > next}]

(* The call c has the cases `todo` before it, those of session `whole` if  *)
(* it is run_session.                                                      *)
GoOn(c, cases, sessions, todo, whole) ==
  LET at == Advance(cases, sessions, todo)
      someCompleted == \E k \in DOMAIN at.cases :
                         at.cases[k].session = whole /\ at.cases[k].status = "completed"
  IN  /\ case' = at.cases
      /\ IF at.next # 0
         THEN /\ session' = sessions
              /\ turns' = turns + 1
              /\ compare' = [compare EXCEPT ![c] =
                   [Resting EXCEPT !.pc = "switch", !.case = at.next, !.turn = turns + 1,
                      !.prompt = at.cases[at.next].prompt, !.whole = whole, !.rest = at.rest,
                      !.seen = sessions[at.cases[at.next].session]]]
         ELSE /\ session' = IF whole = 0 THEN sessions
                            ELSE Marked(sessions, whole, IF someCompleted THEN "reviewing" ELSE "failed")
              /\ compare' = [compare EXCEPT ![c] = Resting]
              /\ UNCHANGED turns

RunCase(c, k) ==
  /\ compare[c].pc = "rest" /\ Runnable(case, k, session)
  /\ GoOn(c, case, session, {k}, 0)
  /\ UNCHANGED <<result, active, slot, recordVars>>

(* At most 20 cases; an archived session runs like any other.              *)
RunSession(c, s, chosen, rerunCompleted) ==
  LET statuses == {"ready"} \union IF rerunCompleted THEN {"completed"} ELSE {}
      todo == {k \in CasesOf(s) \intersect chosen : case[k].status \in statuses}
  IN  /\ compare[c].pc = "rest"
      /\ GoOn(c, case, Marked(session, s, "running"), todo, s)
      /\ UNCHANGED <<result, active, slot, recordVars>>

-----------------------------------------------------------------------------
(* One variant after the other: the adapter is switched on a pool thread,  *)
(* the scope of the model is entered, the text is made.                    *)

SwitchAdapter(c) ==
  /\ compare[c].pc = "switch"
  /\ active' = compare[c].variant
  /\ compare' = [compare EXCEPT ![c].pc = "wait"]
  /\ UNCHANGED <<session, case, result, slot, turns, recordVars>>

EnterScope(c) ==
  /\ compare[c].pc = "wait" /\ slot = Nobody
  /\ slot' = c
  /\ compare' = [compare EXCEPT ![c].pc = "generate"]
  /\ UNCHANGED <<session, case, result, active, turns, recordVars>>

Answer(c, status) ==
  [turn |-> compare[c].turn, prompt |-> compare[c].prompt, status |-> status,
   used |-> IF status = "succeeded" THEN active ELSE compare[c].variant]

(* A failure on the way is a failed result.                                *)
Answers(c, variant, status) ==
  /\ compare[c].variant = variant
  /\ IF status = "succeeded" THEN compare[c].pc = "generate"
     ELSE compare[c].pc \in {"switch", "wait", "generate"}
  /\ slot' = IF slot = c THEN Nobody ELSE slot

MutBaseAnswers(c, status) ==
  /\ Answers(c, Base, status)
  /\ compare' = [compare EXCEPT ![c].pc = "switch", ![c].variant = Adapter,
                   ![c].prompt = case[compare[c].case].prompt, ![c].base = Answer(c, status)]
  /\ UNCHANGED <<session, case, result, active, turns, recordVars>>
BaseAnswers(c, status) ==
  /\ Answers(c, Base, status)
  /\ compare' = [compare EXCEPT ![c].pc = "switch", ![c].variant = Adapter,
                                ![c].base = Answer(c, status)]
  /\ UNCHANGED <<session, case, result, active, turns, recordVars>>

(* The end of run_case: both results are stored and the case is closed.    *)
(* The status the session had at the start decides on its new one.         *)
AdapterAnswers(c, status) ==
  LET k == compare[c].case
      s == case[k].session
      bothFailed == compare[c].base.status = "failed" /\ status = "failed"
      closed == Closed(k, IF bothFailed THEN "failed" ELSE "completed")
      reviewing == IF ~bothFailed /\ compare[c].seen \in {"draft", "ready"}
                   THEN Marked(session, s, "reviewing") ELSE session
  IN  /\ Answers(c, Adapter, status)
      /\ UpsertResults(k, compare[c].base, Answer(c, status))
      /\ GoOn(c, closed, reviewing, compare[c].rest, compare[c].whole)
      /\ UNCHANGED <<active, recordVars>>

(* The end of the process, maybe between the two upserts of c, and its     *)
(* next start, which recovers no case.                                     *)
ProcessEnds ==
  /\ \/ UNCHANGED <<case, result>>
     \/ \E c \in Comparers :
          /\ compare[c].pc = "generate" /\ compare[c].variant = Adapter
          /\ UpsertResults(compare[c].case, compare[c].base, result[compare[c].case].adapter)
          /\ case' = [case EXCEPT ![compare[c].case].torn = TRUE]
  /\ compare' = [c \in Comparers |-> Resting]
  /\ active' = Base /\ slot' = Nobody
  /\ UNCHANGED <<session, turns, recordVars>>

-----------------------------------------------------------------------------
(* Scores, reports and revisions of the results                            *)

HasPair(k) == result[k].base # NoResult /\ result[k].adapter # NoResult

ScoreCase(k, mark) ==
  /\ HasPair(k)
  /\ Cardinality({n \in DOMAIN score : n # k /\ score[n] # NoMark}) < MaxScored
  /\ UpsertScore(k, mark)
  /\ UNCHANGED <<session, case, result, compare, active, slot, turns, comparison, revised>>

(* AdapterEvaluationReportBuilder: 0 is a score that was not given.        *)
Recommendation(s) ==
  LET scored == {k \in CasesOf(s) : score[k].base # 0 \/ score[k].adapter # 0}
      bases == {k \in scored : score[k].base # 0}
      adapters == {k \in scored : score[k].adapter # 0}
      wins(variant) == Cardinality({k \in CasesOf(s) : score[k].winner = variant})
      total(ks, of(_)) == FoldSet(LAMBDA k, sum : sum + of(k), 0, ks)
      below == total(adapters, LAMBDA k : score[k].adapter) * Cardinality(bases)
                 =< (total(bases, LAMBDA k : score[k].base) - Cardinality(bases)) * Cardinality(adapters)
  IN  CASE Cardinality(scored) < Max({1, Min({3, Cardinality(CasesOf(s))})}) -> "insufficient_scores"
        [] bases # {} /\ adapters # {} /\ below -> "adapter_regression"
        [] wins(Adapter) > wins(Base) -> "adapter_candidate"
        [] OTHER -> "needs_more_review"

GenerateComparison(s) ==
  /\ Len(comparison) < 1
  /\ InsertComparison([session |-> s, recommendation |-> Recommendation(s)])
  /\ UNCHANGED <<session, case, result, score, compare, active, slot, turns, revised>>

(* The base text is the original, the text of the chosen variant the edit. *)
CreateRevisionFromResult(k, variant) ==
  /\ Len(revised) < MaxRevised
  /\ HasPair(k)
  /\ result[k].base.status = "succeeded" /\ result[k][variant].status = "succeeded"
  /\ revised' = Append(revised, [case |-> k, original |-> result[k].base,
                                 edited |-> result[k][variant], torn |-> case[k].torn])
  /\ UNCHANGED <<session, case, result, score, comparison, compare, active, slot, turns>>

-----------------------------------------------------------------------------
Prompt == 0..MaxPrompts
Marks == [winner : {Adapter, "none"}, base : {0, 2}, adapter : {1, 4}]

ComparisonCalls ==
  \/ CreateSession
  \/ \E s \in DOMAIN session :
       \/ ArchiveSession(s) \/ GenerateComparison(s)
       \/ \E status \in SessionStatuses : UpdateSession(s, status)
       \/ \E prompt \in Prompt : CreateCase(s, prompt)
       \/ \E c \in Comparers, chosen \in SUBSET CasesOf(s), rerun \in BOOLEAN :
            RunSession(c, s, chosen, rerun)
  \/ \E k \in DOMAIN case :
       \/ \E prompt \in Prompt : PrepareCase(k, prompt)
       \/ \E c \in Comparers : RunCase(c, k)
       \/ \E mark \in Marks : ScoreCase(k, mark)
       \/ \E variant \in {Base, Adapter} : CreateRevisionFromResult(k, variant)
  \/ ProcessEnds

ComparisonSteps ==
  \E c \in Comparers :
    \/ SwitchAdapter(c) \/ EnterScope(c)
    \/ \E status \in {"succeeded", "failed"} : BaseAnswers(c, status) \/ AdapterAnswers(c, status)

ComparisonSpec == ComparisonInit /\ [][ComparisonCalls \/ ComparisonSteps]_comparisonVars

-----------------------------------------------------------------------------
(* The two results of a case, and the two texts of a revision made of      *)
(* them, are of one run and answer one prompt, whatever was prepared, run  *)
(* again or archived while the texts were made (but if the process ended   *)
(* between the two writes, and the case was not run since).                *)
PairFromOneRun ==
  LET Pair(one, other) == one.turn = other.turn /\ (one # NoResult => one.prompt = other.prompt)
  IN  /\ \A k \in DOMAIN case : case[k].torn \/ Pair(result[k].base, result[k].adapter)
      /\ \A n \in DOMAIN revised : revised[n].torn \/ Pair(revised[n].original, revised[n].edited)

(* What is stored as the text of a variant was made with the adapter of    *)
(* that variant.                                                           *)
VariantIsItsAdapter ==
  \A k \in DOMAIN case :
    HasPair(k) => result[k].base.used = Base /\ result[k].adapter.used = Adapter
=============================================================================
