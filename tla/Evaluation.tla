----------------------------- MODULE Evaluation -----------------------------
(***************************************************************************)
(* The evaluation center (src/llm_studio/evaluation): runs with a case per *)
(* evaluator, the outputs of the cases, manual scores and reports.         *)
(*                                                                         *)
(* start_run executes on the event loop, where it gives way only while the *)
(* local model judges, or on the one thread of the evaluation jobs, where  *)
(* anything may come between two of its transactions.  `loop` is who runs  *)
(* on the event loop; a handler of several transactions holds it while     *)
(* the thread goes on.                                                     *)
(*                                                                         *)
(* An output, by its id, stands for the rows one result adds: its score    *)
(* metric and the status of its finding; case 0 is a manual score.         *)
(* `crossed` and `lost` are history: others wrote outputs or scores of the *)
(* run during its last execution, the process ended during it.             *)
(***************************************************************************)
EXTENDS Integers, Sequences, FiniteSets, Functions, FiniteSetsExt

CONSTANTS Coroutines,     \* bound on the executions on the event loop
          EvaluatorLists, \* the enabled evaluators a request may name
          ScoreRange,     \* the scores of the results and the reviewers
          MaxRuns, MaxOutputs, MaxReports   \* bounds on the rows

ASSUME EvaluationAssumption ==
  /\ {"job", "call", "free"} \cap Coroutines = {}
  /\ EvaluatorLists \subseteq Seq(STRING) \ {<< >>}
  /\ MaxOutputs \in Nat

VARIABLES evalRun,        \* evaluation_runs, each with its evaluation_cases
          output,         \* evaluation_metrics and evaluation_findings
          manual,         \* manual_evaluation_scores
          report,         \* evaluation_reports
          exec,           \* the executions of start_run
          waiting,        \* the runs whose job waits for the thread
          flagged,        \* the runs whose job was told to stop
          loop, handler   \* who runs on the event loop, and the rest of its call

evalVars == <<evalRun, output, manual, report, exec, waiting, flagged, loop, handler>>

Executions == Coroutines \union {"job"}
Terminal == {"completed", "failed", "cancelled", "archived"}
NoScore == 0
Idle == [pc |-> "idle", run |-> 0, case |-> 0, read |-> NoScore]
NoCall == [op |-> "none", run |-> 0, read |-> NoScore]

EvaluationInit ==
  /\ evalRun = << >> /\ output = << >> /\ manual = << >> /\ report = << >>
  /\ exec = [e \in Executions |-> Idle]
  /\ waiting = << >> /\ flagged = {}
  /\ loop = "free" /\ handler = NoCall

-----------------------------------------------------------------------------
(* aggregate_overall_score, in sixtieths: the mean of the scores           *)
Clamp(s) == Max({1, Min({5, s})})
Mean(scores) ==
  IF DOMAIN scores = {} THEN NoScore
  ELSE FoldFunction(LAMBDA s, sum : sum + 60 * Clamp(s), 0, scores) \div Cardinality(DOMAIN scores)
Outputs(r) == {n \in DOMAIN output : output[n].run = r /\ output[n].score # NoScore}
Aggregate(r) == Mean([n \in Outputs(r) |-> output[n].score])

At(r) == {e \in Executions : exec[e].run = r /\ exec[e].pc \notin {"idle", "check"}}
Scoring(r) == handler.op \in {"read", "overall"} /\ handler.run = r
Free == loop = "free"

RowWith(row, changes) == [f \in DOMAIN row |-> IF f \in DOMAIN changes THEN changes[f] ELSE row[f]]
UpdateRun(r, changes) == evalRun' = [evalRun EXCEPT ![r] = RowWith(@, changes)]
UpdateCase(r, n, status) == evalRun' = [evalRun EXCEPT ![r].cases[n] = status]
OutputRow(r, n, score) == [run |-> r, case |-> n, score |-> score, finding |-> "open"]
AddOutput(r, n, score) ==
  LET ids == (1..MaxOutputs) \ DOMAIN output
      id  == Min(ids)
  IN  /\ ids # {}
      /\ output' = [o \in DOMAIN output \union {id} |-> IF o = id THEN OutputRow(r, n, score) ELSE output[o]]

ManualScore(r, score) == [run |-> r, score |-> score]
InsertReport(body) == report' = Append(report, body)

-----------------------------------------------------------------------------
(* start_run.  Goto ends with the execution at pc.                         *)

MayRun(e) == e = "job" \/ loop = e
Goto(e, pc) == exec' = [exec EXCEPT ![e].pc = pc]
Ends(e) == exec' = [exec EXCEPT ![e] = Idle] /\ loop' = IF e = "job" THEN loop ELSE "free"

(* A vanished target or an archived run ends the call and leaves the run.  *)
Check(e, targetFound) ==
  /\ exec[e].pc = "check" /\ MayRun(e)
  /\ IF targetFound /\ evalRun[exec[e].run].status # "archived"
     THEN Goto(e, "clear") /\ UNCHANGED loop ELSE Ends(e)
  /\ UNCHANGED <<evalRun, output, manual, report, waiting, flagged, handler>>

MutCleared(r) == output
Cleared(r) == Restrict(output, {n \in DOMAIN output : output[n].run # r})

ClearCaseOutputs(e) ==
  LET r == exec[e].run IN
  /\ exec[e].pc = "clear" /\ MayRun(e)
  /\ output' = Cleared(r)
  /\ UpdateRun(r, [crossed |-> At(r) # {e} \/ Scoring(r), lost |-> FALSE])
  /\ Goto(e, "begin")
  /\ UNCHANGED <<manual, report, waiting, flagged, loop, handler>>

Begin(e) ==
  /\ exec[e].pc = "begin" /\ MayRun(e)
  /\ UpdateRun(exec[e].run, [status |-> "running"])
  /\ exec' = [exec EXCEPT ![e].pc = "case", ![e].case = 1]
  /\ UNCHANGED <<output, manual, report, waiting, flagged, loop, handler>>

(* The judge awaits the model: the event loop goes on with others.         *)
BeginCase(e) ==
  LET r == exec[e].run
      judged == evalRun[r].evaluators[exec[e].case] = "local_model_judge"
  IN  /\ exec[e].pc = "case" /\ MayRun(e)
      /\ UpdateCase(r, exec[e].case, "running")
      /\ Goto(e, IF judged THEN "judging" ELSE "save")
      /\ loop' = IF judged /\ loop = e THEN "free" ELSE loop
      /\ UNCHANGED <<output, manual, report, waiting, flagged, handler>>

JudgeAnswers(e) ==
  /\ exec[e].pc = "judging" /\ (e = "job" \/ Free)
  /\ Goto(e, "save")
  /\ loop' = IF e = "job" THEN loop ELSE e
  /\ UNCHANGED <<evalRun, output, manual, report, waiting, flagged, handler>>

(* A judge without a model gives a finding and no score.                   *)
SaveResult(e, score) ==
  /\ exec[e].pc = "save" /\ MayRun(e)
  /\ AddOutput(exec[e].run, exec[e].case, score)
  /\ Goto(e, "done")
  /\ UNCHANGED <<evalRun, manual, report, waiting, flagged, loop, handler>>

CaseDone(e) ==
  LET r == exec[e].run
      more == exec[e].case < Len(evalRun[r].cases)
  IN  /\ exec[e].pc = "done" /\ MayRun(e)
      /\ UpdateCase(r, exec[e].case, "completed")
      /\ exec' = [exec EXCEPT ![e].pc = IF more THEN "case" ELSE "aggregate", ![e].case = @ + 1]
      /\ UNCHANGED <<output, manual, report, waiting, flagged, loop, handler>>

ListMetrics(e) ==
  /\ exec[e].pc = "aggregate" /\ MayRun(e)
  /\ exec' = [exec EXCEPT ![e].pc = "complete", ![e].read = Aggregate(exec[e].run)]
  /\ UNCHANGED <<evalRun, output, manual, report, waiting, flagged, loop, handler>>

Complete(e) ==
  /\ exec[e].pc = "complete" /\ MayRun(e)
  /\ UpdateRun(exec[e].run, [status |-> "completed", overall |-> exec[e].read])
  /\ Ends(e)
  /\ UNCHANGED <<output, manual, report, waiting, flagged, handler>>

(* Any exception once the run is running, of an evaluator or the database. *)
MutFail(e) ==
  /\ exec[e].pc \in {"case", "judging", "save", "done", "aggregate", "complete"}
  /\ MayRun(e) \/ (exec[e].pc = "judging" /\ Free)
  /\ IF exec[e].pc = "judging" THEN UNCHANGED evalRun ELSE UpdateRun(exec[e].run, [status |-> "failed"])
  /\ Ends(e)
  /\ UNCHANGED <<output, manual, report, waiting, flagged, handler>>
Fail(e) ==
  /\ exec[e].pc \in {"case", "judging", "save", "done", "aggregate", "complete"}
  /\ MayRun(e) \/ (exec[e].pc = "judging" /\ Free)
  /\ UpdateRun(exec[e].run, [status |-> "failed"])
  /\ Ends(e)
  /\ UNCHANGED <<output, manual, report, waiting, flagged, handler>>

ExecutionNext ==
  \E e \in Executions :
    \/ \E targetFound \in BOOLEAN : Check(e, targetFound)
    \/ ClearCaseOutputs(e) \/ Begin(e) \/ BeginCase(e) \/ JudgeAnswers(e)
    \/ \E score \in ScoreRange \union {NoScore} : SaveResult(e, score)
    \/ CaseDone(e) \/ ListMetrics(e) \/ Complete(e) \/ Fail(e)

-----------------------------------------------------------------------------
(* The calls of the API, each on a free event loop                         *)

StartOnLoop(c, r) ==
  /\ exec[c] = Idle
  /\ exec' = [exec EXCEPT ![c] = [Idle EXCEPT !.pc = "check", !.run = r]]
  /\ loop' = c

NewRun(evaluators) ==
  [status |-> "created", overall |-> NoScore, job |-> FALSE, evaluators |-> evaluators,
   cases |-> [n \in DOMAIN evaluators |-> "pending"], crossed |-> FALSE, lost |-> FALSE]

(* The job may run before the handler that submits it marks the run.       *)
CreateRun(evaluators, c, runAsync) ==
  LET r == Len(evalRun) + 1 IN
  /\ Free /\ r =< MaxRuns
  /\ evalRun' = Append(evalRun, NewRun(evaluators))
  /\ IF runAsync
     THEN /\ waiting' = Append(waiting, r)
          /\ loop' = "call" /\ handler' = [NoCall EXCEPT !.op = "queued", !.run = r]
          /\ UNCHANGED exec
     ELSE StartOnLoop(c, r) /\ UNCHANGED <<waiting, handler>>
  /\ UNCHANGED <<output, manual, report, flagged>>

CallEnds == loop' = "free" /\ handler' = NoCall

MarkQueued ==
  /\ handler.op = "queued"
  /\ UpdateRun(handler.run, [status |-> "queued", job |-> TRUE])
  /\ CallEnds
  /\ UNCHANGED <<output, manual, report, exec, waiting, flagged>>

StartRun(r, c) ==
  /\ Free /\ StartOnLoop(c, r)
  /\ UNCHANGED <<evalRun, output, manual, report, waiting, flagged, handler>>

(* run_evaluation_job.  Of a job told to stop before it starts, the queue  *)
(* does not call the handler, or the handler notices it and says so.       *)
StartJob ==
  LET r == Head(waiting) IN
  /\ waiting # << >> /\ exec["job"] = Idle
  /\ waiting' = Tail(waiting)
  /\ \/ r \notin flagged /\ UNCHANGED evalRun
        /\ exec' = [exec EXCEPT !["job"] = [Idle EXCEPT !.pc = "check", !.run = r]]
     \/ r \in flagged /\ UNCHANGED <<evalRun, exec>>
     \/ r \in flagged /\ UpdateRun(r, [status |-> "cancelled"]) /\ UNCHANGED exec
  /\ UNCHANGED <<output, manual, report, flagged, loop, handler>>

CancelRun(r) ==
  /\ Free /\ evalRun[r].status \notin Terminal
  /\ flagged' = IF evalRun[r].job THEN flagged \union {r} ELSE flagged
  /\ loop' = "call" /\ handler' = [NoCall EXCEPT !.op = "cancel", !.run = r]
  /\ UNCHANGED <<evalRun, output, manual, report, exec, waiting>>

MarkCancelled ==
  /\ handler.op = "cancel"
  /\ UpdateRun(handler.run, [status |-> "cancelled"])
  /\ CallEnds
  /\ UNCHANGED <<output, manual, report, exec, waiting, flagged>>

ArchiveRun(r) ==
  /\ Free /\ UpdateRun(r, [status |-> "archived"])
  /\ UNCHANGED <<output, manual, report, exec, waiting, flagged, loop, handler>>

AddManualScore(r, score) ==
  /\ Free
  /\ manual' = Append(manual, ManualScore(r, score))
  /\ AddOutput(r, 0, score)
  /\ UpdateRun(r, [crossed |-> evalRun[r].crossed \/ At(r) # {}])
  /\ loop' = "call" /\ handler' = [NoCall EXCEPT !.op = "read", !.run = r]
  /\ UNCHANGED <<report, exec, waiting, flagged>>

ReadScores ==
  /\ handler.op = "read"
  /\ handler' = [handler EXCEPT !.op = "overall", !.read = Aggregate(handler.run)]
  /\ UNCHANGED <<evalRun, output, manual, report, exec, waiting, flagged, loop>>

WriteOverall ==
  /\ handler.op = "overall"
  /\ UpdateRun(handler.run, [overall |-> handler.read])
  /\ CallEnds
  /\ UNCHANGED <<output, manual, report, exec, waiting, flagged>>

UpdateFindingStatus(n, status) ==
  /\ Free /\ output' = [output EXCEPT ![n].finding = status]
  /\ UNCHANGED <<evalRun, manual, report, exec, waiting, flagged, loop, handler>>

(* The report of what the tables hold, automatic and manual apart.         *)
Build(r) ==
  [run |-> r, status |-> evalRun[r].status, overall |-> evalRun[r].overall,
   cases |-> Len(evalRun[r].cases),
   automatic |-> Cardinality({n \in Outputs(r) : output[n].case # 0}),
   manual |-> Len(SelectSeq(manual, LAMBDA m : m.run = r))]
GenerateReport(r) ==
  /\ Free /\ Len(report) < MaxReports
  /\ InsertReport(Build(r))
  /\ UNCHANGED <<evalRun, output, manual, exec, waiting, flagged, loop, handler>>

(* The end of the process and its next start, which recovers no run.       *)
Restart ==
  /\ exec' = [e \in Executions |-> Idle]
  /\ waiting' = << >> /\ flagged' = {}
  /\ loop' = "free" /\ handler' = NoCall
  /\ evalRun' = [r \in DOMAIN evalRun |-> [evalRun[r] EXCEPT !.lost = @ \/ At(r) # {}, !.crossed = @ \/ Scoring(r)]]
  /\ UNCHANGED <<output, manual, report>>

HandlerNext == MarkQueued \/ MarkCancelled \/ ReadScores \/ WriteOverall \/ StartJob

CallNext ==
  \/ \E c \in Coroutines, evaluators \in EvaluatorLists, runAsync \in BOOLEAN :
       CreateRun(evaluators, c, runAsync)
  \/ \E r \in DOMAIN evalRun :
       \/ \E c \in Coroutines : StartRun(r, c)
       \/ CancelRun(r) \/ ArchiveRun(r) \/ GenerateReport(r)
       \/ \E score \in ScoreRange : AddManualScore(r, score)
  \/ \E n \in DOMAIN output, status \in {"resolved", "dismissed"} : UpdateFindingStatus(n, status)
  \/ Restart

EvaluationSpec == EvaluationInit /\ [][CallNext \/ HandlerNext \/ ExecutionNext]_evalVars

-----------------------------------------------------------------------------
(* No execution has the run, and its last one had it to itself and ended.  *)
Alone(r) == At(r) = {} /\ ~evalRun[r].crossed /\ ~evalRun[r].lost

(* A completed run that its last execution had for itself has the outputs  *)
(* of every case exactly once, however often it was started, cut off,      *)
(* failed or scored by hand before.                                        *)
OncePerCase ==
  \A r \in DOMAIN evalRun :
    evalRun[r].status = "completed" /\ Alone(r) =>
      \A n \in DOMAIN evalRun[r].cases :
        /\ evalRun[r].cases[n] = "completed"
        /\ Cardinality({o \in DOMAIN output : output[o].run = r /\ output[o].case = n}) = 1

(* Its overall score is the mean of the scores the tables hold.            *)
OverallIsOfScores ==
  \A r \in DOMAIN evalRun :
    evalRun[r].status = "completed" /\ Alone(r) /\ ~Scoring(r) =>
      evalRun[r].overall = Aggregate(r)

(* A run is shown as running only while an execution has it, whoever else  *)
(* cancels, archives or starts it meanwhile, or if the process ended.      *)
RunningIsExecuted ==
  \A r \in DOMAIN evalRun :
    evalRun[r].status = "running" /\ ~evalRun[r].lost => At(r) # {}

(* A completed run is whole: one output and the evaluations of each case,  *)
(* and an overall score that is theirs.                                    *)
CompletedIsWhole == OncePerCase /\ OverallIsOfScores
=============================================================================
