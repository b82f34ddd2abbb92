--------------------------- MODULE MCFineTuneRuns ---------------------------
(* Instances of FineTuneRuns for TLC. *)
EXTENDS FineTuneRuns, TLC

CONSTANT a
=============================================================================
