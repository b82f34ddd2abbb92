----------------------------- MODULE MCJobQueue -----------------------------
(* Instances of JobQueue for TLC. *)
EXTENDS JobQueue, TLC

CONSTANTS j1, j2, downloads

OnePool == [j \in Jobs |-> downloads]
TwoThreads == [p \in Pools |-> 2]
=============================================================================
