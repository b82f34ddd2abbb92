--------------------------- MODULE MCGpuScheduler ---------------------------
(* Instances of GpuScheduler for TLC. *)
EXTENDS GpuScheduler, TLC

CONSTANTS t1, t2, t3
=============================================================================
