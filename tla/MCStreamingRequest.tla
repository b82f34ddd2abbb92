-------------------------- MODULE MCStreamingRequest --------------------------
(* Instances of StreamingRequest for TLC. *)
EXTENDS StreamingRequest, TLC

CONSTANTS t1, t2
=============================================================================
