------------------------ MODULE MCWritingGeneration -------------------------
(* Instances of WritingGeneration for TLC. *)
EXTENDS WritingGeneration, TLC

CONSTANTS g1, g2, g3, a1

\* One generation with an adapter, the others of the base model.
OneAdapter == g1 :> a1 @@ g2 :> None @@ g3 :> None
=============================================================================
