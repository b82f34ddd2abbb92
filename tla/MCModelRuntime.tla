--------------------------- MODULE MCModelRuntime ---------------------------
(* Instances of ModelRuntime for TLC. *)
EXTENDS ModelRuntime, TLC

CONSTANTS r1, r2, r3, r4, m1, m2

\* Three chats, which load the models they need, against an unload of the first.
MixKind == (r1 :> "chat") @@ (r2 :> "chat") @@ (r3 :> "chat") @@ (r4 :> "unload")
MixModel == (r1 :> m1) @@ (r2 :> m1) @@ (r3 :> m2) @@ (r4 :> m1)
=============================================================================
