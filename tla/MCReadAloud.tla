---------------------------- MODULE MCReadAloud ----------------------------
(* Instances of ReadAloud for TLC: one job, or two jobs on two books.       *)
(* The first output of a job asks for a review, a re-synced one does not.   *)
EXTENDS ReadAloud, TLC

CONSTANTS j1, j2

TwoBooks == j1 :> "a" @@ j2 :> "b"

FirstOutputs == {j1, j2} \X {0}
=============================================================================
