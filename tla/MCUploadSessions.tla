-------------------------- MODULE MCUploadSessions --------------------------
(* Instances of UploadSessions for TLC.                                     *)
EXTENDS UploadSessions, TLC
CONSTANTS q1, q2
CallSymmetry == Permutations(Requests)
(* Sessions lapse, or something fails, but not both.                        *)
Apart == spent.lapses = 0 \/ (spent.failures = 0 /\ spent.crashes = 0)
=============================================================================
