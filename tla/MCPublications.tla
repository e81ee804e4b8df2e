--------------------------- MODULE MCPublications ---------------------------
(* Instances of Publications for TLC.                                       *)
EXTENDS Publications, TLC
CONSTANTS j1, j2
=============================================================================
