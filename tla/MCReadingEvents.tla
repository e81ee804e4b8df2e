-------------------------- MODULE MCReadingEvents --------------------------
(* Instances of ReadingEvents for TLC: a browser with one or two tabs and   *)
(* another with one.                                                        *)
EXTENDS ReadingEvents, TLC
CONSTANTS d1, d2, r1, r2, r3
Ids == [d \in Devices |-> IF d = d1 THEN 2 ELSE 1]
Tabs == [r \in Readers |-> IF r = r3 THEN d2 ELSE d1]
TwoAndOne == [d \in Devices |-> IF d = d1 THEN 2 ELSE 1]
=============================================================================
