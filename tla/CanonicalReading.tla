-------------------------- MODULE CanonicalReading --------------------------
(***************************************************************************)
(* What the server keeps of one person's reading of one file: the stored   *)
(* reading events, the head (the event whose position is shown) and the    *)
(* reset generation.  A head row that names no event is the empty set.     *)
(* CanonicalReadingService changes all of it in one transaction that locks *)
(* the head row, so each operation is one operator on the whole record.    *)
(*                                                                         *)
(* A position is left out: only which event it belongs to matters.  The id *)
(* of an event is random; IdOrder stands for how the ids of two devices    *)
(* compare.  era is no field of the code: it is the generation the server  *)
(* was in when the page was turned, kept for the properties.               *)
(***************************************************************************)
EXTENDS Integers

CONSTANTS
  Devices,      \* browsers, each with an identity and a sequence of its own
  IdOrder       \* the order of the ids of events of different devices

ASSUME IdOrderAssumption ==
  /\ IdOrder \in [Devices -> Nat]
  /\ \A c, d \in Devices : IdOrder[c] = IdOrder[d] => c = d

Event == [dev : Devices, seq : Nat, at : Nat, gen : Nat, era : Nat]
State == [generation : Nat, head : SUBSET Event, stored : SUBSET Event]
Receipt == [generation : Nat, reset : BOOLEAN]

NewState == [generation |-> 0, head |-> {}, stored |-> {}]

SameDevice(e, f) == e.dev = f.dev /\ e.gen = f.gen

(* One device counts its events, whatever its clock says; between devices   *)
(* the clocks decide, and the ids when the clocks agree.                    *)
IsNewer(e, f) ==
  \/ e.gen > f.gen
  \/ SameDevice(e, f) /\ e.seq > f.seq
  \/ /\ e.gen = f.gen /\ e.dev # f.dev
     /\ \/ e.at > f.at
        \/ e.at = f.at /\ IdOrder[e.dev] > IdOrder[f.dev]

BugPassedByAny(s, e) == \E f \in s.stored : f.gen = e.gen /\ f.seq >= e.seq
(* A later event of the same device has been stored in this generation.     *)
Passed(s, e) == \E f \in s.stored : SameDevice(f, e) /\ f.seq >= e.seq

BugFresh(s, e) == e \notin s.stored /\ ~Passed(s, e)
(* Events of another generation, repeated ones and passed ones leave the    *)
(* tables as they are.                                                      *)
Fresh(s, e) == e.gen = s.generation /\ e \notin s.stored /\ ~Passed(s, e)

BugRecordLast(s, e) ==
  IF Fresh(s, e) THEN [s EXCEPT !.stored = @ \cup {e}, !.head = {e}] ELSE s
Record(s, e) ==
  IF Fresh(s, e)
  THEN [generation |-> s.generation, stored |-> s.stored \cup {e},
        head |-> IF \A f \in s.head : IsNewer(e, f) THEN {e} ELSE s.head]
  ELSE s

(* A client tells reset_required from the other outcomes, and no more.      *)
Answer(s, e) == [generation |-> s.generation, reset |-> e.gen # s.generation]

Reset(s) == [generation |-> s.generation + 1, stored |-> s.stored, head |-> {}]
=============================================================================
