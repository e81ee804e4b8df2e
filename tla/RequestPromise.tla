--------------------------- MODULE RequestPromise ---------------------------
(***************************************************************************)
(* What the people who make and decide requests are promised, without the  *)
(* downloads, imports and sweeps that bring it about.                      *)
(*                                                                         *)
(*  - Nothing is fetched for a request nobody agreed to: it only leaves    *)
(*    "asked" by somebody's decision.                                      *)
(*  - A request that was refused, cancelled or answered stays so.          *)
(*  - It is answered by a book in the library or by somebody's hand.       *)
(***************************************************************************)
CONSTANT Requests

VARIABLES
  phase,      \* what a person sees of each request
  has         \* the requests that have a book

Live == {"asked", "agreed"}

Init ==
  /\ phase = [r \in Requests |-> "none"]
  /\ has = {}

Move(r, from, to) ==
  /\ phase[r] \in from
  /\ phase' = [phase EXCEPT ![r] = to]

Ask(r)    == Move(r, {"none"}, "asked") /\ UNCHANGED has
Agree(r)  == Move(r, {"none", "asked"}, "agreed") /\ UNCHANGED has
Refuse(r) == Move(r, {"asked"}, "refused") /\ UNCHANGED has
Cancel(r) == Move(r, Live, "cancelled") /\ UNCHANGED has
Fulfil(r) == Move(r, Live, "answered") /\ has' = has \cup {r}
Answer(r) == r \in has /\ Move(r, {"agreed"}, "answered") /\ UNCHANGED has

(* A copy that was on its way when the request ended may still arrive.      *)
Arrive(r) ==
  /\ phase[r] \notin {"none", "asked", "refused"}
  /\ has' = has \cup {r}
  /\ UNCHANGED phase

Next == \E r \in Requests :
  \/ Ask(r) \/ Agree(r) \/ Refuse(r) \/ Cancel(r) \/ Fulfil(r) \/ Answer(r) \/ Arrive(r)

Spec == Init /\ [][Next]_<<phase, has>>
=============================================================================
