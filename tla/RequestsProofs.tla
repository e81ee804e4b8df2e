--------------------------- MODULE RequestsProofs ---------------------------
(***************************************************************************)
(* What holds of Requests for every number of requests, attempts, grabs    *)
(* and people and every value of the bounds.                               *)
(*                                                                         *)
(* Whoever overtakes whom, a decision stands, an available request has its *)
(* book, and the whole implements RequestPromise. Every step is classified *)
(* by what it does to the requests (ReqStep); what the classes need of the *)
(* state is that whoever works on an attempt works on one that was made    *)
(* (TypeInv), that attempts and grabs are only for requests somebody agreed *)
(* to (Undertaken), and that an import which is about to make its request  *)
(* available has been filed (Copied).                                      *)
(*                                                                         *)
(* In orderly behaviours, where no pair of updates is overtaken and nothing *)
(* is stopped, added late, timed out or undone (Orderly, Prompt), a request *)
(* is grabbed once at a time (OneGrab), a new attempt has its request      *)
(* (Claimed), and the automation keeps its budget (Budget).                *)
(***************************************************************************)
EXTENDS Requests, FiniteSetTheorems, TLAPS

Agreed == RequestStatus \ {"pending", "rejected", "cancelled", "available"}
Early == {"absent", "pending", "rejected"}

(* The attempts that were made. *)
Made == {a \in Attempts : att[a].status # "absent"}

AttemptRow ==
  [req : Requests \cup {None}, status : AttemptStatus \cup {"absent"},
   auto : BOOLEAN, dock : BOOLEAN, units : BOOLEAN]

ReqOK == req \in [Requests -> RequestStatus \cup {"absent"}]
AttOK ==
  /\ att \in [Attempts -> AttemptRow]
  /\ \A a \in Attempts : att[a].status # "absent" => att[a].req \in Requests
  /\ \A a \in Attempts : att[a].status = "absent" => att[a].req = None
PointerOK == pointer \in [Requests -> Attempts \cup {None}]
DockOK == dock \in [Attempts -> {"none", "reserved", "placed", "filed"}]
ClientOK == client \in [Attempts -> {"none", "working", "done", "broken"}]
LibraryOK == library \in [Requests -> Nat] /\ byHand \subseteq Requests
TodoOK == todo \subseteq Requests \X {"approval", "retry", "periodic"}

PassRow ==
  [pc : {"idle", "read", "search", "grab", "claim", "resolve", "add", "refuse",
         "rollback", "giveup"},
   r : Requests \cup {None}, why : Trigger, prev : RequestStatus \cup {"absent"},
   spent : Nat, a : Attempts \cup {None}, took : BOOLEAN, halt : BOOLEAN]

(* The status a pass may put back is one that a request is grabbed from. *)
Remembers == {"read", "claim", "resolve", "add", "refuse", "rollback"}
PassOK ==
  /\ pass \in [Passes -> PassRow]
  /\ \A p \in Passes :
       /\ pass[p].pc # "idle" => pass[p].r \in Requests
       /\ pass[p].pc \in {"add", "refuse"} => pass[p].a \in Made
       /\ pass[p].pc \in Remembers => pass[p].prev \in Grabbable

PollRow == [pc : {"idle", "asked", "move"}, was : ActiveAttempt, done : BOOLEAN]
PollOK ==
  /\ poll \in [Attempts -> PollRow]
  /\ \A a \in Attempts : poll[a].pc # "idle" => a \in Made

QueueOK == queue \in Seq(Attempts) /\ \A k \in 1..Len(queue) : queue[k] \in Made

ImportRow == [pc : {"idle", "extract", "claim", "link", "place"}, a : Attempts \cup {None}]
ImportOK ==
  /\ import \in [Importers -> ImportRow]
  /\ \A i \in Importers : import[i].pc # "idle" => import[i].a \in Made

FilingRow == [pc : {"idle", "verify", "file", "settle", "mark"},
              file : Attempts \cup {None}, a : Attempts \cup {None}]
FilingOK ==
  /\ filing \in [Filers -> FilingRow]
  /\ \A f \in Filers : filing[f].pc # "idle" =>
       filing[f].a \in Made /\ filing[f].file \in Attempts

FailingOK == failing \subseteq Made
HoldingOK == holding \subseteq Made \X {"import", "verify"}

PersonRow ==
  [pc : {"idle", "detach", "fail", "reopen", "close", "sweep", "discard", "decline",
         "empty", "undo", "restore"},
   op : {"none", "cancel", "stop", "fulfil", "discard"},
   r : Requests \cup {None}, a : Attempts \cup {None}, file : Attempts \cup {None}]
PersonOK ==
  /\ person \in [Persons -> PersonRow]
  /\ \A p \in Persons :
       /\ person[p].pc # "idle" => person[p].r \in Requests
       /\ person[p].pc \in {"fail", "discard", "decline", "empty", "undo", "restore"} =>
            person[p].a \in Made
       /\ person[p].pc = "detach" /\ person[p].op = "stop" => person[p].a \in Made

StaleOK == stale \subseteq Made
SpentOK == spent \in [stops : Nat, late : Nat, timeouts : Nat, undone : Nat, crashes : Nat]

TypeInv ==
  /\ ReqOK /\ AttOK /\ PointerOK
  /\ DockOK /\ ClientOK /\ LibraryOK
  /\ TodoOK /\ PassOK /\ PollOK
  /\ QueueOK /\ ImportOK /\ FilingOK /\ FailingOK /\ HoldingOK
  /\ PersonOK /\ StaleOK /\ SpentOK

LEMMA TypeInvTypeOK == TypeInv => TypeOK
  <1>1. TypeInv => PassOK /\ PollOK /\ FilingOK /\ ImportOK /\ PersonOK
    BY DEF TypeInv
  <1>2. TypeInv => ReqOK /\ AttOK /\ PointerOK /\ DockOK /\ ClientOK /\ LibraryOK /\ TodoOK
    BY DEF TypeInv
  <1>3. TypeInv => QueueOK /\ FailingOK /\ HoldingOK /\ StaleOK /\ SpentOK
    BY DEF TypeInv
  <1>4. QueueOK => queue \in Seq(Attempts)
    BY DEF QueueOK
  <1>5. FailingOK /\ HoldingOK /\ StaleOK =>
          failing \subseteq Attempts /\ holding \subseteq Attempts \X {"import", "verify"}
          /\ stale \subseteq Attempts
    BY DEF FailingOK, HoldingOK, StaleOK, Made
  <1>6. PollOK => \A a \in Attempts : poll[a].pc # "idle" => att[a].status # "absent"
    BY DEF PollOK, Made
  <1>7. PassOK => \A p \in Passes :
          /\ pass[p].pc # "idle" => pass[p].r \in Requests
          /\ pass[p].pc \in {"add", "refuse"} => pass[p].a \in Attempts
    BY DEF PassOK, Made
  <1> QED
    BY <1>1, <1>2, <1>3, <1>4, <1>5, <1>6, <1>7
    DEF TypeOK, ReqOK, AttOK, PointerOK, DockOK, ClientOK, LibraryOK, TodoOK, PassOK, PollOK,
        ImportOK, FilingOK, PersonOK, SpentOK, AttemptRow, PassRow, PollRow, ImportRow,
        FilingRow, PersonRow

-----------------------------------------------------------------------------
(* What a step may do to the attempts, and to those who work on them. *)

Grows == Made \subseteq Made' /\ \A a \in Made : att'[a].req = att[a].req

(* No attempt is made, and none changes its request. *)
Keeps ==
  \A a \in Attempts :
    /\ att'[a].req = att[a].req
    /\ att'[a].status = "absent" <=> att[a].status = "absent"

LEMMA KeepsGrows == ASSUME Keeps PROVE Grows /\ Made' = Made
  BY DEF Keeps, Grows, Made, Attempts

LEMMA SameKeeps == ASSUME AttOK, UNCHANGED att PROVE AttOK' /\ Keeps
  BY DEF AttOK, Keeps, Attempts

(* A conditional update of an attempt, whatever else the row loses with it. *)
LEMMA TableKeeps ==
  ASSUME AttOK, NEW a \in Attempts, NEW e \in SUBSET AttemptStatus, NEW s \in AttemptStatus,
         NEW table \in [Attempts -> AttemptRow],
         \A b \in Attempts : table[b].req = att[b].req /\ table[b].status = att[b].status,
         att' = [table EXCEPT ![a].status = UpdateIf(@, e, s)]
  PROVE  AttOK' /\ Keeps
  BY DEF AttOK, Keeps, UpdateIf, AttemptRow, AttemptStatus, Unsettled, InFlight,
         ActiveAttempt, Attempts

LEMMA UpdateKeeps ==
  ASSUME AttOK, NEW a \in Attempts, NEW e \in SUBSET AttemptStatus,
         NEW s \in AttemptStatus, MoveAttempt(a, e, s)
  PROVE  AttOK' /\ Keeps
  BY TableKeeps DEF MoveAttempt, AttOK

(* failDownload, whatever the row lost before. *)
LEMMA FailKeeps ==
  ASSUME AttOK, FailingOK, NEW a \in Attempts, NEW table \in [Attempts -> AttemptRow],
         \A b \in Attempts : table[b].req = att[b].req /\ table[b].status = att[b].status,
         FailIn(table, a)
  PROVE  AttOK' /\ Keeps /\ FailingOK'
  <1>1. att' = [table EXCEPT ![a].status = UpdateIf(@, Unsettled, "failed")]
    BY DEF FailIn
  <1>2. AttOK' /\ Keeps
    BY <1>1, TableKeeps DEF AttemptStatus, Unsettled, InFlight, ActiveAttempt
  <1>3. Made' = Made
    BY <1>2, KeepsGrows
  <1>4. table[a].status \in Unsettled => a \in Made
    BY DEF Made, Unsettled, InFlight, ActiveAttempt
  <1> QED
    BY <1>2, <1>3, <1>4 DEF FailIn, FailingOK

LEMMA FailDownloadKeeps ==
  ASSUME AttOK, FailingOK, NEW a \in Attempts, FailDownload(a)
  PROVE  AttOK' /\ Keeps /\ FailingOK'
  BY FailKeeps DEF FailDownload, AttOK

LEMMA HoldKeeps ==
  ASSUME AttOK, HoldingOK, NEW a \in Attempts, NEW units \in BOOLEAN,
         NEW from \in {"import", "verify"}, HoldForReview(a, units, from)
  PROVE  AttOK' /\ Keeps /\ HoldingOK'
  <1>1. CASE att[a].status \in Unsettled
    <2>1. /\ att' = [att EXCEPT ![a].status = "needs_review", ![a].units = units]
          /\ holding' = holding \cup {<<a, from>>}
      BY <1>1 DEF HoldForReview
    <2>2. AttOK' /\ Keeps
      BY <1>1, <2>1 DEF AttOK, Keeps, AttemptRow, AttemptStatus, Unsettled, InFlight,
                        ActiveAttempt, Attempts
    <2>3. Made' = Made /\ a \in Made
      BY <1>1, <2>2, KeepsGrows DEF Made, Unsettled, InFlight, ActiveAttempt
    <2> QED
      BY <2>1, <2>2, <2>3 DEF HoldingOK
  <1>2. CASE att[a].status \notin Unsettled
    <2>1. UNCHANGED <<att, holding>>
      BY <1>2 DEF HoldForReview
    <2> QED
      BY <2>1, SameKeeps, KeepsGrows DEF HoldingOK
  <1> QED
    BY <1>1, <1>2

LEMMA WithoutKeeps ==
  ASSUME AttOK, NEW a \in Attempts
  PROVE  /\ AttemptsWithout(a) \in [Attempts -> AttemptRow]
         /\ \A b \in Attempts : /\ AttemptsWithout(a)[b].req = att[b].req
                                /\ AttemptsWithout(a)[b].status = att[b].status
  BY DEF AttOK, AttemptsWithout, AttemptRow, Attempts

LEMMA UnlinkKeeps ==
  ASSUME AttOK, NEW a \in Attempts, att' = AttemptsWithout(a)
  PROVE  AttOK' /\ Keeps
  BY WithoutKeeps DEF AttOK, Keeps

LEMMA PointersType ==
  ASSUME PointerOK, NEW a \in Attempts
  PROVE  PointersWithout(a) \in [Requests -> Attempts \cup {None}]
  BY DEF PointerOK, PointersWithout, None

(* Whoever works on an attempt is not disturbed by what others do to it. *)
LEMMA Undisturbed ==
  ASSUME TypeInv, Grows
  PROVE  /\ UNCHANGED pass => PassOK'
         /\ UNCHANGED poll => PollOK'
         /\ UNCHANGED queue => QueueOK'
         /\ UNCHANGED import => ImportOK'
         /\ UNCHANGED filing => FilingOK'
         /\ UNCHANGED failing => FailingOK'
         /\ UNCHANGED holding => HoldingOK'
         /\ UNCHANGED person => PersonOK'
         /\ UNCHANGED stale => StaleOK'
  <1>1. Made \subseteq Made'
    BY DEF Grows
  <1>2. UNCHANGED pass => PassOK'
    BY <1>1 DEF TypeInv, PassOK
  <1>3. UNCHANGED poll => PollOK'
    BY <1>1 DEF TypeInv, PollOK
  <1>4. UNCHANGED queue => QueueOK'
    BY <1>1 DEF TypeInv, QueueOK
  <1>5. UNCHANGED import => ImportOK'
    BY <1>1 DEF TypeInv, ImportOK
  <1>6. UNCHANGED filing => FilingOK'
    BY <1>1 DEF TypeInv, FilingOK
  <1>7. UNCHANGED person => PersonOK'
    BY <1>1 DEF TypeInv, PersonOK
  <1>8. /\ UNCHANGED failing => FailingOK'
        /\ UNCHANGED holding => HoldingOK'
        /\ UNCHANGED stale => StaleOK'
    BY <1>1 DEF TypeInv, FailingOK, HoldingOK, StaleOK
  <1> QED
    BY <1>2, <1>3, <1>4, <1>5, <1>6, <1>7, <1>8

-----------------------------------------------------------------------------
(* What a step may do to the requests. *)

Legal(s, t) ==
  \/ s = t
  \/ s = "absent" /\ t \in {"pending", "approved"}
  \/ s = "pending" /\ t # "absent"
  \/ s \in Agreed /\ t \in Agreed \cup {"cancelled", "available"}

ReqQuiet ==
  \/ UNCHANGED req
  \/ \E r \in Requests, t \in RequestStatus \ {"available"} :
       req' = [req EXCEPT ![r] = t] /\ Legal(req[r], t)

Quiet == ReqQuiet /\ UNCHANGED <<library, byHand>>

(* An import makes its request available. *)
Answers ==
  /\ \E f \in Filers :
       /\ filing[f].pc = "settle" /\ req[att[filing[f].a].req] \in FileableFrom
       /\ req' = [req EXCEPT ![att[filing[f].a].req] = "available"]
  /\ UNCHANGED <<library, byHand>>

(* A copy is put in the library. *)
Arrives ==
  /\ \E a \in Made : library' = [library EXCEPT ![att[a].req] = @ + 1]
  /\ UNCHANGED <<req, byHand>>

(* A person fulfils a request by hand. *)
Fulfils ==
  /\ \E r \in Requests :
       /\ req[r] \in Fulfillable
       /\ req' = [req EXCEPT ![r] = "available"]
       /\ byHand' = byHand \cup {r}
  /\ UNCHANGED library

ReqStep == Quiet \/ Answers \/ Arrives \/ Fulfils

(* Whatever is new is for a request that a grab holds or may take. *)
NewWork ==
  /\ \A a \in Made' \ Made : \E p \in Passes : pass[p].pc # "idle" /\ att'[a].req = pass[p].r
  /\ \A p \in Passes : pass'[p].pc # "idle" =>
       \/ pass[p].pc # "idle" /\ pass'[p].r = pass[p].r
       \/ req[pass'[p].r] \in Grabbable

(* An import is about to settle only once its copy is in the library. *)
Copies ==
  \A f \in Filers : filing'[f].pc = "settle" =>
    /\ filing[f].pc # "idle" /\ filing'[f].a = filing[f].a
    /\ filing[f].pc = "settle" \/ library'[att[filing[f].a].req] > 0

Step == TypeInv' /\ Grows /\ ReqStep /\ NewWork /\ Copies

LEMMA MoveQuiet ==
  ASSUME ReqOK, NEW r \in Requests, NEW e, NEW n \in RequestStatus \ {"available"},
         \A s \in e : Legal(s, n), MoveRequest(r, e, n)
  PROVE  ReqQuiet
  <1>1. CASE req[r] \in e
    BY <1>1 DEF ReqQuiet, MoveRequest, UpdateIf
  <1>2. CASE req[r] \notin e
    BY <1>2 DEF ReqQuiet, MoveRequest, UpdateIf, ReqOK
  <1> QED
    BY <1>1, <1>2

LEMMA QuietType == ASSUME ReqOK, ReqQuiet PROVE ReqOK'
  BY DEF ReqOK, ReqQuiet

LEMMA SameNewWork ==
  ASSUME TypeInv, UNCHANGED pass, Made' \subseteq Made
  PROVE  NewWork
  BY DEF NewWork

LEMMA SameCopies == ASSUME UNCHANGED filing PROVE Copies
  BY DEF Copies

(* Steps of those who neither grab nor file. *)
LEMMA WorkStep ==
  ASSUME TypeInv, ReqQuiet, AttOK', Keeps,
         UNCHANGED pointer \/ PointerOK', UNCHANGED dock \/ DockOK',
         UNCHANGED client \/ ClientOK', UNCHANGED todo \/ TodoOK',
         UNCHANGED poll \/ PollOK', UNCHANGED queue \/ QueueOK',
         UNCHANGED import \/ ImportOK', UNCHANGED failing \/ FailingOK',
         UNCHANGED holding \/ HoldingOK', UNCHANGED person \/ PersonOK',
         UNCHANGED stale \/ StaleOK', UNCHANGED spent \/ SpentOK',
         UNCHANGED <<library, byHand, pass, filing>>
  PROVE  Step
  <1>1. Grows /\ Made' = Made
    BY KeepsGrows
  <1>2. PointerOK' /\ DockOK' /\ ClientOK' /\ TodoOK' /\ SpentOK' /\ LibraryOK'
    BY DEF TypeInv, PointerOK, DockOK, ClientOK, TodoOK, SpentOK, LibraryOK
  <1>3. PassOK' /\ PollOK' /\ QueueOK' /\ ImportOK' /\ FilingOK' /\ FailingOK' /\ HoldingOK'
        /\ PersonOK' /\ StaleOK'
    BY <1>1, Undisturbed
  <1>4. ReqOK'
    BY QuietType DEF TypeInv
  <1>5. TypeInv'
    BY <1>2, <1>3, <1>4 DEF TypeInv
  <1>6. ReqStep
    BY DEF ReqStep, Quiet
  <1> QED
    BY <1>1, <1>5, <1>6, SameNewWork, SameCopies DEF Step

(* Steps of a pass. *)
LEMMA PassUpdates ==
  ASSUME TypeInv, ReqQuiet, AttOK', Grows, NewWork, PassOK',
         UNCHANGED client \/ ClientOK', UNCHANGED todo \/ TodoOK',
         UNCHANGED spent \/ SpentOK', UNCHANGED passFrame
  PROVE  Step
  <1>0. UNCHANGED <<pointer, dock, library, byHand, queue, import, filing, failing, holding,
                    poll, person, stale>>
    BY DEF passFrame, work
  <1>1. PointerOK' /\ DockOK' /\ LibraryOK' /\ ClientOK' /\ TodoOK' /\ SpentOK'
    BY <1>0 DEF TypeInv, PointerOK, DockOK, ClientOK, TodoOK, SpentOK, LibraryOK
  <1>2. PollOK' /\ QueueOK' /\ ImportOK' /\ FilingOK' /\ FailingOK' /\ HoldingOK'
        /\ PersonOK' /\ StaleOK'
    BY <1>0, Undisturbed
  <1>3. ReqOK'
    BY QuietType DEF TypeInv
  <1>4. TypeInv'
    BY <1>1, <1>2, <1>3 DEF TypeInv
  <1>5. ReqStep /\ Copies
    BY <1>0, SameCopies DEF ReqStep, Quiet
  <1> QED
    BY <1>4, <1>5 DEF Step

(* Steps of verification and filing. *)
LEMMA FilingUpdates ==
  ASSUME TypeInv, ReqStep, ReqOK', AttOK', Keeps, FilingOK', Copies,
         UNCHANGED pointer \/ PointerOK', UNCHANGED dock \/ DockOK',
         UNCHANGED library \/ LibraryOK', UNCHANGED failing \/ FailingOK',
         UNCHANGED holding \/ HoldingOK', UNCHANGED filingFrame
  PROVE  Step
  <1>0. UNCHANGED <<client, byHand, queue, import, todo, pass, poll, person, stale, spent>>
    BY DEF filingFrame
  <1>1. Grows /\ Made' = Made
    BY KeepsGrows
  <1>2. PointerOK' /\ DockOK' /\ LibraryOK' /\ ClientOK' /\ TodoOK' /\ SpentOK'
    BY <1>0 DEF TypeInv, PointerOK, DockOK, ClientOK, TodoOK, SpentOK, LibraryOK
  <1>3. PassOK' /\ PollOK' /\ QueueOK' /\ ImportOK' /\ FailingOK' /\ HoldingOK'
        /\ PersonOK' /\ StaleOK'
    BY <1>0, <1>1, Undisturbed
  <1>4. TypeInv'
    BY <1>2, <1>3 DEF TypeInv
  <1> QED
    BY <1>0, <1>1, <1>4, SameNewWork DEF Step

-----------------------------------------------------------------------------
(* Requests are made and decided. *)

LEMMA SubmitStep == ASSUME TypeInv, NEW r \in Requests, Submit(r) PROVE Step
  <1>1. AttOK' /\ Keeps
    BY SameKeeps DEF TypeInv, Submit
  <1>2. ReqQuiet
    BY DEF Submit, ReqQuiet, Legal, RequestStatus, ActiveRequest
  <1>3. TodoOK'
    BY DEF Submit, TypeInv, TodoOK
  <1> QED
    BY <1>1, <1>2, <1>3, WorkStep DEF Submit, outside, work

LEMMA DecideStep ==
  ASSUME TypeInv, NEW r \in Requests, Approve(r) \/ Reject(r)
  PROVE  Step
  <1>1. AttOK' /\ Keeps
    BY SameKeeps DEF TypeInv, Approve, Reject
  <1>2. ReqQuiet
    <2>1. CASE Approve(r)
      BY <2>1, MoveQuiet DEF TypeInv, Approve, Legal, RequestStatus, ActiveRequest
    <2>2. CASE Reject(r)
      BY <2>2, MoveQuiet DEF TypeInv, Reject, Legal, RequestStatus, ActiveRequest
    <2> QED
      BY <2>1, <2>2
  <1>3. TodoOK'
    BY DEF Approve, Reject, TypeInv, TodoOK
  <1> QED
    BY <1>1, <1>2, <1>3, WorkStep DEF Approve, Reject, outside, work

LEMMA SweepStep ==
  ASSUME TypeInv, NEW r \in Requests,
         ListForResearch(r) \/ ReleaseStranded(r) \/ AbandonSelfServe(r)
  PROVE  Step
  <1>1. AttOK' /\ Keeps
    BY SameKeeps DEF TypeInv, ListForResearch, ReleaseStranded, AbandonSelfServe, rows
  <1>2. ReqQuiet
    <2>1. CASE ListForResearch(r)
      BY <2>1 DEF ListForResearch, rows, ReqQuiet
    <2>2. CASE ReleaseStranded(r)
      BY <2>2, MoveQuiet DEF TypeInv, ReleaseStranded, Legal, RequestStatus, ActiveRequest, Agreed
    <2>3. CASE AbandonSelfServe(r)
      BY <2>3, MoveQuiet
      DEF TypeInv, AbandonSelfServe, Abandonable, Legal, RequestStatus, ActiveRequest, Agreed
    <2> QED
      BY <2>1, <2>2, <2>3
  <1>3. TodoOK' /\ SpentOK'
    BY DEF ListForResearch, ReleaseStranded, AbandonSelfServe, TypeInv, TodoOK, SpentOK
  <1> QED
    BY <1>1, <1>2, <1>3, WorkStep
    DEF ListForResearch, ReleaseStranded, AbandonSelfServe, rows, outside, work

-----------------------------------------------------------------------------
(* Automation and grabs. *)

LEMMA AutomatedNat == ASSUME NEW r PROVE Automated(r) \in Nat
  <1> DEFINE S == {a \in Attempts : att[a].req = r /\ att[a].auto}
  <1>1. IsFiniteSet(Attempts)
    BY BoundsAssumption, FS_Interval DEF Attempts, BoundsAssumption
  <1>2. S \subseteq Attempts
    OBVIOUS
  <1>3. IsFiniteSet(S)
    BY <1>1, <1>2, FS_Subset
  <1> QED
    BY <1>3, FS_CardinalityType DEF Automated

(* A pass that was busy, or one that takes a request. *)
LEMMA BecomeOK ==
  ASSUME TypeInv, Grows, Made' \subseteq Made, NEW p \in Passes, NEW record \in PassRow,
         record.pc # "idle" => /\ record.r \in Requests
                               /\ \/ pass[p].pc # "idle" /\ record.r = pass[p].r
                                  \/ req[record.r] \in Grabbable,
         record.pc \in {"add", "refuse"} => record.a \in Made,
         record.pc \in Remembers => record.prev \in Grabbable,
         Become(p, record)
  PROVE  PassOK' /\ NewWork
  <1>1. /\ pass \in [Passes -> PassRow]
        /\ \A q \in Passes : /\ pass[q].pc # "idle" => pass[q].r \in Requests
                             /\ pass[q].pc \in {"add", "refuse"} => pass[q].a \in Made
                             /\ pass[q].pc \in Remembers => pass[q].prev \in Grabbable
    BY DEF TypeInv, PassOK
  <1>2. pass' = [pass EXCEPT ![p] = record]
    BY DEF Become
  <1>3. Made \subseteq Made'
    BY DEF Grows
  <1>4. PassOK'
    BY <1>1, <1>2, <1>3 DEF PassOK
  <1>5. NewWork
    BY <1>1, <1>2 DEF NewWork
  <1> QED
    BY <1>4, <1>5

LEMMA GotoOK ==
  ASSUME TypeInv, Grows, Made' \subseteq Made, NEW p \in Passes, pass[p].pc # "idle",
         NEW pc \in {"search", "grab", "resolve", "refuse", "rollback", "giveup"},
         pc = "refuse" => pass[p].a \in Made,
         pc \in Remembers => pass[p].prev \in Grabbable,
         Goto(p, pc)
  PROVE  PassOK' /\ NewWork
  <1> DEFINE record == [pass[p] EXCEPT !.pc = pc]
  <1>1. pass[p] \in PassRow /\ pass[p].r \in Requests /\ pass \in [Passes -> PassRow]
    BY DEF TypeInv, PassOK
  <1>2. record \in PassRow /\ record.pc = pc /\ record.r = pass[p].r /\ record.a = pass[p].a
        /\ record.prev = pass[p].prev
    BY <1>1 DEF PassRow
  <1>3. Become(p, record)
    BY <1>1 DEF Goto, Become
  <1> HIDE DEF record
  <1> QED
    BY <1>1, <1>2, <1>3, BecomeOK

LEMMA LeaveOK ==
  ASSUME TypeInv, Grows, Made' \subseteq Made, NEW p \in Passes, Leave(p)
  PROVE  PassOK' /\ NewWork
  <1>1. IdlePass \in PassRow /\ IdlePass.pc = "idle"
    BY DEF IdlePass, PassRow, Trigger
  <1> QED
    BY <1>1, BecomeOK DEF Leave, Remembers

LEMMA NotStartedOK ==
  ASSUME TypeInv, Grows, Made' \subseteq Made, NEW p \in Passes, pass[p].pc # "idle",
         NEW another, NotStarted(p, another)
  PROVE  PassOK' /\ NewWork
  <1>1. Leave(p) \/ Goto(p, "grab") \/ Goto(p, "giveup")
    BY DEF NotStarted
  <1> QED
    BY <1>1, LeaveOK, GotoOK DEF Remembers

LEMMA SameOK ==
  ASSUME TypeInv, UNCHANGED <<att, pass>>
  PROVE  PassOK' /\ NewWork
  <1>1. AttOK' /\ Keeps
    BY SameKeeps DEF TypeInv
  <1> QED
    BY <1>1, KeepsGrows, Undisturbed, SameNewWork

LEMMA StartPassOK ==
  ASSUME TypeInv, UNCHANGED att, NEW p \in Passes, NEW r \in Requests,
         NEW why \in Trigger, req[r] \in Grabbable, StartPass(p, r, why)
  PROVE  PassOK' /\ NewWork
  <1> DEFINE record == [IdlePass EXCEPT !.pc = "read", !.r = r, !.why = why, !.prev = req[r],
                                        !.spent = Automated(r)]
  <1>1. record \in PassRow /\ record.pc = "read" /\ record.r = r /\ record.prev = req[r]
    BY AutomatedNat DEF IdlePass, PassRow, TypeInv, ReqOK
  <1>2. Become(p, record)
    BY DEF StartPass
  <1>3. Grows /\ Made' = Made
    BY SameKeeps, KeepsGrows DEF TypeInv
  <1> HIDE DEF record
  <1> QED
    BY <1>1, <1>2, <1>3, BecomeOK

LEMMA RunTodoStep == ASSUME TypeInv, NEW p \in Passes, RunTodo(p) PROVE Step
  <1>1. AttOK' /\ Keeps /\ Grows /\ ReqQuiet
    BY SameKeeps, KeepsGrows DEF TypeInv, RunTodo, ReqQuiet
  <1>2. PICK t \in todo :
          /\ todo' = todo \ {t}
          /\ IF req[t[1]] \in Grabbable THEN StartPass(p, t[1], t[2]) ELSE UNCHANGED pass
    BY DEF RunTodo
  <1>3. t[1] \in Requests /\ t[2] \in Trigger /\ TodoOK'
    BY <1>2 DEF TypeInv, TodoOK, Trigger
  <1>4. PassOK' /\ NewWork
    BY <1>2, <1>3, StartPassOK, SameOK DEF RunTodo
  <1> QED
    BY <1>1, <1>3, <1>4, PassUpdates DEF RunTodo

LEMMA GrabByHandStep == ASSUME TypeInv, NEW p \in Passes, GrabByHand(p) PROVE Step
  <1>1. AttOK' /\ Grows /\ Made' = Made /\ ReqQuiet
    BY SameKeeps, KeepsGrows DEF TypeInv, GrabByHand, ReqQuiet
  <1>2. PICK r \in Requests :
          req[r] \in Grabbable /\ Become(p, [IdlePass EXCEPT !.pc = "grab", !.r = r])
    BY DEF GrabByHand
  <1> DEFINE record == [IdlePass EXCEPT !.pc = "grab", !.r = r]
  <1>3. record \in PassRow /\ record.pc = "grab" /\ record.r = r
    BY DEF IdlePass, PassRow, Trigger
  <1>4. Become(p, record)
    BY <1>2
  <1> HIDE DEF record
  <1>5. PassOK' /\ NewWork
    BY <1>1, <1>2, <1>3, <1>4, BecomeOK DEF Remembers
  <1> QED
    BY <1>1, <1>5, PassUpdates DEF GrabByHand

LEMMA ClaimSearchStep == ASSUME TypeInv, NEW p \in Passes, ClaimSearch(p) PROVE Step
  <1>1. AttOK' /\ Grows /\ Made' = Made
    BY SameKeeps, KeepsGrows DEF TypeInv, ClaimSearch
  <1>2. pass[p].pc = "read" /\ pass[p].r \in Requests /\ pass[p].prev \in Grabbable
    BY DEF ClaimSearch, TypeInv, PassOK, Remembers
  <1>3. ReqQuiet
    <2> DEFINE new == IF Spent(p) THEN "approved" ELSE "searching"
    <2>1. new \in RequestStatus \ {"available"} /\ \A s \in {pass[p].prev} : Legal(s, new)
      BY <1>2 DEF Legal, Grabbable, RequestStatus, ActiveRequest, Agreed
    <2>2. UNCHANGED req \/ MoveRequest(pass[p].r, {pass[p].prev}, new)
      BY DEF ClaimSearch
    <2> HIDE DEF new
    <2> QED
      BY <1>2, <2>1, <2>2, MoveQuiet DEF TypeInv, ReqQuiet
  <1>4. Leave(p) \/ Goto(p, "search")
    BY DEF ClaimSearch
  <1>5. PassOK' /\ NewWork
    BY <1>1, <1>2, <1>4, LeaveOK, GotoOK DEF Remembers
  <1> QED
    BY <1>1, <1>3, <1>5, PassUpdates DEF ClaimSearch

LEMMA SearchEndsStep == ASSUME TypeInv, NEW p \in Passes, SearchEnds(p) PROVE Step
  <1>1. AttOK' /\ Grows /\ Made' = Made
    BY SameKeeps, KeepsGrows DEF TypeInv, SearchEnds
  <1>2. pass[p].pc = "search" /\ pass[p].r \in Requests
    BY DEF SearchEnds, TypeInv, PassOK
  <1>3. ReqQuiet
    <2> DEFINE new == IF pass[p].why = "retry" THEN "failed" ELSE "approved"
    <2>1. new \in RequestStatus \ {"available"} /\ \A s \in {"searching"} : Legal(s, new)
      BY DEF Legal, RequestStatus, ActiveRequest, Agreed
    <2>2. UNCHANGED req \/ MoveRequest(pass[p].r, {"searching"}, new)
      BY DEF SearchEnds
    <2> HIDE DEF new
    <2> QED
      BY <1>2, <2>1, <2>2, MoveQuiet DEF TypeInv, ReqQuiet
  <1>4. Leave(p) \/ Goto(p, "grab")
    BY DEF SearchEnds
  <1>5. PassOK' /\ NewWork
    BY <1>1, <1>2, <1>4, LeaveOK, GotoOK DEF Remembers
  <1> QED
    BY <1>1, <1>3, <1>5, PassUpdates DEF SearchEnds

LEMMA ReadForGrabStep == ASSUME TypeInv, NEW p \in Passes, ReadForGrab(p) PROVE Step
  <1>1. AttOK' /\ Grows /\ Made' = Made /\ ReqQuiet
    BY SameKeeps, KeepsGrows DEF TypeInv, ReadForGrab, ReqQuiet
  <1>2. pass[p].pc = "grab" /\ pass[p].r \in Requests /\ pass[p] \in PassRow
    BY DEF ReadForGrab, TypeInv, PassOK
  <1>3. PassOK' /\ NewWork
    <2>1. CASE req[pass[p].r] \in Grabbable
      <3> DEFINE record == [pass[p] EXCEPT !.pc = "claim", !.prev = req[pass[p].r],
                                           !.spent = @ + 1]
      <3>1. req[pass[p].r] \in RequestStatus \cup {"absent"}
        BY <1>2 DEF TypeInv, ReqOK
      <3>2. record \in PassRow
        <4>1. pass[p].spent + 1 \in Nat
          BY <1>2 DEF PassRow
        <4> QED
          BY <1>2, <3>1, <4>1 DEF PassRow
      <3>3. record.pc = "claim" /\ record.r = pass[p].r /\ record.prev = req[pass[p].r]
        BY <1>2 DEF PassRow
      <3>4. Become(p, record)
        BY <2>1 DEF ReadForGrab
      <3> HIDE DEF record
      <3> QED
        BY <1>1, <1>2, <2>1, <3>2, <3>4, <3>3, BecomeOK
    <2>2. CASE req[pass[p].r] \notin Grabbable
      BY <1>1, <1>2, <2>2, NotStartedOK DEF ReadForGrab
    <2> QED
      BY <2>1, <2>2
  <1> QED
    BY <1>1, <1>3, PassUpdates DEF ReadForGrab

LEMMA ClaimForGrabStep == ASSUME TypeInv, NEW p \in Passes, ClaimForGrab(p) PROVE Step
  <1>1. AttOK' /\ Grows /\ Made' = Made
    BY SameKeeps, KeepsGrows DEF TypeInv, ClaimForGrab
  <1>2. pass[p].pc = "claim" /\ pass[p].r \in Requests /\ pass[p].prev \in Grabbable
    BY DEF ClaimForGrab, TypeInv, PassOK, Remembers
  <1>3. UNCHANGED req \/ MoveRequest(pass[p].r, Grabbable, "grabbed")
    BY DEF ClaimForGrab
  <1>4. ReqQuiet
    BY <1>2, <1>3, MoveQuiet
    DEF TypeInv, ReqQuiet, Legal, Grabbable, RequestStatus, ActiveRequest, Agreed
  <1>5. NotStarted(p, FALSE) \/ Goto(p, "resolve")
    BY DEF ClaimForGrab
  <1>6. PassOK' /\ NewWork
    BY <1>1, <1>2, <1>5, NotStartedOK, GotoOK
  <1> QED
    BY <1>1, <1>4, <1>6, PassUpdates DEF ClaimForGrab

LEMMA NewAttemptOK ==
  ASSUME TypeInv, NEW p \in Passes, NEW a \in Attempts, NEW status \in {"queued", "failed"},
         pass[p].r \in Requests, NewAttempt(p, a, status)
  PROVE  AttOK' /\ Grows /\ Made' = Made \cup {a} /\ a \notin Made /\ att'[a].req = pass[p].r
  <1> DEFINE row == [NoAttempt EXCEPT !.req = pass[p].r, !.status = status,
                                      !.auto = pass[p].why # "hand"]
  <1>1. row \in AttemptRow /\ row.status = status /\ row.req = pass[p].r
    BY DEF AttemptRow, NoAttempt, AttemptStatus, Unsettled, InFlight, ActiveAttempt
  <1>2. att' = [att EXCEPT ![a] = row] /\ att[a].status = "absent"
    BY DEF NewAttempt, NextFree
  <1>3. AttOK
    BY DEF TypeInv
  <1> HIDE DEF row
  <1> QED
    BY <1>1, <1>2, <1>3 DEF AttOK, Grows, Made, Attempts

LEMMA ResolveStep == ASSUME TypeInv, NEW p \in Passes, Resolve(p) PROVE Step
  <1>1. pass[p].pc = "resolve" /\ pass[p].r \in Requests /\ pass[p] \in PassRow
        /\ pass[p].prev \in Grabbable /\ pass \in [Passes -> PassRow]
    BY DEF Resolve, TypeInv, PassOK, Remembers
  <1>2. ReqQuiet
    BY DEF Resolve, ReqQuiet
  <1>3. SUFFICES AttOK' /\ Grows /\ NewWork /\ PassOK'
    BY <1>2, PassUpdates DEF Resolve
  <1>4. ASSUME NEW a \in Attempts, NewAttempt(p, a, "queued"),
               Become(p, [pass[p] EXCEPT !.pc = "add", !.a = a])
        PROVE  AttOK' /\ Grows /\ NewWork /\ PassOK'
    <2>1. AttOK' /\ Grows /\ Made' = Made \cup {a} /\ att'[a].req = pass[p].r
      BY <1>1, <1>4, NewAttemptOK
    <2>2. pass' = [pass EXCEPT ![p] = [pass[p] EXCEPT !.pc = "add", !.a = a]]
      BY <1>4 DEF Become
    <2>3. NewWork
      BY <1>1, <2>1, <2>2 DEF NewWork, PassRow
    <2>4. PassOK'
      BY <1>1, <2>1, <2>2 DEF TypeInv, PassOK, PassRow, Remembers
    <2> QED
      BY <2>1, <2>3, <2>4
  <1>5. ASSUME NEW a \in Attempts, NewAttempt(p, a, "failed"),
               Become(p, [pass[p] EXCEPT !.pc = "rollback", !.halt = FALSE])
        PROVE  AttOK' /\ Grows /\ NewWork /\ PassOK'
    <2>1. AttOK' /\ Grows /\ Made' = Made \cup {a} /\ att'[a].req = pass[p].r
      BY <1>1, <1>5, NewAttemptOK
    <2>2. pass' = [pass EXCEPT ![p] = [pass[p] EXCEPT !.pc = "rollback", !.halt = FALSE]]
      BY <1>5 DEF Become
    <2>3. NewWork
      BY <1>1, <2>1, <2>2 DEF NewWork, PassRow
    <2>4. PassOK'
      BY <1>1, <2>1, <2>2 DEF TypeInv, PassOK, PassRow, Remembers
    <2> QED
      BY <2>1, <2>3, <2>4
  <1>6. ASSUME Become(p, [pass[p] EXCEPT !.pc = "rollback", !.halt = TRUE]), UNCHANGED att
        PROVE  AttOK' /\ Grows /\ NewWork /\ PassOK'
    <2>1. AttOK' /\ Grows /\ Made' = Made
      BY <1>6, SameKeeps, KeepsGrows DEF TypeInv
    <2>2. pass' = [pass EXCEPT ![p] = [pass[p] EXCEPT !.pc = "rollback", !.halt = TRUE]]
      BY <1>6 DEF Become
    <2>3. NewWork
      BY <1>1, <2>1, <2>2 DEF NewWork, PassRow
    <2>4. PassOK'
      BY <1>1, <2>1, <2>2 DEF TypeInv, PassOK, PassRow, Remembers
    <2> QED
      BY <2>1, <2>3, <2>4
  <1> QED
    BY <1>4, <1>5, <1>6 DEF Resolve

LEMMA ClientTakesStep == ASSUME TypeInv, NEW p \in Passes, ClientTakes(p) PROVE Step
  <1>1. AttOK' /\ Grows /\ Made' = Made /\ ReqQuiet
    BY SameKeeps, KeepsGrows DEF TypeInv, ClientTakes, ReqQuiet
  <1>2. pass[p].pc = "add" /\ pass[p].r \in Requests /\ pass[p].a \in Attempts
        /\ pass' = [pass EXCEPT ![p].took = TRUE]
        /\ client' = [client EXCEPT ![pass[p].a] = "working"]
    BY DEF ClientTakes, TypeInv, PassOK, Made
  <1>3. PassOK' /\ NewWork
    BY <1>1, <1>2 DEF TypeInv, PassOK, PassRow, NewWork, Grows
  <1>4. ClientOK'
    BY <1>2 DEF TypeInv, ClientOK
  <1> QED
    BY <1>1, <1>3, <1>4, PassUpdates DEF ClientTakes

LEMMA AddAnsweredStep == ASSUME TypeInv, NEW p \in Passes, AddAnswered(p) PROVE Step
  <1>1. AttOK' /\ Grows /\ Made' = Made
    BY SameKeeps, KeepsGrows DEF TypeInv, AddAnswered
  <1>2. pass[p].r \in Requests
    BY DEF AddAnswered, TypeInv, PassOK
  <1>3. ReqQuiet
    BY <1>2, MoveQuiet DEF TypeInv, AddAnswered, Legal, RequestStatus, ActiveRequest, Agreed
  <1>4. PassOK' /\ NewWork
    BY <1>1, LeaveOK DEF AddAnswered
  <1> QED
    BY <1>1, <1>3, <1>4, PassUpdates DEF AddAnswered

LEMMA AddFailsStep == ASSUME TypeInv, NEW p \in Passes, AddFails(p) PROVE Step
  <1>1. AttOK' /\ Grows /\ Made' = Made /\ ReqQuiet
    BY SameKeeps, KeepsGrows DEF TypeInv, AddFails, ReqQuiet
  <1>2. PICK halt \in BOOLEAN :
          pass' = [pass EXCEPT ![p].pc = "refuse", ![p].halt = halt, ![p].took = FALSE]
    BY DEF AddFails
  <1>3. pass[p].pc = "add"
    BY DEF AddFails
  <1> DEFINE record == [pass[p] EXCEPT !.pc = "refuse", !.halt = halt, !.took = FALSE]
  <1>4. pass \in [Passes -> PassRow] /\ pass[p] \in PassRow /\ pass[p].r \in Requests
        /\ pass[p].a \in Made /\ pass[p].prev \in Grabbable
    BY <1>3 DEF TypeInv, PassOK, Remembers
  <1>5. record \in PassRow /\ record.pc = "refuse" /\ record.r = pass[p].r
        /\ record.a = pass[p].a /\ record.prev = pass[p].prev
    BY <1>4 DEF PassRow
  <1>6. Become(p, record)
    BY <1>2, <1>4 DEF Become
  <1> HIDE DEF record
  <1>7. PassOK' /\ NewWork
    BY <1>1, <1>3, <1>4, <1>5, <1>6, BecomeOK
  <1>8. SpentOK'
    BY DEF AddFails, TypeInv, SpentOK
  <1> QED
    BY <1>1, <1>7, <1>8, PassUpdates DEF AddFails

LEMMA RefuseStep == ASSUME TypeInv, NEW p \in Passes, Refuse(p) PROVE Step
  <1>1. pass[p].pc = "refuse" /\ pass[p].a \in Made /\ pass[p].prev \in Grabbable
    BY DEF Refuse, TypeInv, PassOK, Remembers
  <1>2. AttOK' /\ Keeps
    BY <1>1 DEF Refuse, TypeInv, AttOK, Keeps, Made, AttemptRow, AttemptStatus, Unsettled,
                InFlight, ActiveAttempt, Attempts
  <1>3. Grows /\ Made' = Made /\ ReqQuiet
    BY <1>2, KeepsGrows DEF Refuse, ReqQuiet
  <1>4. PassOK' /\ NewWork
    BY <1>1, <1>3, GotoOK DEF Refuse
  <1> QED
    BY <1>2, <1>3, <1>4, PassUpdates DEF Refuse

LEMMA RollbackStep == ASSUME TypeInv, NEW p \in Passes, Rollback(p) PROVE Step
  <1>1. AttOK' /\ Grows /\ Made' = Made
    BY SameKeeps, KeepsGrows DEF TypeInv, Rollback
  <1>2. pass[p].pc = "rollback" /\ pass[p].r \in Requests /\ pass[p].prev \in Grabbable
    BY DEF Rollback, TypeInv, PassOK, Remembers
  <1>3. pass[p].prev \in RequestStatus \ {"available"}
        /\ \A s \in {"grabbed"} : Legal(s, pass[p].prev)
    BY <1>2 DEF Legal, Grabbable, RequestStatus, ActiveRequest, Agreed
  <1>4. ReqQuiet
    BY <1>2, <1>3, MoveQuiet DEF TypeInv, Rollback
  <1>5. PassOK' /\ NewWork
    BY <1>1, <1>2, NotStartedOK DEF Rollback
  <1> QED
    BY <1>1, <1>4, <1>5, PassUpdates DEF Rollback

LEMMA GiveUpStep == ASSUME TypeInv, NEW p \in Passes, GiveUp(p) PROVE Step
  <1>1. AttOK' /\ Grows /\ Made' = Made
    BY SameKeeps, KeepsGrows DEF TypeInv, GiveUp
  <1>2. pass[p].r \in Requests
    BY DEF GiveUp, TypeInv, PassOK
  <1>3. ReqQuiet
    BY <1>2, MoveQuiet DEF TypeInv, GiveUp, Legal, RequestStatus, ActiveRequest, Agreed
  <1>4. PassOK' /\ NewWork
    BY <1>1, LeaveOK DEF GiveUp
  <1> QED
    BY <1>1, <1>3, <1>4, PassUpdates DEF GiveUp

LEMMA PassStepStep ==
  ASSUME TypeInv, NEW p \in Passes, PassStep(p) \/ GrabByHand(p)
  PROVE  Step
  BY RunTodoStep, GrabByHandStep, ClaimSearchStep, SearchEndsStep, ReadForGrabStep,
     ClaimForGrabStep, ResolveStep, ClientTakesStep, AddAnsweredStep, AddFailsStep, RefuseStep,
     RollbackStep, GiveUpStep
  DEF PassStep

-----------------------------------------------------------------------------
(* The monitor. *)

LEMMA EnqueuedOK ==
  ASSUME TypeInv, Grows, NEW a \in Made, queue' = Enqueued(a)
  PROVE  QueueOK'
  <1>1. queue \in Seq(Attempts) /\ (\A k \in 1..Len(queue) : queue[k] \in Made)
        /\ a \in Attempts /\ Made \subseteq Made'
    BY DEF TypeInv, QueueOK, Made, Grows
  <1>2. queue' = queue \/ queue' = Append(queue, a)
    BY DEF Enqueued
  <1>3. CASE queue' = queue
    BY <1>1, <1>3 DEF QueueOK
  <1>4. CASE queue' = Append(queue, a)
    <2>1. queue' \in Seq(Attempts) /\ Len(queue') = Len(queue) + 1
      BY <1>1, <1>4
    <2>2. \A k \in 1..Len(queue') : queue'[k] = IF k = Len(queue) + 1 THEN a ELSE queue[k]
      BY <1>1, <1>4
    <2> QED
      BY <1>1, <2>1, <2>2 DEF QueueOK
  <1> QED
    BY <1>2, <1>3, <1>4

LEMMA UnpolledOK ==
  ASSUME TypeInv, Grows, NEW a \in Attempts, Unpolled(a)
  PROVE  PollOK'
  BY DEF TypeInv, PollOK, Grows, Unpolled, IdlePoll, PollRow, ActiveAttempt

LEMMA PollAsksStep ==
  ASSUME TypeInv, NEW a \in Attempts, PollAsks(a) \/ PollUnanswered(a)
  PROVE  Step
  <1>1. AttOK' /\ Keeps /\ Grows /\ Made' = Made /\ ReqQuiet
    BY SameKeeps, KeepsGrows DEF TypeInv, PollAsks, PollUnanswered, rows, ReqQuiet
  <1>2. PollOK'
    <2>1. CASE PollAsks(a)
      <3>1. poll' = [poll EXCEPT ![a] = [pc |-> "asked", was |-> att[a].status, done |-> FALSE]]
            /\ att[a].status \in ActiveAttempt
        BY <2>1 DEF PollAsks
      <3>2. a \in Made
        BY <3>1 DEF Made, ActiveAttempt
      <3> QED
        BY <1>1, <3>1, <3>2 DEF TypeInv, PollOK, PollRow
    <2>2. CASE PollUnanswered(a)
      BY <1>1, <2>2, UnpolledOK DEF PollUnanswered
    <2> QED
      BY <2>1, <2>2
  <1> QED
    BY <1>1, <1>2, WorkStep DEF PollAsks, PollUnanswered, rows, outside, work

LEMMA PollFailsStep == ASSUME TypeInv, NEW a \in Attempts, PollFails(a) PROVE Step
  <1>1. AttOK' /\ Keeps /\ FailingOK'
    BY FailDownloadKeeps DEF TypeInv, PollFails
  <1>2. PollOK'
    BY <1>1, KeepsGrows, UnpolledOK DEF PollFails
  <1>3. ReqQuiet
    BY DEF PollFails, ReqQuiet
  <1> QED
    BY <1>1, <1>2, <1>3, WorkStep DEF PollFails, outside

LEMMA PollReportsStep == ASSUME TypeInv, NEW a \in Attempts, PollReports(a) PROVE Step
  <1>1. PICK status \in {"queued", "downloading", "completed"} :
          LET done == status = "completed"
              moves == poll[a].was = "queued" /\ status # "queued" IN
          /\ MoveAttempt(a, Reported(a), status)
          /\ IF att[a].status \in Reported(a) /\ moves
               THEN /\ poll' = [poll EXCEPT ![a].pc = "move", ![a].done = done]
                    /\ UNCHANGED queue
               ELSE /\ Unpolled(a)
                    /\ queue' = IF att[a].status \in Reported(a) /\ done
                                  THEN Enqueued(a) ELSE queue
    BY DEF PollReports, ActiveAttempt
  <1>2. a \in Made
    BY DEF PollReports, TypeInv, PollOK
  <1>3. AttOK' /\ Keeps
    BY <1>1, UpdateKeeps
    DEF TypeInv, Reported, AttemptStatus, Unsettled, InFlight, ActiveAttempt
  <1>4. Grows
    BY <1>3, KeepsGrows
  <1>5. PollOK'
    <2>1. CASE Unpolled(a)
      BY <1>4, <2>1, UnpolledOK
    <2>2. CASE poll' = [poll EXCEPT ![a].pc = "move", ![a].done = (status = "completed")]
      BY <1>2, <1>4, <2>2 DEF TypeInv, PollOK, PollRow, Grows
    <2> QED
      BY <1>1, <2>1, <2>2
  <1>6. UNCHANGED queue \/ QueueOK'
    BY <1>1, <1>2, <1>4, EnqueuedOK
  <1>7. ReqQuiet
    BY DEF PollReports, ReqQuiet
  <1> QED
    BY <1>3, <1>5, <1>6, <1>7, WorkStep DEF PollReports, outside

LEMMA PollMovesStep == ASSUME TypeInv, NEW a \in Attempts, PollMoves(a) PROVE Step
  <1>1. AttOK' /\ Keeps /\ Grows
    BY SameKeeps, KeepsGrows DEF TypeInv, PollMoves
  <1>2. a \in Made /\ att[a].req \in Requests
    BY DEF PollMoves, TypeInv, PollOK, AttOK, Made
  <1>3. ReqQuiet
    BY <1>2, MoveQuiet
    DEF TypeInv, PollMoves, DownloadingFrom, Legal, RequestStatus, ActiveRequest, Agreed
  <1>4. UNCHANGED queue \/ QueueOK'
    BY <1>1, <1>2, EnqueuedOK DEF PollMoves
  <1>5. PollOK'
    BY <1>1, UnpolledOK DEF PollMoves
  <1> QED
    BY <1>1, <1>3, <1>4, <1>5, WorkStep DEF PollMoves, outside

LEMMA ResumeStep == ASSUME TypeInv, NEW a \in Attempts, ResumeUnimported(a) PROVE Step
  <1>1. AttOK' /\ Keeps /\ Grows
    BY SameKeeps, KeepsGrows DEF TypeInv, ResumeUnimported, rows
  <1>2. a \in Made
    BY DEF ResumeUnimported, Made
  <1>3. QueueOK'
    BY <1>1, <1>2, EnqueuedOK DEF ResumeUnimported
  <1>4. ReqQuiet
    BY DEF ResumeUnimported, rows, ReqQuiet
  <1> QED
    BY <1>1, <1>3, <1>4, WorkStep DEF ResumeUnimported, rows, outside

LEMMA FailRequestStep == ASSUME TypeInv, NEW a \in Attempts, FailRequest(a) PROVE Step
  <1>1. AttOK' /\ Keeps /\ Grows
    BY SameKeeps, KeepsGrows DEF TypeInv, FailRequest
  <1>2. a \in Made /\ att[a].req \in Requests
    BY DEF FailRequest, TypeInv, FailingOK, AttOK, Made
  <1>3. ReqQuiet
    BY <1>2, MoveQuiet
    DEF TypeInv, FailRequest, WorkerWritable, Legal, RequestStatus, ActiveRequest, Agreed
  <1>4. TodoOK' /\ FailingOK'
    BY <1>1, <1>2 DEF FailRequest, TypeInv, TodoOK, FailingOK, Grows
  <1> QED
    BY <1>1, <1>3, <1>4, WorkStep DEF FailRequest, outside

LEMMA HoldRequestStep ==
  ASSUME TypeInv, NEW a \in Attempts, NEW from \in {"import", "verify"}, HoldRequest(a, from)
  PROVE  Step
  <1>1. a \in Made /\ att[a].req \in Requests
    BY DEF HoldRequest, TypeInv, HoldingOK, AttOK, Made
  <1>2. FailDownload(a) \/ UNCHANGED <<att, failing>>
    BY DEF HoldRequest
  <1>3. AttOK' /\ Keeps /\ (UNCHANGED failing \/ FailingOK')
    BY <1>2, FailDownloadKeeps, SameKeeps DEF TypeInv
  <1>4. UNCHANGED req \/ MoveRequest(att[a].req, WorkerWritable, "needs_review")
    BY DEF HoldRequest
  <1>5. ReqQuiet
    BY <1>1, <1>4, MoveQuiet
    DEF TypeInv, ReqQuiet, WorkerWritable, Legal, RequestStatus, ActiveRequest, Agreed
  <1>6. HoldingOK'
    BY <1>3, KeepsGrows DEF HoldRequest, TypeInv, HoldingOK
  <1> QED
    BY <1>3, <1>5, <1>6, WorkStep DEF HoldRequest, outside

-----------------------------------------------------------------------------
(* Imports. *)

LEMMA ImportsOK ==
  ASSUME TypeInv, Grows, NEW i \in Importers,
         NEW pc \in {"idle", "extract", "claim", "link", "place"},
         NEW a \in Attempts \cup {None}, pc # "idle" => a \in Made, Imports(i, pc, a)
  PROVE  ImportOK'
  BY DEF TypeInv, ImportOK, ImportRow, Grows, Imports

LEMMA ImportedOK ==
  ASSUME TypeInv, Grows, NEW i \in Importers, Imported(i)
  PROVE  ImportOK'
  BY ImportsOK DEF Imported

LEMMA StartImportStep == ASSUME TypeInv, StartImport PROVE Step
  <1>1. AttOK' /\ Keeps /\ Grows
    BY SameKeeps, KeepsGrows DEF TypeInv, StartImport, rows
  <1>2. queue \in Seq(Attempts) /\ queue # <<>> /\ queue' = Tail(queue)
        /\ \A k \in 1..Len(queue) : queue[k] \in Made
    BY DEF StartImport, TypeInv, QueueOK
  <1>3. Head(queue) \in Made
    BY <1>2
  <1>4. QueueOK'
    <2>1. queue' \in Seq(Attempts) /\ Len(queue') = Len(queue) - 1
          /\ \A k \in 1..Len(queue') : queue'[k] = queue[k + 1]
      BY <1>2
    <2>2. \A k \in 1..Len(queue') : k + 1 \in 1..Len(queue)
      BY <1>2, <2>1
    <2>3. \A k \in 1..Len(queue') : queue'[k] \in Made
      BY <1>2, <2>1, <2>2
    <2> QED
      BY <1>1, <2>1, <2>3 DEF QueueOK, Grows
  <1>5. UNCHANGED import \/ ImportOK'
    <2>1. Head(queue) \in Attempts
      BY <1>3 DEF Made
    <2> QED
      BY <1>1, <1>3, <2>1, ImportsOK DEF StartImport, Importers
  <1>6. ReqQuiet
    BY DEF StartImport, rows, ReqQuiet
  <1> QED
    BY <1>1, <1>4, <1>5, <1>6, WorkStep DEF StartImport, rows, importFrame

LEMMA ImportChosenStep == ASSUME TypeInv, NEW a \in Attempts, ImportChosen(a) PROVE Step
  <1>1. AttOK' /\ Keeps
    BY UpdateKeeps
    DEF TypeInv, ImportChosen, AttemptStatus, Unsettled, InFlight, ActiveAttempt
  <1>2. Grows /\ a \in Made
    BY <1>1, KeepsGrows DEF ImportChosen, Made
  <1>3. ImportOK'
    BY <1>2, ImportsOK DEF ImportChosen, Importers
  <1>4. ReqQuiet
    BY DEF ImportChosen, ReqQuiet
  <1> QED
    BY <1>1, <1>3, <1>4, WorkStep DEF ImportChosen, importFrame

LEMMA ExtractStep == ASSUME TypeInv, NEW i \in Importers, Extract(i) PROVE Step
  <1> DEFINE a == import[i].a
  <1>1. a \in Made /\ a \in Attempts
    BY DEF Extract, TypeInv, ImportOK, Made
  <1>2. ReqQuiet
    BY DEF Extract, ReqQuiet
  <1>3. SUFFICES /\ AttOK' /\ Keeps /\ ImportOK'
                 /\ UNCHANGED failing \/ FailingOK'
                 /\ UNCHANGED holding \/ HoldingOK'
                 /\ UNCHANGED dock \/ DockOK'
    BY <1>2, WorkStep DEF Extract, importFrame
  <1>4. CASE FailDownload(a) /\ Imported(i) /\ UNCHANGED <<dock, holding>>
    BY <1>1, <1>4, FailDownloadKeeps, KeepsGrows, ImportedOK DEF TypeInv
  <1>5. CASE /\ \E units \in BOOLEAN : HoldForReview(a, units, "import")
             /\ Imported(i) /\ UNCHANGED <<dock, failing>>
    BY <1>1, <1>5, HoldKeeps, KeepsGrows, ImportedOK DEF TypeInv
  <1>6. CASE /\ dock' = [dock EXCEPT ![a] = "reserved"]
             /\ Imports(i, "claim", a) /\ UNCHANGED <<att, failing, holding>>
    <2>1. AttOK' /\ Keeps /\ Grows
      BY <1>6, SameKeeps, KeepsGrows DEF TypeInv
    <2>2. DockOK'
      BY <1>6 DEF TypeInv, DockOK
    <2>3. ImportOK'
      BY <1>1, <1>6, <2>1, ImportsOK
    <2> QED
      BY <1>6, <2>1, <2>2, <2>3
  <1> QED
    BY <1>4, <1>5, <1>6 DEF Extract

LEMMA ClaimRequestStep == ASSUME TypeInv, NEW i \in Importers, ClaimRequest(i) PROVE Step
  <1> DEFINE a == import[i].a
             r == att[a].req
  <1>1. a \in Made /\ a \in Attempts /\ r \in Requests
    BY DEF ClaimRequest, TypeInv, ImportOK, AttOK, Made
  <1>2. SUFFICES /\ AttOK' /\ Keeps /\ ImportOK' /\ ReqQuiet
                 /\ UNCHANGED failing \/ FailingOK'
                 /\ UNCHANGED pointer \/ PointerOK'
                 /\ UNCHANGED dock \/ DockOK'
    BY WorkStep DEF ClaimRequest, importFrame
  <1>3. CASE FailDownload(a) /\ Imported(i) /\ UNCHANGED <<req, pointer, dock>>
    BY <1>1, <1>3, FailDownloadKeeps, KeepsGrows, ImportedOK DEF TypeInv, ReqQuiet
  <1>4. CASE /\ MoveRequest(r, WorkerWritable, "importing")
             /\ pointer' = [pointer EXCEPT ![r] = a]
             /\ Imports(i, "link", a)
             /\ UNCHANGED <<att, dock, failing>>
    <2>1. AttOK' /\ Keeps /\ Grows
      BY <1>4, SameKeeps, KeepsGrows DEF TypeInv
    <2>2. PointerOK'
      BY <1>1, <1>4 DEF TypeInv, PointerOK
    <2>3. ImportOK'
      BY <1>1, <1>4, <2>1, ImportsOK
    <2>4. ReqQuiet
      BY <1>1, <1>4, MoveQuiet
      DEF TypeInv, WorkerWritable, Legal, RequestStatus, ActiveRequest, Agreed
    <2> QED
      BY <1>4, <2>1, <2>2, <2>3, <2>4
  <1>5. CASE /\ dock' = [dock EXCEPT ![a] = "none"]
             /\ MoveAttempt(a, Unsettled, "failed")
             /\ Imported(i)
             /\ UNCHANGED <<req, pointer, failing>>
    <2>1. AttOK' /\ Keeps
      BY <1>1, <1>5, UpdateKeeps
      DEF TypeInv, AttemptStatus, Unsettled, InFlight, ActiveAttempt
    <2>2. DockOK'
      BY <1>5 DEF TypeInv, DockOK
    <2>3. ImportOK'
      BY <1>5, <2>1, KeepsGrows, ImportedOK
    <2> QED
      BY <1>5, <2>1, <2>2, <2>3 DEF ReqQuiet
  <1> QED
    BY <1>3, <1>4, <1>5 DEF ClaimRequest

LEMMA LinkStep == ASSUME TypeInv, NEW i \in Importers, Link(i) PROVE Step
  <1>1. import[i].a \in Made
    BY DEF Link, TypeInv, ImportOK
  <1>2. AttOK' /\ Keeps
    BY <1>1 DEF Link, TypeInv, AttOK, Keeps, Made, AttemptRow, AttemptStatus, Unsettled,
                InFlight, ActiveAttempt, Attempts
  <1>3. Grows /\ import[i].a \in Attempts
    BY <1>1, <1>2, KeepsGrows DEF Made
  <1>4. ImportOK'
    BY <1>1, <1>3, ImportsOK DEF Link
  <1>5. ReqQuiet
    BY DEF Link, ReqQuiet
  <1> QED
    BY <1>2, <1>4, <1>5, WorkStep DEF Link, importFrame

LEMMA PlaceStep == ASSUME TypeInv, NEW i \in Importers, Place(i) PROVE Step
  <1> DEFINE a == import[i].a
  <1>1. a \in Attempts
    BY DEF Place, TypeInv, ImportOK, Made
  <1>2. ReqQuiet
    BY DEF Place, ReqQuiet
  <1>3. DockOK' /\ Imported(i)
    BY <1>1 DEF Place, TypeInv, DockOK
  <1>4. SUFFICES /\ AttOK' /\ Keeps
                 /\ UNCHANGED failing \/ FailingOK'
                 /\ UNCHANGED pointer \/ PointerOK'
    BY <1>2, <1>3, KeepsGrows, ImportedOK, WorkStep DEF Place, importFrame
  <1>5. CASE UNCHANGED <<pointer, att, failing>>
    BY <1>5, SameKeeps DEF TypeInv
  <1>6. CASE pointer' = PointersWithout(a) /\ FailIn(AttemptsWithout(a), a)
    <2>1. AttOK' /\ Keeps /\ FailingOK'
      BY <1>1, <1>6, WithoutKeeps, FailKeeps DEF TypeInv
    <2>2. PointerOK'
      BY <1>1, <1>6, PointersType DEF TypeInv, PointerOK
    <2> QED
      BY <2>1, <2>2
  <1>7. CASE /\ pointer' = PointersWithout(a) /\ UNCHANGED failing
             /\ att' = [AttemptsWithout(a) EXCEPT ![a].status = UpdateIf(@, Unsettled, "failed")]
    <2>1. AttOK' /\ Keeps
      BY <1>1, <1>7, WithoutKeeps, TableKeeps
      DEF TypeInv, AttemptStatus, Unsettled, InFlight, ActiveAttempt
    <2>2. PointerOK'
      BY <1>1, <1>7, PointersType DEF TypeInv, PointerOK
    <2> QED
      BY <1>7, <2>1, <2>2
  <1> QED
    BY <1>5, <1>6, <1>7 DEF Place

-----------------------------------------------------------------------------
(* Verification and filing. *)

LEMMA FilesOK ==
  ASSUME TypeInv, Grows, NEW f \in Filers, filing[f].pc # "idle",
         NEW pc \in {"file", "settle", "mark"}, Files(f, pc)
  PROVE  FilingOK' /\ (pc # "settle" => Copies)
  BY DEF TypeInv, FilingOK, FilingRow, Grows, Files, Copies

LEMMA FiledOK ==
  ASSUME TypeInv, Grows, NEW f \in Filers, Filed(f)
  PROVE  FilingOK' /\ Copies
  BY DEF TypeInv, FilingOK, FilingRow, Grows, Filed, IdleFiling, Copies

LEMMA AssignOK ==
  ASSUME TypeInv, Grows, NEW f \in Filers, NEW pc \in {"verify", "file"}, NEW a \in Made,
         NEW file \in Attempts, filing' = [filing EXCEPT ![f] = [pc |-> pc, file |-> file, a |-> a]]
  PROVE  FilingOK' /\ Copies
  BY DEF TypeInv, FilingOK, FilingRow, Grows, Copies, Made

LEMMA FilerAttempt == ASSUME NEW a \in Attempts PROVE a \in Filers
  BY DEF Filers

LEMMA IngestedStep == ASSUME TypeInv, NEW a \in Attempts, Ingested(a) PROVE Step
  <1>1. AttOK' /\ Keeps /\ Grows /\ ReqOK' /\ ReqStep
    BY SameKeeps, KeepsGrows
    DEF TypeInv, Ingested, rows, filingFrame, ReqOK, ReqStep, Quiet, ReqQuiet
  <1>2. a \in Made
    BY DEF Ingested, Made
  <1>3. FilingOK' /\ Copies
    BY <1>1, <1>2, AssignOK, FilerAttempt DEF Ingested
  <1> QED
    BY <1>1, <1>3, FilingUpdates DEF Ingested, rows

LEMMA FileHeldStep == ASSUME TypeInv, NEW r \in Requests, FileHeld(r) PROVE Step
  <1>1. AttOK' /\ Keeps /\ Grows /\ ReqOK' /\ ReqStep
    BY SameKeeps, KeepsGrows
    DEF TypeInv, FileHeld, rows, filingFrame, ReqOK, ReqStep, Quiet, ReqQuiet
  <1>2. PICK a \in Attempts :
          /\ IsLatest(r, a) /\ HeldFile(r, a) # None
          /\ filing' = [filing EXCEPT ![Moderator] =
                          [pc |-> "file", file |-> HeldFile(r, a), a |-> a]]
    BY DEF FileHeld
  <1>3. a \in Made
    BY <1>2, RequestsAssumption DEF IsLatest, TypeInv, AttOK, Made, RequestsAssumption
  <1>4. HeldFile(r, a) \in Attempts
    BY <1>2 DEF HeldFile, TypeInv, PointerOK
  <1>5. FilingOK' /\ Copies
    BY <1>1, <1>2, <1>3, <1>4, AssignOK DEF Filers
  <1> QED
    BY <1>1, <1>5, FilingUpdates DEF FileHeld, rows

LEMMA VerifyStep == ASSUME TypeInv, NEW a \in Attempts, Verify(a) PROVE Step
  <1>1. ReqOK' /\ ReqStep
    BY DEF TypeInv, Verify, filingFrame, ReqOK, ReqStep, Quiet, ReqQuiet
  <1>2. a \in Filers /\ filing[a].pc = "verify"
    BY FilerAttempt DEF Verify
  <1>3. /\ AttOK' /\ Keeps
        /\ UNCHANGED failing \/ FailingOK'
        /\ UNCHANGED holding \/ HoldingOK'
        /\ Filed(a) \/ Files(a, "file")
    <2>1. CASE FailDownload(a) /\ Filed(a) /\ UNCHANGED holding
      BY <2>1, FailDownloadKeeps DEF TypeInv
    <2>2. CASE Files(a, "file") /\ UNCHANGED <<att, failing, holding>>
      BY <2>2, SameKeeps DEF TypeInv
    <2>3. CASE HoldForReview(a, FALSE, "verify") /\ Filed(a) /\ UNCHANGED failing
      BY <2>3, HoldKeeps DEF TypeInv
    <2> QED
      BY <2>1, <2>2, <2>3 DEF Verify
  <1>4. FilingOK' /\ Copies
    BY <1>2, <1>3, KeepsGrows, FilesOK, FiledOK
  <1> QED
    BY <1>1, <1>3, <1>4, FilingUpdates DEF Verify

LEMMA FileIntoLibraryStep == ASSUME TypeInv, NEW f \in Filers, FileIntoLibrary(f) PROVE Step
  <1> DEFINE file == filing[f].file
             a == filing[f].a
             r == att[a].req
  <1>1. file \in Attempts /\ a \in Made /\ a \in Attempts /\ r \in Requests
        /\ filing[f].pc = "file"
    BY DEF FileIntoLibrary, TypeInv, FilingOK, AttOK, Made
  <1>2. CASE /\ dock' = [dock EXCEPT ![file] = "filed"]
             /\ library' = [library EXCEPT ![r] = @ + 1]
             /\ pointer' = PointersWithout(file) /\ att' = AttemptsWithout(file)
             /\ Files(f, "settle") /\ UNCHANGED holding
    <2>1. AttOK' /\ Keeps /\ Grows
      BY <1>1, <1>2, UnlinkKeeps, KeepsGrows DEF TypeInv
    <2>2. DockOK' /\ PointerOK'
      BY <1>1, <1>2, PointersType DEF TypeInv, DockOK, PointerOK
    <2>3. LibraryOK' /\ library'[r] > 0
      BY <1>1, <1>2 DEF TypeInv, LibraryOK, FileIntoLibrary, filingFrame
    <2>4. FilingOK'
      BY <1>1, <1>2, <2>1, FilesOK
    <2>5. Copies
      BY <1>1, <1>2, <2>3 DEF Copies, Files, TypeInv, FilingOK
    <2>6. ReqOK' /\ ReqStep
      BY <1>1, <1>2 DEF FileIntoLibrary, filingFrame, TypeInv, ReqOK, ReqStep, Arrives
    <2> QED
      BY <1>2, <2>1, <2>2, <2>3, <2>4, <2>5, <2>6, FilingUpdates DEF FileIntoLibrary
  <1>3. CASE /\ IF f = Moderator THEN UNCHANGED <<att, holding>>
                                 ELSE HoldForReview(a, FALSE, "verify")
             /\ Filed(f) /\ UNCHANGED <<pointer, dock, library>>
    <2>1. AttOK' /\ Keeps /\ (UNCHANGED holding \/ HoldingOK')
      BY <1>1, <1>3, SameKeeps, HoldKeeps DEF TypeInv
    <2>2. FilingOK' /\ Copies
      BY <1>3, <2>1, KeepsGrows, FiledOK
    <2>3. ReqOK' /\ ReqStep
      BY <1>3 DEF FileIntoLibrary, filingFrame, TypeInv, ReqOK, ReqStep, Quiet, ReqQuiet
    <2> QED
      BY <1>3, <2>1, <2>2, <2>3, FilingUpdates DEF FileIntoLibrary
  <1> QED
    BY <1>2, <1>3 DEF FileIntoLibrary

LEMMA SettleStep == ASSUME TypeInv, NEW f \in Filers, Settle(f) PROVE Step
  <1> DEFINE r == att[filing[f].a].req
  <1>1. AttOK' /\ Keeps /\ Grows
    BY SameKeeps, KeepsGrows DEF TypeInv, Settle
  <1>2. filing[f].pc = "settle" /\ r \in Requests
    BY DEF Settle, TypeInv, FilingOK, AttOK, Made
  <1>3. FilingOK' /\ Copies
    BY <1>1, <1>2, FilesOK DEF Settle
  <1>4. PointerOK'
    BY <1>2 DEF Settle, TypeInv, PointerOK
  <1>5. ReqOK' /\ ReqStep
    <2>1. CASE req[r] \in FileableFrom
      <3>1. req' = [req EXCEPT ![r] = "available"]
        BY <2>1 DEF Settle, MoveRequest, UpdateIf
      <3>2. ReqOK'
        BY <3>1 DEF TypeInv, ReqOK, RequestStatus
      <3>3. Answers
        BY <1>2, <2>1, <3>1 DEF Settle, filingFrame, Answers
      <3> QED
        BY <3>2, <3>3 DEF ReqStep
    <2>2. CASE req[r] \notin FileableFrom
      <3>1. UNCHANGED req
        BY <1>2, <2>2 DEF Settle, MoveRequest, UpdateIf, TypeInv, ReqOK
      <3> QED
        BY <3>1 DEF Settle, filingFrame, TypeInv, ReqOK, ReqStep, Quiet, ReqQuiet
    <2> QED
      BY <2>1, <2>2
  <1> QED
    BY <1>1, <1>3, <1>4, <1>5, FilingUpdates DEF Settle

LEMMA MarkImportedStep == ASSUME TypeInv, NEW f \in Filers, MarkImported(f) PROVE Step
  <1>1. filing[f].a \in Attempts
    BY DEF MarkImported, TypeInv, FilingOK, Made
  <1>2. AttOK' /\ Keeps
    BY <1>1, UpdateKeeps
    DEF MarkImported, TypeInv, AttemptStatus, Unsettled, InFlight, ActiveAttempt
  <1>3. FilingOK' /\ Copies
    BY <1>2, KeepsGrows, FiledOK DEF MarkImported
  <1>4. ReqOK' /\ ReqStep
    BY DEF MarkImported, filingFrame, TypeInv, ReqOK, ReqStep, Quiet, ReqQuiet
  <1> QED
    BY <1>2, <1>3, <1>4, FilingUpdates DEF MarkImported

-----------------------------------------------------------------------------
(* People. *)

PersonPcs == {"detach", "fail", "reopen", "close", "sweep", "discard", "decline", "empty",
              "undo", "restore"}
OnAttempt == {"fail", "discard", "decline", "empty", "undo", "restore"}

LEMMA FreeOK ==
  ASSUME TypeInv, Grows, NEW p \in Persons, Free(p)
  PROVE  PersonOK'
  BY DEF TypeInv, PersonOK, PersonRow, Grows, Free, IdlePerson

LEMMA BeginsOK ==
  ASSUME TypeInv, Grows, NEW p \in Persons, NEW pc \in {"detach", "discard"},
         NEW op \in {"cancel", "stop", "fulfil", "discard"}, NEW r \in Requests,
         NEW a \in Attempts \cup {None}, NEW file \in Attempts \cup {None},
         pc = "discard" \/ op = "stop" => a \in Made, Begins(p, pc, op, r, a, file)
  PROVE  PersonOK'
  BY DEF TypeInv, PersonOK, PersonRow, Grows, Begins

(* The operation goes on, with the attempt it has or one it finds. *)
LEMMA GoesOnOK ==
  ASSUME TypeInv, Grows, NEW p \in Persons, person[p].pc # "idle",
         NEW pc \in PersonPcs \ {"detach"}, NEW a \in Attempts \cup {None},
         pc \in OnAttempt => a \in Made,
         person' = [person EXCEPT ![p].pc = pc, ![p].a = a]
  PROVE  PersonOK'
  <1> DEFINE record == [person[p] EXCEPT !.pc = pc, !.a = a]
  <1>1. /\ person \in [Persons -> PersonRow]
        /\ \A q \in Persons :
             /\ person[q].pc # "idle" => person[q].r \in Requests
             /\ person[q].pc \in OnAttempt => person[q].a \in Made
             /\ person[q].pc = "detach" /\ person[q].op = "stop" => person[q].a \in Made
    BY DEF TypeInv, PersonOK, OnAttempt
  <1>2. record \in PersonRow /\ record.pc = pc /\ record.r = person[p].r /\ record.a = a
    BY <1>1 DEF PersonRow, PersonPcs
  <1>3. person' = [person EXCEPT ![p] = record]
    BY <1>1
  <1>4. pc # "detach" /\ Made \subseteq Made'
    BY DEF Grows
  <1> HIDE DEF record
  <1>5. person' \in [Persons -> PersonRow]
    BY <1>1, <1>2, <1>3
  <1>6. ASSUME NEW q \in Persons
        PROVE  /\ person'[q].pc # "idle" => person'[q].r \in Requests
               /\ person'[q].pc \in OnAttempt => person'[q].a \in Made'
               /\ person'[q].pc = "detach" /\ person'[q].op = "stop" => person'[q].a \in Made'
    <2>1. CASE q = p
      BY <1>1, <1>2, <1>3, <1>4, <2>1
    <2>2. CASE q # p
      BY <1>1, <1>3, <1>4, <2>2
    <2> QED
      BY <2>1, <2>2
  <1> QED
    BY <1>5, <1>6 DEF PersonOK, OnAttempt

LEMMA DoesOK ==
  ASSUME TypeInv, Grows, NEW p \in Persons, person[p].pc # "idle",
         NEW pc \in PersonPcs \ {"detach"}, pc \in OnAttempt => person[p].a \in Made,
         Does(p, pc)
  PROVE  PersonOK'
  <1>1. person \in [Persons -> PersonRow]
    BY DEF TypeInv, PersonOK
  <1>2. person' = [person EXCEPT ![p].pc = pc, ![p].a = person[p].a]
        /\ person[p].a \in Attempts \cup {None}
    BY <1>1 DEF Does, PersonRow
  <1> QED
    BY <1>2, GoesOnOK

LEMMA CancelStep ==
  ASSUME TypeInv, NEW p \in Persons, NEW r \in Requests, Cancel(p, r)
  PROVE  Step
  <1>1. AttOK' /\ Keeps /\ Grows
    BY SameKeeps, KeepsGrows DEF TypeInv, Cancel
  <1>2. ReqQuiet
    BY MoveQuiet DEF TypeInv, Cancel, Cancellable, Legal, RequestStatus, ActiveRequest, Agreed
  <1>3. PersonOK'
    BY <1>1, BeginsOK DEF Cancel
  <1> QED
    BY <1>1, <1>2, <1>3, WorkStep DEF Cancel, personFrame

LEMMA StopTransferStep ==
  ASSUME TypeInv, NEW p \in Persons, NEW a \in Attempts, StopTransfer(p, a)
  PROVE  Step
  <1>1. AttOK' /\ Keeps /\ Grows /\ ReqQuiet
    BY SameKeeps, KeepsGrows DEF TypeInv, StopTransfer, rows, ReqQuiet
  <1>2. a \in Made /\ att[a].req \in Requests
    BY DEF StopTransfer, ActiveAttempt, Made, TypeInv, AttOK
  <1>3. PersonOK'
    BY <1>1, <1>2, BeginsOK DEF StopTransfer
  <1>4. SpentOK'
    BY DEF StopTransfer, TypeInv, SpentOK
  <1> QED
    BY <1>1, <1>3, <1>4, WorkStep DEF StopTransfer, personFrame, rows

LEMMA FulfilStep ==
  ASSUME TypeInv, NEW p \in Persons, NEW r \in Requests, Fulfil(p, r)
  PROVE  Step
  <1>1. AttOK' /\ Keeps /\ Grows /\ ReqQuiet
    BY SameKeeps, KeepsGrows DEF TypeInv, Fulfil, rows, ReqQuiet
  <1>2. PersonOK'
    BY <1>1, BeginsOK DEF Fulfil
  <1> QED
    BY <1>1, <1>2, WorkStep DEF Fulfil, personFrame, rows

LEMMA DiscardStep ==
  ASSUME TypeInv, NEW p \in Persons, NEW r \in Requests, Discard(p, r)
  PROVE  Step
  <1>1. AttOK' /\ Keeps /\ Grows /\ ReqQuiet
    BY SameKeeps, KeepsGrows DEF TypeInv, Discard, rows, ReqQuiet
  <1>2. PICK a \in Attempts : /\ att[a].status # "absent"
                              /\ Begins(p, "discard", "discard", r, a, HeldFile(r, a))
    BY DEF Discard
  <1>3. a \in Made /\ HeldFile(r, a) \in Attempts \cup {None}
    BY <1>2 DEF Made, HeldFile, TypeInv, PointerOK
  <1>4. PersonOK'
    BY <1>1, <1>2, <1>3, BeginsOK
  <1> QED
    BY <1>1, <1>4, WorkStep DEF Discard, personFrame, rows

LEMMA DetachStep == ASSUME TypeInv, NEW p \in Persons, Detach(p) PROVE Step
  <1>1. AttOK' /\ Keeps /\ Grows /\ ReqQuiet
    BY SameKeeps, KeepsGrows DEF TypeInv, Detach, rows, ReqQuiet
  <1>2. person[p].pc = "detach" /\ ToDetach(p) \subseteq Made
    BY DEF Detach, ToDetach, Made, TypeInv, PersonOK
  <1>3. SUFFICES PersonOK' /\ (UNCHANGED client \/ ClientOK')
    BY <1>1, WorkStep DEF Detach, personFrame, rows
  <1>4. CASE ToDetach(p) = {}
    BY <1>1, <1>2, <1>4, DoesOK, FreeOK DEF Detach, PersonPcs, OnAttempt, personFrame
  <1>5. CASE ToDetach(p) # {}
    <2>1. PICK a \in ToDetach(p), refused \in BOOLEAN :
            /\ client' = IF refused THEN client ELSE [client EXCEPT ![a] = "none"]
            /\ IF refused /\ person[p].op = "stop" THEN Free(p)
                 ELSE person' = [person EXCEPT ![p].pc = "fail", ![p].a = a]
      BY <1>5 DEF Detach
    <2>2. a \in Made /\ a \in Attempts
      BY <1>2, <2>1 DEF Made
    <2>3. PersonOK'
      BY <1>1, <1>2, <2>1, <2>2, GoesOnOK, FreeOK DEF PersonPcs, OnAttempt
    <2>4. UNCHANGED client \/ ClientOK'
      BY <2>1, <2>2 DEF TypeInv, ClientOK
    <2> QED
      BY <2>3, <2>4
  <1> QED
    BY <1>4, <1>5

LEMMA FailAttemptStep == ASSUME TypeInv, NEW p \in Persons, FailAttempt(p) PROVE Step
  <1>1. person[p].pc = "fail" /\ person[p].a \in Attempts
    BY DEF FailAttempt, TypeInv, PersonOK, Made
  <1>2. AttOK' /\ Keeps
    BY <1>1, UpdateKeeps
    DEF FailAttempt, TypeInv, AttemptStatus, Unsettled, InFlight, ActiveAttempt
  <1>3. Does(p, "close") \/ Does(p, "reopen") \/ Free(p)
    BY DEF FailAttempt
  <1>4. PersonOK'
    BY <1>1, <1>2, <1>3, KeepsGrows, DoesOK, FreeOK DEF PersonPcs, OnAttempt
  <1>5. ReqQuiet
    BY DEF FailAttempt, ReqQuiet
  <1> QED
    BY <1>2, <1>4, <1>5, WorkStep DEF FailAttempt, personFrame

LEMMA ReopenStep == ASSUME TypeInv, NEW p \in Persons, Reopen(p) PROVE Step
  <1>1. AttOK' /\ Keeps /\ Grows
    BY SameKeeps, KeepsGrows DEF TypeInv, Reopen
  <1>2. person[p].r \in Requests
    BY DEF Reopen, TypeInv, PersonOK
  <1>3. ReqQuiet
    BY <1>2, MoveQuiet
    DEF TypeInv, Reopen, ActiveTransferRequest, Legal, RequestStatus, ActiveRequest, Agreed
  <1>4. PersonOK'
    BY <1>1, FreeOK DEF Reopen
  <1> QED
    BY <1>1, <1>3, <1>4, WorkStep DEF Reopen, personFrame

LEMMA CloseStep == ASSUME TypeInv, NEW p \in Persons, Close(p) PROVE Step
  <1> DEFINE r == person[p].r
  <1>1. AttOK' /\ Keeps /\ Grows /\ Made' = Made
    BY SameKeeps, KeepsGrows DEF TypeInv, Close
  <1>2. r \in Requests /\ person[p].pc = "close"
    BY DEF Close, TypeInv, PersonOK
  <1>3. CASE req[r] \notin Fulfillable
    <2>1. Free(p) /\ UNCHANGED <<req, pointer, byHand>>
      BY <1>3 DEF Close
    <2>2. PersonOK' /\ ReqQuiet
      BY <1>1, <2>1, FreeOK DEF ReqQuiet
    <2> QED
      BY <1>1, <2>1, <2>2, WorkStep DEF Close, personFrame
  <1>4. CASE req[r] \in Fulfillable
    <2>1. /\ req' = [req EXCEPT ![r] = "available"]
          /\ pointer' = [pointer EXCEPT ![r] = None]
          /\ byHand' = byHand \cup {r}
          /\ Does(p, "sweep")
      BY <1>4 DEF Close, MoveRequest, UpdateIf
    <2>2. UNCHANGED <<att, dock, client, failing, spent, library, todo, pass, poll, queue,
                      import, filing, holding, stale>>
      BY DEF Close, personFrame
    <2>3. PersonOK'
      BY <1>1, <1>2, <2>1, DoesOK DEF PersonPcs, OnAttempt
    <2>4. ReqOK' /\ PointerOK' /\ LibraryOK'
      BY <1>2, <2>1, <2>2 DEF TypeInv, ReqOK, PointerOK, LibraryOK, RequestStatus
    <2>5. DockOK' /\ ClientOK' /\ TodoOK' /\ SpentOK'
      BY <2>2 DEF TypeInv, DockOK, ClientOK, TodoOK, SpentOK
    <2>6. PassOK' /\ PollOK' /\ QueueOK' /\ ImportOK' /\ FilingOK' /\ FailingOK'
          /\ HoldingOK' /\ StaleOK'
      BY <1>1, <2>2, Undisturbed
    <2>7. TypeInv'
      BY <1>1, <2>3, <2>4, <2>5, <2>6 DEF TypeInv
    <2>8. ReqStep
      BY <1>2, <1>4, <2>1, <2>2 DEF ReqStep, Fulfils
    <2> QED
      BY <1>1, <2>2, <2>7, <2>8, SameNewWork, SameCopies DEF Step
  <1> QED
    BY <1>3, <1>4

LEMMA SweepAttemptsStep == ASSUME TypeInv, NEW p \in Persons, SweepAttempts(p) PROVE Step
  <1>1. AttOK' /\ Keeps
    BY DEF SweepAttempts, TypeInv, AttOK, Keeps, UpdateIf, AttemptRow, AttemptStatus, Unsettled,
           InFlight, ActiveAttempt, Attempts
  <1>2. PersonOK' /\ ReqQuiet
    BY <1>1, KeepsGrows, FreeOK DEF SweepAttempts, ReqQuiet
  <1> QED
    BY <1>1, <1>2, WorkStep DEF SweepAttempts, personFrame

LEMMA DiscardRequestStep == ASSUME TypeInv, NEW p \in Persons, DiscardRequest(p) PROVE Step
  <1>1. AttOK' /\ Keeps /\ Grows
    BY SameKeeps, KeepsGrows DEF TypeInv, DiscardRequest
  <1>2. person[p].pc = "discard" /\ person[p].r \in Requests /\ person[p].a \in Made
    BY DEF DiscardRequest, TypeInv, PersonOK
  <1>3. ReqQuiet
    BY <1>2, MoveQuiet DEF TypeInv, DiscardRequest, Legal, RequestStatus, ActiveRequest, Agreed
  <1>4. PersonOK'
    BY <1>1, <1>2, DoesOK, FreeOK DEF DiscardRequest, PersonPcs, OnAttempt
  <1> QED
    BY <1>1, <1>3, <1>4, WorkStep DEF DiscardRequest, personFrame

LEMMA ReviewAgainQuiet ==
  ASSUME TypeInv, NEW r \in Requests, ReviewAgain(r)
  PROVE  ReqQuiet
  <1>1. UNCHANGED req \/ MoveRequest(r, {"failed"}, "needs_review")
    BY DEF ReviewAgain
  <1> QED
    BY <1>1, MoveQuiet DEF TypeInv, ReqQuiet, Legal, RequestStatus, ActiveRequest, Agreed

LEMMA DiscardAttemptStep == ASSUME TypeInv, NEW p \in Persons, DiscardAttempt(p) PROVE Step
  <1>1. person[p].pc = "decline" /\ person[p].r \in Requests /\ person[p].a \in Made
        /\ person[p].a \in Attempts
    BY DEF DiscardAttempt, TypeInv, PersonOK, Made
  <1>2. AttOK' /\ Keeps
    BY <1>1, UpdateKeeps
    DEF DiscardAttempt, TypeInv, AttemptStatus, Unsettled, InFlight, ActiveAttempt
  <1>3. ReqQuiet
    BY <1>1, ReviewAgainQuiet DEF DiscardAttempt, ReqQuiet
  <1>4. Does(p, "empty") \/ Free(p)
    BY DEF DiscardAttempt
  <1>5. PersonOK'
    BY <1>1, <1>2, <1>4, KeepsGrows, DoesOK, FreeOK DEF PersonPcs, OnAttempt
  <1> QED
    BY <1>2, <1>3, <1>5, WorkStep DEF DiscardAttempt, personFrame

LEMMA EmptyStep == ASSUME TypeInv, NEW p \in Persons, Empty(p) PROVE Step
  <1> DEFINE f == person[p].file
  <1>1. person[p].pc = "empty" /\ person[p].a \in Made /\ f \in Attempts \cup {None}
    BY DEF Empty, TypeInv, PersonOK, PersonRow
  <1>2. CASE f # None /\ dock' = [dock EXCEPT ![f] = "none"] /\ pointer' = PointersWithout(f)
             /\ att' = AttemptsWithout(f) /\ Free(p) /\ UNCHANGED spent
    <2>1. f \in Attempts
      BY <1>1, <1>2
    <2>2. AttOK' /\ Keeps /\ PointerOK' /\ DockOK'
      BY <1>2, <2>1, UnlinkKeeps, PointersType DEF TypeInv, PointerOK, DockOK
    <2>3. PersonOK'
      BY <1>2, <2>2, KeepsGrows, FreeOK
    <2>4. ReqQuiet
      BY DEF Empty, ReqQuiet
    <2> QED
      BY <1>2, <2>2, <2>3, <2>4, WorkStep DEF Empty, personFrame
  <1>3. CASE UNCHANGED <<pointer, att, dock>> /\ (Free(p) \/ Does(p, "undo"))
    <2>1. AttOK' /\ Keeps /\ Grows /\ ReqQuiet
      BY <1>3, SameKeeps, KeepsGrows DEF TypeInv, Empty, ReqQuiet
    <2>2. PersonOK'
      BY <1>1, <1>3, <2>1, DoesOK, FreeOK DEF PersonPcs, OnAttempt
    <2>3. SpentOK'
      BY DEF Empty, TypeInv, SpentOK
    <2> QED
      BY <1>3, <2>1, <2>2, <2>3, WorkStep DEF Empty, personFrame
  <1> QED
    BY <1>2, <1>3 DEF Empty

LEMMA UndoStep ==
  ASSUME TypeInv, NEW p \in Persons, UndoRequest(p) \/ UndoAttempt(p)
  PROVE  Step
  <1>1. CASE UndoRequest(p)
    <2>1. AttOK' /\ Keeps /\ Grows
      BY <1>1, SameKeeps, KeepsGrows DEF TypeInv, UndoRequest
    <2>2. person[p].pc = "undo" /\ person[p].r \in Requests /\ person[p].a \in Made
      BY <1>1 DEF UndoRequest, TypeInv, PersonOK
    <2>3. ReqQuiet
      BY <1>1, <2>2, ReviewAgainQuiet DEF UndoRequest
    <2>4. PersonOK'
      BY <1>1, <2>1, <2>2, DoesOK DEF UndoRequest, PersonPcs, OnAttempt
    <2> QED
      BY <1>1, <2>1, <2>3, <2>4, WorkStep DEF UndoRequest, personFrame
  <1>2. CASE UndoAttempt(p)
    <2>1. person[p].a \in Attempts
      BY <1>2 DEF UndoAttempt, TypeInv, PersonOK, Made
    <2>2. AttOK' /\ Keeps
      BY <1>2, <2>1, UpdateKeeps
      DEF UndoAttempt, TypeInv, AttemptStatus, Unsettled, InFlight, ActiveAttempt
    <2>3. PersonOK' /\ ReqQuiet
      BY <1>2, <2>2, KeepsGrows, FreeOK DEF UndoAttempt, ReqQuiet
    <2> QED
      BY <1>2, <2>2, <2>3, WorkStep DEF UndoAttempt, personFrame
  <1> QED
    BY <1>1, <1>2

LEMMA PersonStepStep == ASSUME TypeInv, NEW p \in Persons, PersonStep(p) PROVE Step
  BY DetachStep, FailAttemptStep, ReopenStep, CloseStep, SweepAttemptsStep, DiscardRequestStep,
     DiscardAttemptStep, EmptyStep, UndoStep
  DEF PersonStep

-----------------------------------------------------------------------------
(* The Book Dock, the client, the watchdog, a restart. *)

LEMMA OutsideStep ==
  ASSUME TypeInv, NEW a \in Attempts, DockEmptied(a) \/ ClientEnds(a)
  PROVE  Step
  <1>1. CASE DockEmptied(a)
    <2>1. AttOK' /\ Keeps /\ PointerOK' /\ DockOK' /\ ReqQuiet
      BY <1>1, UnlinkKeeps, PointersType DEF DockEmptied, TypeInv, PointerOK, DockOK, ReqQuiet
    <2> QED
      BY <1>1, <2>1, WorkStep DEF DockEmptied, work
  <1>2. CASE ClientEnds(a)
    <2>1. AttOK' /\ Keeps /\ ReqQuiet
      BY <1>2, SameKeeps DEF ClientEnds, rows, TypeInv, ReqQuiet
    <2>2. ClientOK'
      BY <1>2 DEF ClientEnds, TypeInv, ClientOK
    <2> QED
      BY <1>2, <2>1, <2>2, WorkStep DEF ClientEnds, rows, work
  <1> QED
    BY <1>1, <1>2

LEMMA WatchdogStep ==
  ASSUME TypeInv, NEW a \in Attempts, WatchdogReads(a) \/ WatchdogActs(a)
  PROVE  Step
  <1>1. CASE WatchdogReads(a)
    <2>1. AttOK' /\ Keeps /\ Made' = Made /\ ReqQuiet
      BY <1>1, SameKeeps, KeepsGrows DEF WatchdogReads, rows, TypeInv, ReqQuiet
    <2>2. a \in Made
      BY <1>1 DEF WatchdogReads, Overdue, ActiveAttempt, Made
    <2>3. StaleOK'
      BY <1>1, <2>1, <2>2 DEF WatchdogReads, TypeInv, StaleOK
    <2> QED
      BY <1>1, <2>1, <2>3, WorkStep DEF WatchdogReads, rows, outside, work
  <1>2. CASE WatchdogActs(a)
    <2>1. AttOK' /\ Keeps /\ FailingOK'
      BY <1>2, FailDownloadKeeps DEF WatchdogActs, TypeInv
    <2>2. StaleOK' /\ ReqQuiet
      BY <1>2, <2>1, KeepsGrows DEF WatchdogActs, TypeInv, StaleOK, ReqQuiet
    <2>3. SpentOK'
      BY <1>2 DEF WatchdogActs, TypeInv, SpentOK
    <2> QED
      BY <1>2, <2>1, <2>2, <2>3, WorkStep DEF WatchdogActs, outside
  <1> QED
    BY <1>1, <1>2

LEMMA CrashStep == ASSUME TypeInv, ServerCrash PROVE Step
  <1>1. AttOK' /\ Keeps /\ Grows /\ Made' = Made
    BY SameKeeps, KeepsGrows DEF ServerCrash, rows, TypeInv
  <1>2. ReqOK' /\ PointerOK' /\ DockOK' /\ ClientOK' /\ LibraryOK'
    BY DEF ServerCrash, rows, outside, TypeInv, ReqOK, PointerOK, DockOK, ClientOK, LibraryOK
  <1>3. TodoOK' /\ FailingOK' /\ HoldingOK' /\ StaleOK'
    BY DEF ServerCrash, TodoOK, FailingOK, HoldingOK, StaleOK
  <1>4. PassOK' /\ NewWork
    BY <1>1 DEF ServerCrash, PassOK, PassRow, IdlePass, Trigger, Remembers, NewWork
  <1>5. PollOK'
    BY DEF ServerCrash, PollOK, PollRow, IdlePoll, ActiveAttempt
  <1>6. QueueOK'
    BY DEF ServerCrash, QueueOK
  <1>7. ImportOK'
    BY DEF ServerCrash, ImportOK, ImportRow, IdleImport
  <1>8. FilingOK' /\ Copies
    BY DEF ServerCrash, FilingOK, FilingRow, IdleFiling, Copies
  <1>9. PersonOK'
    BY DEF ServerCrash, PersonOK, PersonRow, IdlePerson
  <1>10. SpentOK'
    BY DEF ServerCrash, TypeInv, SpentOK
  <1>11. TypeInv'
    BY <1>1, <1>2, <1>3, <1>4, <1>5, <1>6, <1>7, <1>8, <1>9, <1>10 DEF TypeInv
  <1>12. ReqStep
    BY DEF ServerCrash, rows, outside, ReqStep, Quiet, ReqQuiet
  <1> QED
    BY <1>1, <1>4, <1>8, <1>11, <1>12 DEF Step

LEMMA StutterStep == ASSUME TypeInv, UNCHANGED vars PROVE Step
  <1>1. UNCHANGED <<rows, outside, work, todo, pass, poll, person, stale, spent>>
    BY DEF vars
  <1>2. AttOK' /\ Keeps /\ ReqQuiet
    BY <1>1, SameKeeps DEF rows, TypeInv, ReqQuiet
  <1> QED
    BY <1>1, <1>2, WorkStep DEF rows, outside, work

LEMMA EveryStep == ASSUME TypeInv, [Next]_vars PROVE Step
  <1>1. ASSUME NEW r \in Requests, Submit(r) \/ Approve(r) \/ Reject(r) \/ ListForResearch(r)
        PROVE  Step
    BY <1>1, SubmitStep, DecideStep, SweepStep
  <1>2. ASSUME NEW p \in Passes, PassStep(p) \/ GrabByHand(p)
        PROVE  Step
    BY <1>2, PassStepStep
  <1>3. ASSUME NEW a \in Attempts, PollStep(a) \/ FailRequest(a)
        PROVE  Step
    BY <1>3, PollAsksStep, PollFailsStep, PollReportsStep, PollMovesStep, ResumeStep,
       FailRequestStep
    DEF PollStep
  <1>4. ASSUME NEW a \in Attempts, NEW from \in {"import", "verify"}, HoldRequest(a, from)
        PROVE  Step
    BY <1>4, HoldRequestStep
  <1>5. ASSUME StartImport \/ \E i \in Importers : ImportStep(i)
        PROVE  Step
    BY <1>5, StartImportStep, ExtractStep, ClaimRequestStep, LinkStep, PlaceStep DEF ImportStep
  <1>6. ASSUME NEW a \in Attempts, ImportChosen(a) \/ Ingested(a) \/ Verify(a)
        PROVE  Step
    BY <1>6, ImportChosenStep, IngestedStep, VerifyStep
  <1>7. ASSUME NEW f \in Filers, FilingStep(f)
        PROVE  Step
    BY <1>7, FileIntoLibraryStep, SettleStep, MarkImportedStep DEF FilingStep
  <1>8. ASSUME NEW r \in Requests, FileHeld(r) \/ ReleaseStranded(r) \/ AbandonSelfServe(r)
        PROVE  Step
    BY <1>8, FileHeldStep, SweepStep
  <1>9. ASSUME NEW p \in Persons, NEW r \in Requests, Cancel(p, r) \/ Fulfil(p, r) \/ Discard(p, r)
        PROVE  Step
    BY <1>9, CancelStep, FulfilStep, DiscardStep
  <1>10. ASSUME NEW p \in Persons, NEW a \in Attempts, StopTransfer(p, a)
         PROVE  Step
    BY <1>10, StopTransferStep
  <1>11. ASSUME NEW p \in Persons, PersonStep(p)
         PROVE  Step
    BY <1>11, PersonStepStep
  <1>12. ASSUME NEW a \in Attempts,
                DockEmptied(a) \/ ClientEnds(a) \/ WatchdogReads(a) \/ WatchdogActs(a)
         PROVE  Step
    BY <1>12, OutsideStep, WatchdogStep
  <1> QED
    BY <1>1, <1>2, <1>3, <1>4, <1>5, <1>6, <1>7, <1>8, <1>9, <1>10, <1>11, <1>12, CrashStep,
       StutterStep
    DEF Next

-----------------------------------------------------------------------------
(* The theorems. *)

(* Attempts and grabs are for requests that somebody agreed to. *)
Undertaken ==
  /\ \A a \in Made : req[att[a].req] \notin Early
  /\ \A p \in Passes : pass[p].pc # "idle" => req[pass[p].r] \notin Early

(* What is about to be settled has been filed. *)
Copied == \A f \in Filers : filing[f].pc = "settle" => library[att[filing[f].a].req] > 0

Inv == TypeInv /\ Undertaken /\ Copied /\ AvailableHasBook

LEMMA InitInv == Init => Inv
  <1>1. Init => ReqOK /\ AttOK /\ PointerOK /\ DockOK /\ ClientOK /\ LibraryOK /\ TodoOK
    BY DEF Init, ReqOK, AttOK, PointerOK, DockOK, ClientOK, LibraryOK, TodoOK, NoAttempt,
           AttemptRow
  <1>2. Init => PassOK /\ PollOK /\ QueueOK /\ ImportOK /\ FilingOK
    BY DEF Init, PassOK, PollOK, QueueOK, ImportOK, FilingOK, IdlePass, IdlePoll, IdleImport,
           IdleFiling, PassRow, PollRow, ImportRow, FilingRow, Trigger, Remembers, ActiveAttempt
  <1>3. Init => FailingOK /\ HoldingOK /\ PersonOK /\ StaleOK /\ SpentOK
    BY DEF Init, FailingOK, HoldingOK, PersonOK, StaleOK, SpentOK, IdlePerson, PersonRow
  <1>4. Init => Undertaken /\ Copied /\ AvailableHasBook
    BY DEF Init, Undertaken, Made, NoAttempt, IdlePass, Copied, IdleFiling, AvailableHasBook
  <1> QED
    BY <1>1, <1>2, <1>3, <1>4 DEF Inv, TypeInv

(* A request that was agreed to is not asked about again. *)
LEMMA NeverEarly ==
  ASSUME Inv, Step, NEW r \in Requests, req[r] \notin Early
  PROVE  req'[r] \notin Early
  <1>1. ReqOK
    BY DEF Inv, TypeInv
  <1>2. CASE ReqQuiet
    BY <1>1, <1>2
    DEF ReqOK, ReqQuiet, Legal, Early, Agreed, RequestStatus, ActiveRequest
  <1>3. CASE Answers
    BY <1>1, <1>3 DEF ReqOK, Answers, Early
  <1>4. CASE Fulfils
    BY <1>1, <1>4 DEF ReqOK, Fulfils, Early
  <1>5. CASE Arrives
    BY <1>5 DEF Arrives
  <1> QED
    BY <1>2, <1>3, <1>4, <1>5 DEF Step, ReqStep, Quiet

(* A copy in the library stays. *)
LEMMA LibraryGrows ==
  ASSUME Inv, Step, NEW r \in Requests, library[r] > 0
  PROVE  library'[r] > 0
  <1>1. library \in [Requests -> Nat]
    BY DEF Inv, TypeInv, LibraryOK
  <1> QED
    BY <1>1 DEF Step, ReqStep, Quiet, Answers, Arrives, Fulfils

LEMMA NextInv == ASSUME Inv, [Next]_vars PROVE Inv'
  <1>1. Step
    BY EveryStep DEF Inv
  <1>2. TypeInv'
    BY <1>1 DEF Step
  <1>3. Undertaken'
    <2>1. ASSUME NEW a \in Made' PROVE req'[att'[a].req] \notin Early
      <3>1. CASE a \in Made
        <4>1. att'[a].req = att[a].req /\ att[a].req \in Requests
          BY <1>1, <3>1 DEF Step, Grows, Inv, TypeInv, AttOK, Made
        <4>2. req[att[a].req] \notin Early
          BY <3>1 DEF Inv, Undertaken
        <4> QED
          BY <1>1, <4>1, <4>2, NeverEarly
      <3>2. CASE a \notin Made
        <4>1. PICK p \in Passes : pass[p].pc # "idle" /\ att'[a].req = pass[p].r
          BY <1>1, <2>1, <3>2 DEF Step, NewWork
        <4>2. pass[p].r \in Requests /\ req[pass[p].r] \notin Early
          BY <4>1 DEF Inv, TypeInv, PassOK, Undertaken
        <4> QED
          BY <1>1, <4>1, <4>2, NeverEarly
      <3> QED
        BY <3>1, <3>2
    <2>2. ASSUME NEW p \in Passes, pass'[p].pc # "idle"
          PROVE  req'[pass'[p].r] \notin Early
      <3>1. pass'[p].r \in Requests
        BY <1>2, <2>2 DEF TypeInv, PassOK
      <3>2. req[pass'[p].r] \notin Early
        <4>1. CASE pass[p].pc # "idle" /\ pass'[p].r = pass[p].r
          BY <4>1 DEF Inv, Undertaken
        <4>2. CASE req[pass'[p].r] \in Grabbable
          BY <4>2 DEF Grabbable, Early
        <4> QED
          BY <1>1, <2>2, <4>1, <4>2 DEF Step, NewWork
      <3> QED
        BY <1>1, <3>1, <3>2, NeverEarly
    <2> QED
      BY <2>1, <2>2 DEF Undertaken
  <1>4. Copied'
    <2>1. ASSUME NEW f \in Filers, filing'[f].pc = "settle"
          PROVE  library'[att'[filing'[f].a].req] > 0
      <3>1. /\ filing[f].pc # "idle" /\ filing'[f].a = filing[f].a
            /\ filing[f].pc = "settle" \/ library'[att[filing[f].a].req] > 0
        BY <1>1, <2>1 DEF Step, Copies
      <3>2. filing[f].a \in Made
        BY <3>1 DEF Inv, TypeInv, FilingOK
      <3>3. att'[filing[f].a].req = att[filing[f].a].req /\ att[filing[f].a].req \in Requests
        BY <1>1, <3>2 DEF Step, Grows, Inv, TypeInv, AttOK, Made
      <3>4. library'[att[filing[f].a].req] > 0
        BY <1>1, <3>1, <3>3, LibraryGrows DEF Inv, Copied
      <3> QED
        BY <3>1, <3>3, <3>4
    <2> QED
      BY <2>1 DEF Copied
  <1>5. AvailableHasBook'
    <2>1. ASSUME NEW r \in Requests, req'[r] = "available"
          PROVE  r \in byHand' \/ library'[r] > 0
      <3>1. CASE req[r] = "available"
        <4>1. r \in byHand \/ library[r] > 0
          BY <3>1 DEF Inv, AvailableHasBook
        <4>2. byHand \subseteq byHand'
          BY <1>1 DEF Step, ReqStep, Quiet, Answers, Arrives, Fulfils
        <4> QED
          BY <1>1, <4>1, <4>2, LibraryGrows
      <3>2. CASE req[r] # "available"
        <4>1. req \in [Requests -> RequestStatus \cup {"absent"}]
          BY DEF Inv, TypeInv, ReqOK
        <4>2. ~ReqQuiet /\ ~Arrives
          BY <2>1, <3>2, <4>1 DEF ReqQuiet, Arrives
        <4>3. CASE Answers
          <5>1. PICK f \in Filers :
                  /\ filing[f].pc = "settle"
                  /\ req' = [req EXCEPT ![att[filing[f].a].req] = "available"]
            BY <4>3 DEF Answers
          <5>2. r = att[filing[f].a].req
            BY <2>1, <3>2, <4>1, <5>1
          <5>3. library[r] > 0
            BY <5>1, <5>2 DEF Inv, Copied
          <5> QED
            BY <1>1, <5>3, LibraryGrows
        <4>4. CASE Fulfils
          BY <2>1, <3>2, <4>1, <4>4 DEF Fulfils
        <4> QED
          BY <1>1, <4>2, <4>3, <4>4 DEF Step, ReqStep, Quiet
      <3> QED
        BY <3>1, <3>2
    <2> QED
      BY <2>1 DEF AvailableHasBook
  <1> QED
    BY <1>2, <1>3, <1>4, <1>5 DEF Inv

(* Every request, attempt, grab, import and operation is well typed, and    *)
(* whoever works on an attempt works on one that was made.                  *)
THEOREM TypeCorrect == Spec => []TypeOK
  <1>1. Inv => TypeOK
    BY TypeInvTypeOK DEF Inv
  <1> QED
    BY <1>1, InitInv, NextInv, PTL DEF Spec

(* An available request had a copy filed for it or was fulfilled by hand.   *)
THEOREM AvailableHasBookCorrect == Spec => []AvailableHasBook
  <1>1. Inv => AvailableHasBook
    BY DEF Inv
  <1> QED
    BY <1>1, InitInv, NextInv, PTL DEF Spec

(* A request that was cancelled, rejected or fulfilled stays so, whatever   *)
(* grabs, polls, imports, sweeps and people that are still at work write.   *)
THEOREM DecisionsStand == Spec => SettledStays
  <1>1. ASSUME Inv, [Next]_vars
        PROVE  \A r \in Requests : req[r] \in Closed => req'[r] = req[r]
    <2>1. Step /\ ReqOK
      BY <1>1, EveryStep DEF Inv, TypeInv
    <2>2. CASE ReqQuiet
      BY <2>1, <2>2
      DEF ReqOK, ReqQuiet, Legal, Closed, Agreed, RequestStatus, ActiveRequest
    <2>3. CASE Answers
      BY <2>1, <2>3 DEF ReqOK, Answers, Closed, FileableFrom
    <2>4. CASE Fulfils
      BY <2>1, <2>4 DEF ReqOK, Fulfils, Closed, Fulfillable, ActiveRequest
    <2>5. CASE Arrives
      BY <2>5 DEF Arrives
    <2> QED
      BY <2>1, <2>2, <2>3, <2>4, <2>5 DEF Step, ReqStep, Quiet
  <1> QED
    BY <1>1, InitInv, NextInv, PTL DEF Spec, SettledStays

-----------------------------------------------------------------------------
(* The promise to the people who ask. *)

Phase == [r \in Requests |-> PhaseOf(req[r])]
Has == {r \in Requests : r \in byHand \/ library[r] > 0}

LEMMA PhaseSet ==
  ASSUME ReqOK, NEW r \in Requests, NEW t, req' = [req EXCEPT ![r] = t]
  PROVE  Phase' = [Phase EXCEPT ![r] = PhaseOf(t)] /\ Phase[r] = PhaseOf(req[r])
  BY DEF ReqOK, Phase

(* A legal change of status that is no answer is a step of the promise.     *)
LEMMA QuietKept ==
  ASSUME Inv, Quiet
  PROVE  [Promise!Next]_<<Phase, Has>>
  <1>1. Has' = Has
    BY DEF Quiet, Has
  <1>2. CASE UNCHANGED req
    BY <1>1, <1>2 DEF Phase
  <1>3. CASE ~UNCHANGED req
    <2>1. PICK r \in Requests, t \in RequestStatus \ {"available"} :
            req' = [req EXCEPT ![r] = t] /\ Legal(req[r], t)
      BY <1>3 DEF Quiet, ReqQuiet
    <2>2. Phase' = [Phase EXCEPT ![r] = PhaseOf(t)] /\ Phase[r] = PhaseOf(req[r])
      BY <2>1, PhaseSet DEF Inv, TypeInv
    <2>3. Phase \in [Requests -> {PhaseOf(s) : s \in RequestStatus \cup {"absent"}}]
      BY DEF Inv, TypeInv, ReqOK, Phase
    <2>4. CASE PhaseOf(t) = Phase[r]
      BY <1>1, <2>2, <2>3, <2>4
    <2>5. CASE PhaseOf(t) # Phase[r]
      <3>1. \/ Phase[r] = "none" /\ PhaseOf(t) \in {"asked", "agreed"}
            \/ Phase[r] = "asked" /\ PhaseOf(t) \in {"agreed", "refused", "cancelled"}
            \/ Phase[r] = "agreed" /\ PhaseOf(t) = "cancelled"
        BY <2>1, <2>2, <2>5 DEF Legal, PhaseOf, Agreed, RequestStatus, ActiveRequest
      <3>2. Promise!Ask(r) \/ Promise!Agree(r) \/ Promise!Refuse(r) \/ Promise!Cancel(r)
        BY <1>1, <2>2, <3>1
        DEF Phase, Has, Promise!Ask, Promise!Agree, Promise!Refuse, Promise!Cancel,
            Promise!Move, Promise!Live
      <3> QED
        BY <3>2 DEF Promise!Next, Phase, Has
    <2> QED
      BY <2>4, <2>5
  <1> QED
    BY <1>2, <1>3

LEMMA AnswerKept ==
  ASSUME Inv, Answers
  PROVE  [Promise!Next]_<<Phase, Has>>
  <1>1. PICK f \in Filers :
          /\ filing[f].pc = "settle" /\ req[att[filing[f].a].req] \in FileableFrom
          /\ req' = [req EXCEPT ![att[filing[f].a].req] = "available"]
    BY DEF Answers
  <1>2. PICK r \in Requests : r = att[filing[f].a].req
    BY <1>1 DEF Inv, TypeInv, FilingOK, AttOK, Made
  <1>3. r \in Has /\ Has' = Has
    BY <1>1, <1>2 DEF Inv, Copied, Answers, Has
  <1>4. Phase' = [Phase EXCEPT ![r] = "answered"] /\ Phase[r] = "agreed"
    BY <1>1, <1>2, PhaseSet DEF Inv, TypeInv, PhaseOf, FileableFrom
  <1>5. Promise!Answer(r)
    BY <1>3, <1>4 DEF Phase, Has, Promise!Answer, Promise!Move
  <1> QED
    BY <1>5 DEF Promise!Next

LEMMA ArriveKept ==
  ASSUME Inv, Arrives
  PROVE  [Promise!Next]_<<Phase, Has>>
  <1>1. PICK a \in Made : library' = [library EXCEPT ![att[a].req] = @ + 1]
    BY DEF Arrives
  <1>2. PICK r \in Requests : r = att[a].req
    BY DEF Inv, TypeInv, AttOK, Made
  <1>3. req[r] \notin Early /\ UNCHANGED <<req, byHand>>
    BY <1>2 DEF Inv, Undertaken, Arrives
  <1>4. Has' = Has \cup {r}
    BY <1>1, <1>2, <1>3 DEF Inv, TypeInv, LibraryOK, Has
  <1>5. Phase[r] \notin {"none", "asked", "refused"} /\ Phase' = Phase
    BY <1>3 DEF Phase, PhaseOf, Early
  <1>6. Promise!Arrive(r)
    BY <1>4, <1>5 DEF Phase, Has, Promise!Arrive
  <1> QED
    BY <1>6 DEF Promise!Next

LEMMA FulfilKept ==
  ASSUME Inv, Fulfils
  PROVE  [Promise!Next]_<<Phase, Has>>
  <1>1. PICK r \in Requests :
          /\ req[r] \in Fulfillable
          /\ req' = [req EXCEPT ![r] = "available"]
          /\ byHand' = byHand \cup {r}
    BY DEF Fulfils
  <1>2. Has' = Has \cup {r}
    BY <1>1 DEF Fulfils, Has
  <1>3. Phase' = [Phase EXCEPT ![r] = "answered"] /\ Phase[r] \in {"asked", "agreed"}
    BY <1>1, PhaseSet DEF Inv, TypeInv, PhaseOf, Fulfillable, ActiveRequest
  <1>4. Promise!Fulfil(r)
    BY <1>2, <1>3 DEF Phase, Has, Promise!Fulfil, Promise!Move, Promise!Live
  <1> QED
    BY <1>4 DEF Promise!Next

(* What Requests does implements RequestPromise: nothing is fetched for a   *)
(* request nobody agreed to, what is over stays over, and a request is      *)
(* answered by a book in the library or by somebody's hand.                 *)
THEOREM PromiseKept == Spec => KeepsPromise
  <1>1. Init => Promise!Init
    <2>1. ASSUME Init PROVE Promise!Init
      <3>1. Phase = [r \in Requests |-> "none"]
        BY <2>1 DEF Init, Phase, PhaseOf
      <3>2. Has = {}
        BY <2>1 DEF Init, Has
      <3> QED
        BY <3>1, <3>2 DEF Promise!Init, Phase, Has
    <2> QED
      BY <2>1
  <1>2. Inv /\ [Next]_vars => [Promise!Next]_<<Phase, Has>>
    <2>1. ASSUME Inv, [Next]_vars PROVE [Promise!Next]_<<Phase, Has>>
      <3>1. Quiet \/ Answers \/ Arrives \/ Fulfils
        BY <2>1, EveryStep DEF Inv, Step, ReqStep
      <3> QED
        BY <2>1, <3>1, QuietKept, AnswerKept, ArriveKept, FulfilKept
    <2> QED
      BY <2>1
  <1> QED
    BY <1>1, <1>2, InitInv, NextInv, PTL DEF Spec, KeepsPromise, Promise!Spec, Phase, Has

-----------------------------------------------------------------------------
(* One grab, one claim, one budget.                                         *)
(*                                                                          *)
(* These hold while nothing of what the environment may do breaks in:       *)
(* nobody stops a transfer, no client takes a release and then answers with *)
(* an error, no watchdog finds work going on, the Book Dock refuses no      *)
(* discard, and no restart cuts an operation of a person in two.            *)
Orderly ==
  /\ MaxStops = 0 /\ MaxLate = 0 /\ MaxTimeouts = 0 /\ MaxUndone = 0
  /\ MaxCrashes = 0 \/ Persons = {}

(* A grab between its claim of the request and the client's yes.            *)
Holds(p) == \/ pass[p].pc \in {"resolve", "refuse", "rollback"}
            \/ pass[p].pc = "add" /\ ~pass[p].took
Sending(p) == pass[p].pc \in {"add", "refuse"}

(* An attempt is engaged while it, or what follows from it, is not settled.  *)
Importing(a) == \E i \in Importers : import[i].pc # "idle" /\ import[i].a = a
Engaged(a) == att[a].status \in Unsettled \/ a \in failing \/ Importing(a)
Unplaced(a) == dock[a] \in {"none", "reserved"}
(* Between the two updates of a discard.                                    *)
Declining(r) == \E p \in Persons : person[p].pc = "decline" /\ person[p].r = r

(* Where a request may be while an attempt is engaged.                       *)
Taken == {"grabbed", "downloading", "importing", "needs_review"} \cup Closed

(* People do only what the bounds leave them.                               *)
Direct ==
  \A p \in Persons : person[p].op # "stop" /\ person[p].pc \notin {"reopen", "undo", "restore"}

(* At most one pair of updates is half done.                                *)
OneHalf ==
  /\ \A x, y \in holding : x = y
  /\ holding # {} => failing = {}
  /\ \A p \in Persons : person[p].pc = "decline" =>
       /\ failing = {} /\ holding = {}
       /\ \A q \in Persons : person[q].pc = "decline" => q = p
       /\ req[person[p].r] = "failed"
       /\ \A r \in Requests : BookOf[r] = BookOf[person[p].r] => req[r] \notin ActiveRequest

(* What is half done, what is polled, and what is imported: the attempt is  *)
(* in the status that goes with it.                                         *)
Pending ==
  /\ \A a \in failing : att[a].status = "failed" /\ ~Importing(a)
  /\ \A x \in holding : att[x[1]].status = "needs_review"

Polled ==
  \A a \in Attempts :
    /\ poll[a].pc = "move" => att[a].status \in {"downloading", "completed"}
    /\ poll[a].pc = "asked" =>
         att[a].status \in ActiveAttempt \cup {"failed", "imported"} /\ ~Importing(a)

ImportsFit ==
  /\ import["queue"].pc # "idle" /\ import["chosen"].pc # "idle" =>
       import["queue"].a # import["chosen"].a
  /\ \A i \in Importers : import[i].pc # "idle" =>
       /\ att[import[i].a].status \in {"completed", "importing", "failed", "imported"}
       /\ i = "chosen" \/ import[i].pc = "place" => att[import[i].a].status # "completed"
       /\ Unplaced(import[i].a) /\ filing[import[i].a].pc = "idle"

(* An attempt has an entry in the Book Dock once it was imported, ...        *)
Entries ==
  \A a \in Attempts :
    /\ att[a].status \in {"absent", "completed"} \cup ActiveAttempt => Unplaced(a)
    /\ att[a].status = "needs_review" /\ att[a].units => Unplaced(a)
    /\ filing[a].pc # "idle" =>
         /\ filing[a].a = a /\ filing[a].file = a
         /\ att[a].status \in {"importing", "imported", "failed"}

(* ... and the client knows only attempts that were made.                   *)
Fresh == \A a \in Attempts : att[a].status = "absent" => client[a] = "none"

(* The attempt a grab sends is its own, and nobody works on it before the    *)
(* client has it.                                                           *)
Added ==
  \A p \in Passes : Sending(p) =>
    /\ att[pass[p].a].req = pass[p].r
    /\ Holds(p) => /\ client[pass[p].a] = "none"
                   /\ att[pass[p].a].status \in {"queued", "failed", "imported"}
                   /\ pass[p].a \notin failing /\ ~Importing(pass[p].a)
    /\ \A q \in Passes : Sending(q) /\ pass[q].a = pass[p].a => q = p

(* Whoever is engaged has the request, alone among the attempts; so has a   *)
(* grab that holds it, alone among the grabs; and one request is active at  *)
(* a time for a book.                                                       *)
Claims == \A a \in Made :
  /\ att[a].status \in ActiveAttempt => req[att[a].req] \in ActiveTransferRequest \cup Closed
  /\ Engaged(a) => req[att[a].req] \in Taken \/ Declining(att[a].req)
OneEngaged == \A a, b \in Made : Engaged(a) /\ Engaged(b) /\ att[a].req = att[b].req => a = b
HoldsClaim == \A p \in Passes : Holds(p) => req[pass[p].r] \in {"grabbed"} \cup Closed
OneHolds == \A p, q \in Passes : Holds(p) /\ Holds(q) /\ pass[p].r = pass[q].r => p = q
HoldsAlone == \A p \in Passes, a \in Made : Holds(p) /\ Engaged(a) /\ att[a].req = pass[p].r =>
  Sending(p) /\ pass[p].a = a
OneActive == \A r, q \in Requests : r # q /\ BookOf[r] = BookOf[q] =>
  ~(req[r] \in ActiveRequest /\ req[q] \in ActiveRequest)

(* What automation may still do for a request: entries of todo, passes, and *)
(* attempts that may fail.  There is one of them at a time (OneToken), and  *)
(* a pass has counted what was spent (Counted).                             *)
Automates(p) == pass[p].pc # "idle" /\ pass[p].why # "hand"
           /\ ~(pass[p].pc = "add" /\ pass[p].took)
AutoEngaged(a) == att[a].auto /\ Engaged(a)
OneToken ==
  /\ \A t, u \in todo : t[1] = u[1] => t = u
  /\ \A t \in todo, p \in Passes : Automates(p) => pass[p].r # t[1]
  /\ \A t \in todo, a \in Made : AutoEngaged(a) => att[a].req # t[1]
  /\ \A p, q \in Passes : Automates(p) /\ Automates(q) /\ pass[p].r = pass[q].r => p = q
  /\ \A p \in Passes, a \in Made : Automates(p) /\ AutoEngaged(a) /\ pass[p].r = att[a].req =>
       Sending(p) /\ pass[p].a = a
Counted ==
  \A p \in Passes : Automates(p) =>
    /\ Automated(pass[p].r) <= pass[p].spent
    /\ pass[p].pc \in {"claim", "resolve"} => Automated(pass[p].r) < pass[p].spent
    /\ pass[p].pc \in {"search", "grab"} => pass[p].spent < AutoLimit
    /\ pass[p].pc # "read" => pass[p].spent <= AutoLimit
(* Nobody is asked to fetch what nobody has agreed to.                       *)
Unasked == \A t \in todo : req[t[1]] \notin Early

Core ==
  /\ Direct /\ OneHalf /\ Pending /\ Polled /\ ImportsFit /\ Entries /\ Added
  /\ Fresh /\ Claims /\ OneEngaged /\ HoldsClaim /\ OneHolds /\ HoldsAlone /\ OneActive
Order == Orderly /\ TypeInv /\ Core

(* Nothing is pending. *)
Whole ==
  /\ failing = {} /\ holding = {} /\ \A a \in Attempts : poll[a].pc # "move"
  /\ \A p \in Persons : person[p].pc # "decline"

LEMMA NotHalfway == ASSUME ~Halfway PROVE Whole
  BY DEF Halfway, Whole

(* What a part of the invariant does not speak of does not disturb it. *)
LEMMA Frames ==
  ASSUME Core, UNCHANGED att
  PROVE  /\ UNCHANGED person => Direct'
         /\ UNCHANGED <<holding, failing, person, req>> => OneHalf'
         /\ UNCHANGED <<failing, holding, import>> => Pending'
         /\ UNCHANGED <<poll, import>> => Polled'
         /\ UNCHANGED <<import, dock, filing>> => ImportsFit'
         /\ UNCHANGED <<dock, filing>> => Entries'
         /\ UNCHANGED client => Fresh'
         /\ UNCHANGED <<pass, client, failing, import>> => Added'
         /\ UNCHANGED <<import, failing>> => OneEngaged'
         /\ UNCHANGED <<pass, import, failing>> => HoldsAlone'
  <1>1. Direct /\ OneHalf /\ Pending /\ Polled /\ ImportsFit /\ Entries /\ Added
        /\ OneEngaged /\ HoldsAlone /\ Fresh
    BY DEF Core
  <1>2. UNCHANGED person => Direct'
    BY <1>1 DEF Direct
  <1>3. UNCHANGED <<holding, failing, person, req>> => OneHalf'
    BY <1>1 DEF OneHalf
  <1>4. UNCHANGED <<failing, holding, import>> => Pending'
    BY <1>1 DEF Pending, Importing
  <1>5. UNCHANGED <<poll, import>> => Polled'
    BY <1>1 DEF Polled, Importing
  <1>6. UNCHANGED <<import, dock, filing>> => ImportsFit'
    BY <1>1 DEF ImportsFit, Unplaced
  <1>7. UNCHANGED <<dock, filing>> => Entries'
    BY <1>1 DEF Entries, Unplaced
  <1>8. UNCHANGED <<pass, client, failing, import>> => Added'
    BY <1>1 DEF Added, Sending, Holds, Importing
  <1>9. UNCHANGED <<import, failing>> => OneEngaged'
    BY <1>1 DEF OneEngaged, Engaged, Importing, Made
  <1>10. UNCHANGED <<pass, import, failing>> => HoldsAlone'
    BY <1>1 DEF HoldsAlone, Holds, Engaged, Importing, Sending, Made
  <1>11. UNCHANGED client => Fresh'
    BY <1>1 DEF Fresh
  <1> QED
    BY <1>2, <1>3, <1>4, <1>5, <1>6, <1>7, <1>8, <1>9, <1>10, <1>11

(* No new claims: nobody becomes engaged, and no grab holds what it did not. *)
Calmer ==
  /\ Keeps
  /\ \A a \in Made : Engaged(a)' => Engaged(a)
HoldsOn ==
  \A p \in Passes : Holds(p)' =>
    /\ Holds(p) /\ pass'[p].r = pass[p].r
    /\ Sending(p) => \/ Sending(p)' /\ pass'[p].a = pass[p].a
                     \/ \A a \in Made : a = pass[p].a => ~Engaged(a)'

LEMMA CalmClaims ==
  ASSUME Core, Calmer, HoldsOn
  PROVE  OneEngaged' /\ OneHolds' /\ HoldsAlone'
  <1>1. Made' = Made /\ \A a \in Made : att'[a].req = att[a].req
    BY KeepsGrows DEF Calmer, Grows
  <1>2. OneEngaged'
    <2> SUFFICES ASSUME NEW a \in Made', NEW b \in Made', Engaged(a)', Engaged(b)',
                        att'[a].req = att'[b].req
                 PROVE  a = b
      BY DEF OneEngaged
    <2>1. Engaged(a) /\ Engaged(b) /\ a \in Made /\ b \in Made /\ att[a].req = att[b].req
      BY <1>1 DEF Calmer
    <2> QED
      BY <2>1 DEF Core, OneEngaged
  <1>3. OneHolds'
    <2> SUFFICES ASSUME NEW p \in Passes, NEW q \in Passes, Holds(p)', Holds(q)',
                        pass'[p].r = pass'[q].r
                 PROVE  p = q
      BY DEF OneHolds
    <2>1. Holds(p) /\ Holds(q) /\ pass[p].r = pass[q].r
      BY DEF HoldsOn
    <2> QED
      BY <2>1 DEF Core, OneHolds
  <1>4. HoldsAlone'
    <2> SUFFICES ASSUME NEW p \in Passes, NEW a \in Made', Holds(p)', Engaged(a)',
                        att'[a].req = pass'[p].r
                 PROVE  Sending(p)' /\ pass'[p].a = a
      BY DEF HoldsAlone
    <2>1. Holds(p) /\ Engaged(a) /\ a \in Made /\ att[a].req = pass[p].r
      BY <1>1 DEF Calmer, HoldsOn
    <2>2. Sending(p) /\ pass[p].a = a
      BY <2>1 DEF Core, HoldsAlone
    <2> QED
      BY <2>1, <2>2 DEF HoldsOn
  <1> QED
    BY <1>2, <1>3, <1>4

LEMMA SameHolds == ASSUME UNCHANGED pass PROVE HoldsOn
  BY DEF HoldsOn, Holds, Sending

(* Requests that move. *)
LEMMA MoveCases ==
  ASSUME ReqOK, NEW r \in Requests, NEW e, NEW n, MoveRequest(r, e, n)
  PROVE  UNCHANGED req \/ (req[r] \in e /\ req' = [req EXCEPT ![r] = n])
  <1>1. CASE req[r] \in e
    BY <1>1 DEF MoveRequest, UpdateIf
  <1>2. CASE req[r] \notin e
    <2>1. req' = [req EXCEPT ![r] = req[r]]
      BY <1>2 DEF MoveRequest, UpdateIf
    <2>2. req' = req
      BY <2>1 DEF ReqOK
    <2> QED
      BY <2>2
  <1> QED
    BY <1>1, <1>2

LEMMA MoveActive ==
  ASSUME ReqOK, OneActive, NEW r \in Requests, NEW n, req' = [req EXCEPT ![r] = n],
         n \notin ActiveRequest \/ req[r] \in ActiveRequest \/ ~Clash(r, n)
  PROVE  OneActive'
  BY DEF ReqOK, OneActive, Clash

(* Whoever is still engaged, or still holds, keeps its request.             *)
ReqKeeps ==
  /\ OneActive'
  /\ \A a \in Made : Engaged(a)' /\ req[att[a].req] \in Taken => req'[att[a].req] \in Taken
  /\ \A a \in Made :
       att'[a].status \in ActiveAttempt /\ req[att[a].req] \in ActiveTransferRequest \cup Closed =>
       req'[att[a].req] \in ActiveTransferRequest \cup Closed
  /\ \A p \in Passes : Holds(p)' /\ req[pass[p].r] \in {"grabbed"} \cup Closed =>
       req'[pass[p].r] \in {"grabbed"} \cup Closed

LEMMA SameReqKeeps == ASSUME Core, UNCHANGED req PROVE ReqKeeps
  BY DEF Core, ReqKeeps, OneActive

(* A request that nobody has taken moves, or one is closed. *)
LEMMA MoveKeeps ==
  ASSUME ReqOK, Core, NEW r \in Requests, NEW n, req' = [req EXCEPT ![r] = n],
         n \notin ActiveRequest \/ req[r] \in ActiveRequest \/ ~Clash(r, n),
         n \in Closed \/ req[r] \notin Taken
  PROVE  ReqKeeps
  <1>1. OneActive'
    BY MoveActive DEF Core
  <1>2. Closed \subseteq Taken /\ ActiveTransferRequest \subseteq Taken /\ "grabbed" \in Taken
    BY DEF Taken, ActiveTransferRequest
  <1>3. \A q : req[q] \in Taken => req'[q] = req[q] \/ req'[q] \in Closed
    BY DEF ReqOK
  <1> QED
    BY <1>1, <1>2, <1>3 DEF ReqKeeps

(* A request is released that nobody holds any longer. *)
LEMMA ReleaseKeeps ==
  ASSUME ReqOK, Core, NEW r \in Requests, NEW n, req' = [req EXCEPT ![r] = n],
         n \notin ActiveRequest \/ req[r] \in ActiveRequest,
         \A a \in Made : Engaged(a)' => att[a].req # r,
         \A p \in Passes : Holds(p)' => pass[p].r # r
  PROVE  ReqKeeps
  <1>1. OneActive'
    BY MoveActive DEF Core
  <1>2. \A q : q # r => req'[q] = req[q]
    BY DEF ReqOK
  <1>3. \A a \in Made : att'[a].status \in ActiveAttempt => Engaged(a)'
    BY DEF Engaged, Unsettled, InFlight
  <1> QED
    BY <1>1, <1>2, <1>3 DEF ReqKeeps

LEMMA KeepsClaims ==
  ASSUME TypeInv, Core, Calmer, HoldsOn, ReqKeeps,
         \A a \in Made : att'[a].status \in ActiveAttempt => att[a].status \in ActiveAttempt,
         \A r \in Requests : Declining(r) => Declining(r)' \/ \A a \in Made :
            Engaged(a)' /\ att[a].req = r => req'[r] \in Taken
  PROVE  /\ Claims' /\ HoldsClaim' /\ OneActive'
         /\ OneEngaged' /\ OneHolds' /\ HoldsAlone'
  <1>1. Made' = Made /\ \A a \in Made : att'[a].req = att[a].req /\ att[a].req \in Requests
    BY KeepsGrows DEF Calmer, Grows, TypeInv, AttOK, Made
  <1>2. Claims'
    <2> SUFFICES ASSUME NEW a \in Made
                 PROVE  /\ att'[a].status \in ActiveAttempt =>
                             req'[att[a].req] \in ActiveTransferRequest \cup Closed
                        /\ Engaged(a)' => \/ req'[att[a].req] \in Taken
                                          \/ Declining(att[a].req)'
      BY <1>1, Zenon DEF Claims
    <2>1. att'[a].status \in ActiveAttempt =>
            req'[att[a].req] \in ActiveTransferRequest \cup Closed
      BY <1>1 DEF Core, Claims, ReqKeeps
    <2>2. ASSUME Engaged(a)'
          PROVE  req'[att[a].req] \in Taken \/ Declining(att[a].req)'
      <3>1. Engaged(a)
        BY <2>2 DEF Calmer
      <3>2. req[att[a].req] \in Taken \/ Declining(att[a].req)
        BY <3>1 DEF Core, Claims
      <3> QED
        BY <1>1, <2>2, <3>2 DEF ReqKeeps
    <2> QED
      BY <2>1, <2>2
  <1>3. HoldsClaim'
    <2> SUFFICES ASSUME NEW p \in Passes, Holds(p)'
                 PROVE  req'[pass'[p].r] \in {"grabbed"} \cup Closed
      BY DEF HoldsClaim
    <2>1. Holds(p) /\ pass'[p].r = pass[p].r
      BY DEF HoldsOn
    <2> QED
      BY <2>1 DEF Core, HoldsClaim, ReqKeeps
  <1> QED
    BY <1>2, <1>3, CalmClaims DEF ReqKeeps

LEMMA StillWhole ==
  ASSUME failing' = {}, holding' = {}, \A p \in Persons : person'[p].pc # "decline"
  PROVE  OneHalf' /\ Pending'
  BY DEF OneHalf, Pending

LEMMA NoDeclining == ASSUME Whole, NEW r PROVE ~Declining(r)
  BY DEF Whole, Declining

LEMMA SameCalm ==
  ASSUME TypeInv, UNCHANGED <<att, import, failing>>
  PROVE  Calmer
  BY SameKeeps DEF TypeInv, Calmer, Engaged, Importing

(* Steps that only move requests. *)
LEMMA ReqOnly ==
  ASSUME TypeInv, Core, Whole, ReqKeeps,
         UNCHANGED <<att, pass, import, failing, holding, poll, filing, dock, client, person>>
  PROVE  Core'
  <1>1. OneHalf' /\ Pending'
    BY StillWhole DEF Whole
  <1>2. Calmer /\ HoldsOn
    BY SameCalm, SameHolds
  <1>3. Claims' /\ HoldsClaim' /\ OneActive' /\ OneEngaged' /\ OneHolds' /\ HoldsAlone'
    BY <1>2, KeepsClaims, NoDeclining
  <1> QED
    BY <1>1, <1>3, Frames DEF Core

LEMMA SubmitCore == ASSUME TypeInv, Core, Whole, NEW r \in Requests, Submit(r) PROVE Core'
  <1>1. PICK n \in {"pending", "approved"} : req' = [req EXCEPT ![r] = n]
    BY DEF Submit
  <1>2. req[r] = "absent" /\ ~Clash(r, n)
    BY DEF Submit, Clash, ActiveRequest
  <1>3. ReqKeeps
    BY <1>1, <1>2, MoveKeeps DEF TypeInv, Taken, Closed
  <1> QED
    BY <1>3, ReqOnly DEF Submit, outside, work

LEMMA DecideCore ==
  ASSUME TypeInv, Core, Whole, NEW r \in Requests,
         Approve(r) \/ Reject(r) \/ ListForResearch(r)
  PROVE  Core'
  <1>1. \/ UNCHANGED req
        \/ \E n \in {"approved", "rejected"} : MoveRequest(r, {"pending"}, n)
    BY DEF Approve, Reject, ListForResearch, rows
  <1>2. ReqKeeps
    BY <1>1, SameReqKeeps, MoveCases, MoveKeeps DEF TypeInv, Taken, Closed, ActiveRequest
  <1> QED
    BY <1>2, ReqOnly DEF Approve, Reject, ListForResearch, outside, work, rows

LEMMA SweepCore ==
  ASSUME TypeInv, Core, Whole, NEW r \in Requests, ReleaseStranded(r) \/ AbandonSelfServe(r)
  PROVE  Core'
  <1>1. \/ MoveRequest(r, {"searching"}, "approved")
        \/ MoveRequest(r, Abandonable, "cancelled")
    BY DEF ReleaseStranded, AbandonSelfServe
  <1>2. ReqKeeps
    BY <1>1, SameReqKeeps, MoveCases, MoveKeeps
    DEF TypeInv, Taken, Closed, ActiveRequest, Abandonable
  <1> QED
    BY <1>2, ReqOnly DEF ReleaseStranded, AbandonSelfServe, outside, work

(* Steps of a pass that make no attempt and lose none. *)
SendsOn ==
  \A p \in Passes : Sending(p)' =>
    /\ Sending(p) /\ pass'[p].r = pass[p].r /\ pass'[p].a = pass[p].a
    /\ Holds(p)' => Holds(p)

LEMMA AddedOn ==
  ASSUME Core, SendsOn, UNCHANGED <<att, client, import, failing>>
  PROVE  Added'
  <1> SUFFICES ASSUME NEW p \in Passes, Sending(p)'
               PROVE  /\ att'[pass'[p].a].req = pass'[p].r
                      /\ Holds(p)' => /\ client'[pass'[p].a] = "none"
                                      /\ att'[pass'[p].a].status \in {"queued", "failed", "imported"}
                                      /\ pass'[p].a \notin failing' /\ ~Importing(pass[p].a)
                      /\ \A q \in Passes : Sending(q)' /\ pass'[q].a = pass'[p].a => q = p
    BY DEF Added, SendsOn, Importing
  <1> QED
    BY DEF Core, Added, SendsOn

LEMMA PassOnly ==
  ASSUME TypeInv, Core, Whole, UNCHANGED <<att, client, passFrame>>, HoldsOn, SendsOn, ReqKeeps
  PROVE  Core'
  <1>1. UNCHANGED <<dock, import, filing, failing, holding, poll, person>>
    BY DEF passFrame, work
  <1>2. OneHalf' /\ Pending'
    BY <1>1, StillWhole DEF Whole
  <1>3. Calmer
    BY <1>1, SameCalm
  <1>4. Claims' /\ HoldsClaim' /\ OneActive' /\ OneEngaged' /\ OneHolds' /\ HoldsAlone'
    BY <1>3, KeepsClaims, NoDeclining
  <1> QED
    BY <1>1, <1>2, <1>4, Frames, AddedOn DEF Core

(* A pass that holds nothing when it has taken its step. *)
LEMMA LooseOn ==
  ASSUME TypeInv, NEW p \in Passes, NEW record, Become(p, record),
         record.pc \in {"idle", "read", "search", "grab", "claim", "giveup"}
  PROVE  HoldsOn /\ SendsOn /\ ~Holds(p)' /\ \A q \in Passes \ {p} : pass'[q] = pass[q]
  <1>1. pass' = [pass EXCEPT ![p] = record] /\ pass \in [Passes -> PassRow]
    BY DEF Become, TypeInv, PassOK
  <1> QED
    BY <1>1 DEF HoldsOn, SendsOn, Holds, Sending

LEMMA GotoBecomes ==
  ASSUME TypeInv, NEW p \in Passes, NEW pc, Goto(p, pc)
  PROVE  Become(p, [pass[p] EXCEPT !.pc = pc]) /\ [pass[p] EXCEPT !.pc = pc].pc = pc
  <1>1. pass \in [Passes -> PassRow] /\ pass[p] \in PassRow
    BY DEF TypeInv, PassOK
  <1> QED
    BY <1>1 DEF Goto, Become, PassRow

LEMMA LooseGoto ==
  ASSUME TypeInv, NEW p \in Passes, NEW pc \in {"search", "grab", "giveup"},
         Leave(p) \/ Goto(p, pc)
  PROVE  HoldsOn /\ SendsOn /\ ~Holds(p)' /\ \A q \in Passes \ {p} : pass'[q] = pass[q]
  <1>1. CASE Leave(p)
    BY <1>1, LooseOn DEF Leave, IdlePass
  <1>2. CASE Goto(p, pc)
    <2> DEFINE record == [pass[p] EXCEPT !.pc = pc]
    <2>1. Become(p, record) /\ record.pc = pc
      BY <1>2, GotoBecomes
    <2> HIDE DEF record
    <2> QED
      BY <2>1, LooseOn
  <1> QED
    BY <1>1, <1>2

LEMMA LooseEnd ==
  ASSUME TypeInv, NEW p \in Passes, NEW another, NotStarted(p, another)
  PROVE  HoldsOn /\ SendsOn /\ ~Holds(p)' /\ \A q \in Passes \ {p} : pass'[q] = pass[q]
  <1>1. Leave(p) \/ Goto(p, "grab") \/ Goto(p, "giveup")
    BY DEF NotStarted
  <1> QED
    BY <1>1, LooseGoto

LEMMA StartPassCore ==
  ASSUME TypeInv, Core, Whole, NEW p \in Passes, RunTodo(p) \/ GrabByHand(p)
  PROVE  Core'
  <1>1. HoldsOn /\ SendsOn
    <2>1. CASE UNCHANGED pass
      BY <2>1 DEF HoldsOn, SendsOn, Holds, Sending
    <2>2. ASSUME NEW r, NEW why, StartPass(p, r, why)
          PROVE  HoldsOn /\ SendsOn
      BY <2>2, LooseOn DEF StartPass, IdlePass
    <2>3. ASSUME NEW r, Become(p, [IdlePass EXCEPT !.pc = "grab", !.r = r])
          PROVE  HoldsOn /\ SendsOn
      BY <2>3, LooseOn DEF IdlePass
    <2> QED
      BY <2>1, <2>2, <2>3 DEF RunTodo, GrabByHand
  <1>2. ReqKeeps
    BY SameReqKeeps DEF RunTodo, GrabByHand
  <1> QED
    BY <1>1, <1>2, PassOnly DEF RunTodo, GrabByHand

LEMMA SearchCore ==
  ASSUME TypeInv, Core, Whole, NEW p \in Passes, ClaimSearch(p) \/ SearchEnds(p) \/ GiveUp(p)
  PROVE  Core'
  <1>1. pass[p].r \in Requests /\ (pass[p].pc = "read" => pass[p].prev \in Grabbable)
    BY DEF ClaimSearch, SearchEnds, GiveUp, TypeInv, PassOK, Remembers
  <1>2. HoldsOn /\ SendsOn
    BY LooseGoto DEF ClaimSearch, SearchEnds, GiveUp
  <1>3. \/ UNCHANGED req
        \/ \E n \in {"approved", "searching"} :
             /\ ~Clash(pass[p].r, n) /\ pass[p].pc = "read"
             /\ MoveRequest(pass[p].r, {pass[p].prev}, n)
        \/ \E n \in {"approved", "failed"} : MoveRequest(pass[p].r, {"searching"}, n)
    BY DEF ClaimSearch, SearchEnds, GiveUp
  <1>4. ReqKeeps
    BY <1>1, <1>3, SameReqKeeps, MoveCases, MoveKeeps
    DEF TypeInv, Taken, Closed, ActiveRequest, Grabbable
  <1> QED
    BY <1>2, <1>4, PassOnly DEF ClaimSearch, SearchEnds, GiveUp

LEMMA ReadForGrabCore ==
  ASSUME TypeInv, Core, Whole, NEW p \in Passes, ReadForGrab(p)
  PROVE  Core'
  <1>1. HoldsOn /\ SendsOn
    <2> DEFINE record == [pass[p] EXCEPT !.pc = "claim", !.prev = req[pass[p].r], !.spent = @ + 1]
    <2>1. pass[p] \in PassRow
      BY DEF TypeInv, PassOK
    <2>2. record.pc = "claim"
      BY <2>1 DEF PassRow
    <2>3. Become(p, record) \/ NotStarted(p, FALSE)
      BY DEF ReadForGrab
    <2> HIDE DEF record
    <2> QED
      BY <2>2, <2>3, LooseOn, LooseEnd
  <1> QED
    BY <1>1, SameReqKeeps, PassOnly DEF ReadForGrab

LEMMA RollbackCore ==
  ASSUME TypeInv, Core, Whole, NEW p \in Passes, Rollback(p)
  PROVE  Core'
  <1>1. pass[p].pc = "rollback" /\ pass[p].r \in Requests /\ pass[p].prev \in Grabbable
    BY DEF Rollback, TypeInv, PassOK, Remembers
  <1>2. PICK another : NotStarted(p, another)
    BY DEF Rollback
  <1>3. HoldsOn /\ SendsOn /\ ~Holds(p)' /\ \A q \in Passes \ {p} : pass'[q] = pass[q]
    BY <1>2, LooseEnd
  <1>4. Holds(p) /\ ~Sending(p)
    BY <1>1 DEF Holds, Sending
  <1>5. \A q \in Passes : Holds(q)' => pass[q].r # pass[p].r
    BY <1>3, <1>4 DEF Core, OneHolds, HoldsOn
  <1>6. \A a \in Made : ~Engaged(a) \/ att[a].req # pass[p].r
    BY <1>4 DEF Core, HoldsAlone
  <1>7. UNCHANGED <<att, import, failing>>
    BY DEF Rollback, passFrame, work
  <1>8. \A a \in Made : Engaged(a)' => att[a].req # pass[p].r
    BY <1>6, <1>7 DEF Engaged, Importing
  <1>9. ReqKeeps
    BY <1>1, <1>5, <1>8, SameReqKeeps, MoveCases, ReleaseKeeps
    DEF Rollback, TypeInv, ActiveRequest
  <1> QED
    BY <1>3, <1>9, PassOnly DEF Rollback

LEMMA ClaimForGrabCore ==
  ASSUME TypeInv, Core, Whole, NEW p \in Passes, ClaimForGrab(p)
  PROVE  Core'
  <1> DEFINE r == pass[p].r
  <1>1. pass[p].pc = "claim" /\ r \in Requests
    BY DEF ClaimForGrab, TypeInv, PassOK
  <1>2. CASE req[r] \in Grabbable /\ ~Clash(r, "grabbed")
    <2>1. req' = [req EXCEPT ![r] = "grabbed"]
      BY <1>1, <1>2 DEF ClaimForGrab, MoveRequest, UpdateIf
    <2>2. pass' = [pass EXCEPT ![p].pc = "resolve"] /\ pass \in [Passes -> PassRow]
      BY <1>2 DEF ClaimForGrab, Goto, TypeInv, PassOK
    <2>3. UNCHANGED <<att, client, dock, import, filing, failing, holding, poll, person>>
      BY DEF ClaimForGrab, passFrame, work
    <2>4. ReqKeeps
      BY <1>1, <1>2, <2>1, MoveKeeps DEF TypeInv, Grabbable, Taken, Closed
    <2>5. \A q \in Passes \ {p} : pass'[q] = pass[q]
      BY <2>2
    <2>6. pass'[p].pc = "resolve" /\ pass'[p].r = r
      BY <2>2 DEF PassRow
    <2>7. \A q \in Passes : Holds(q) => pass[q].r # r
      BY <1>2 DEF Core, HoldsClaim, Grabbable, Closed
    <2>8. \A a \in Made : Engaged(a) => att[a].req # r
      BY <1>2, NoDeclining DEF Core, Claims, Grabbable, Taken, Closed
    <2>9. Made' = Made /\ \A a : (Engaged(a)' <=> Engaged(a)) /\ att'[a] = att[a]
      BY <2>3 DEF Made, Engaged, Importing
    <2>10. \A q \in Passes \ {p} : (Holds(q)' <=> Holds(q)) /\ (Sending(q)' <=> Sending(q))
      BY <2>5 DEF Holds, Sending
    <2>11. OneHolds'
      BY <2>5, <2>6, <2>7, <2>10 DEF OneHolds, Core
    <2>12. HoldsAlone'
      BY <2>5, <2>6, <2>8, <2>9, <2>10 DEF HoldsAlone, Core
    <2>13. HoldsClaim'
      <3>1. req'[r] = "grabbed" /\ \A q \in Requests : q # r => req'[q] = req[q]
        BY <1>1, <2>1 DEF TypeInv, ReqOK
      <3>2. \A q \in Passes : Holds(q) => pass[q].r \in Requests
        BY DEF Holds, TypeInv, PassOK
      <3> QED
        BY <2>5, <2>6, <2>7, <2>10, <3>1, <3>2 DEF HoldsClaim, Core
    <2>14. Claims'
      <3>1. \A a \in Made : att[a].status \in ActiveAttempt => Engaged(a)
        BY DEF Engaged, Unsettled, InFlight
      <3>2. \A a \in Made : ~Declining(att[a].req)
        BY NoDeclining
      <3> QED
        BY <2>4, <2>9, <3>1, <3>2 DEF Claims, Core, ReqKeeps
    <2>15. Added'
      <3>1. ~Sending(p)'
        BY <2>6 DEF Sending
      <3>2. SendsOn
        BY <2>5, <2>10, <3>1 DEF SendsOn
      <3> QED
        BY <2>3, <3>2, AddedOn
    <2>16. OneHalf' /\ Pending'
      BY <2>3, StillWhole DEF Whole
    <2> QED
      BY <2>3, <2>4, <2>11, <2>12, <2>13, <2>14, <2>15, <2>16, Frames DEF Core, ReqKeeps
  <1>3. CASE ~(req[r] \in Grabbable /\ ~Clash(r, "grabbed"))
    BY <1>3, LooseEnd, SameReqKeeps, PassOnly DEF ClaimForGrab
  <1> QED
    BY <1>2, <1>3

LEMMA AddAnsweredCore ==
  ASSUME TypeInv, Core, Whole, NEW p \in Passes, AddAnswered(p)
  PROVE  Core'
  <1>1. HoldsOn /\ SendsOn
    BY LooseGoto DEF AddAnswered
  <1>2. UNCHANGED req
    <2>1. req' = [req EXCEPT ![pass[p].r] = req[pass[p].r]]
      BY DEF AddAnswered, MoveRequest, UpdateIf
    <2> QED
      BY <2>1 DEF TypeInv, ReqOK
  <1> QED
    BY <1>1, <1>2, SameReqKeeps, PassOnly DEF AddAnswered

LEMMA AddFailsCore ==
  ASSUME Orderly, TypeInv, Core, Whole, NEW p \in Passes, AddFails(p)
  PROVE  Core'
  <1>1. pass[p].pc = "add" /\ ~pass[p].took
    BY DEF AddFails, Orderly, TypeInv, SpentOK
  <1>2. PICK halt \in BOOLEAN :
          pass' = [pass EXCEPT ![p].pc = "refuse", ![p].halt = halt, ![p].took = FALSE]
    BY DEF AddFails
  <1>3. /\ pass'[p].pc = "refuse" /\ pass'[p].r = pass[p].r /\ pass'[p].a = pass[p].a
        /\ \A q \in Passes \ {p} : pass'[q] = pass[q]
    BY <1>2 DEF TypeInv, PassOK, PassRow
  <1>4. HoldsOn /\ SendsOn
    BY <1>1, <1>3 DEF HoldsOn, SendsOn, Holds, Sending
  <1> QED
    BY <1>4, SameReqKeeps, PassOnly DEF AddFails

LEMMA ClientTakesCore ==
  ASSUME TypeInv, Core, Whole, NEW p \in Passes, ClientTakes(p)
  PROVE  Core'
  <1>1. pass[p].pc = "add" /\ ~pass[p].took /\ pass[p].a \in Attempts
    BY DEF ClientTakes, TypeInv, PassOK, Made
  <1>2. /\ pass'[p].pc = "add" /\ pass'[p].took /\ pass'[p].r = pass[p].r
        /\ pass'[p].a = pass[p].a /\ \A q \in Passes \ {p} : pass'[q] = pass[q]
    BY <1>1 DEF ClientTakes, TypeInv, PassOK, PassRow
  <1>3. \A a \in Attempts \ {pass[p].a} : client'[a] = client[a]
    BY DEF ClientTakes, TypeInv, ClientOK
  <1>4. UNCHANGED <<req, att, dock, import, filing, failing, holding, poll, person>>
    BY DEF ClientTakes, passFrame, work
  <1>5. HoldsOn /\ SendsOn /\ ~Holds(p)' /\ Sending(p)
    BY <1>1, <1>2 DEF HoldsOn, SendsOn, Holds, Sending
  <1>6. Added'
    <2> SUFFICES ASSUME NEW q \in Passes, Sending(q)'
                 PROVE  /\ att'[pass'[q].a].req = pass'[q].r
                        /\ Holds(q)' =>
                             /\ client'[pass'[q].a] = "none"
                             /\ att'[pass'[q].a].status \in {"queued", "failed", "imported"}
                             /\ pass'[q].a \notin failing' /\ ~Importing(pass[q].a)
                        /\ \A o \in Passes : Sending(o)' /\ pass'[o].a = pass'[q].a => o = q
      BY <1>4, <1>5 DEF Added, SendsOn, Importing
    <2>1. Sending(q) /\ pass'[q].r = pass[q].r /\ pass'[q].a = pass[q].a
      BY <1>5 DEF SendsOn
    <2>2. /\ att[pass[q].a].req = pass[q].r
          /\ Holds(q) => /\ client[pass[q].a] = "none"
                         /\ att[pass[q].a].status \in {"queued", "failed", "imported"}
                         /\ pass[q].a \notin failing /\ ~Importing(pass[q].a)
          /\ \A o \in Passes : Sending(o) /\ pass[o].a = pass[q].a => o = q
      BY <2>1 DEF Core, Added
    <2>3. Holds(q)' => q # p /\ Holds(q) /\ pass[q].a \in Attempts
      BY <1>5, <2>1 DEF HoldsOn, Sending, TypeInv, PassOK, Made
    <2> QED
      BY <1>3, <1>4, <1>5, <2>1, <2>2, <2>3 DEF SendsOn
  <1>7. OneHalf' /\ Pending' /\ Fresh'
    <2>1. att[pass[p].a].status # "absent"
      BY <1>1 DEF TypeInv, PassOK, Made
    <2> QED
      BY <1>3, <1>4, <2>1, StillWhole DEF Whole, Core, Fresh
  <1>8. Claims' /\ HoldsClaim' /\ OneActive' /\ OneEngaged' /\ OneHolds' /\ HoldsAlone'
    BY <1>4, <1>5, SameCalm, SameReqKeeps, KeepsClaims, NoDeclining
  <1> QED
    BY <1>4, <1>6, <1>7, <1>8, Frames DEF Core

(* Attempts are settled, or lose what they point at. *)
Settling ==
  \A b \in Attempts :
    /\ att'[b].req = att[b].req /\ att'[b].units = att[b].units
    /\ \/ att'[b].status = att[b].status
       \/ att[b].status # "absent" /\ att'[b].status \in {"failed", "imported"}

LEMMA SettlingKeeps ==
  ASSUME AttOK, Settling
  PROVE  /\ Keeps
         /\ \A a \in Made : att'[a].status \in ActiveAttempt => att[a].status \in ActiveAttempt
         /\ \A a \in Made : att'[a].status \in Unsettled => att[a].status \in Unsettled
  BY DEF Settling, Keeps, Made, ActiveAttempt, Unsettled, InFlight

LEMMA SettlingFrames ==
  ASSUME TypeInv, Core, Settling
  PROVE  /\ Whole /\ UNCHANGED <<poll, import>> => Polled'
         /\ UNCHANGED <<import, dock, filing>> => ImportsFit'
         /\ UNCHANGED <<dock, filing>> => Entries'
         /\ UNCHANGED client => Fresh'
         /\ UNCHANGED <<pass, client, failing, import>> => Added'
         /\ UNCHANGED <<import, failing>> => Calmer
  <1>1. Polled /\ ImportsFit /\ Entries /\ Added
    BY DEF Core
  <1>2. ASSUME Whole, UNCHANGED <<poll, import>> PROVE Polled'
    BY <1>1, <1>2 DEF Polled, Importing, Settling, Whole
  <1>3. ASSUME UNCHANGED <<import, dock, filing>> PROVE ImportsFit'
    <2>1. \A i \in Importers : import[i].pc # "idle" => import[i].a \in Attempts
      BY DEF TypeInv, ImportOK, Made
    <2> QED
      BY <1>1, <1>3, <2>1 DEF ImportsFit, Unplaced, Settling
  <1>4. ASSUME UNCHANGED <<dock, filing>> PROVE Entries'
    BY <1>1, <1>4 DEF Entries, Unplaced, Settling, ActiveAttempt
  <1>5. ASSUME UNCHANGED <<pass, client, failing, import>> PROVE Added'
    <2>1. \A p \in Passes : Sending(p) => pass[p].a \in Attempts
      BY DEF TypeInv, PassOK, Sending, Made
    <2>2. \A p \in Passes : Sending(p)' = Sending(p) /\ Holds(p)' = Holds(p) /\ pass'[p] = pass[p]
      BY <1>5 DEF Sending, Holds
    <2>3. \A a : Importing(a)' = Importing(a)
      BY <1>5 DEF Importing
    <2> SUFFICES ASSUME NEW p \in Passes, Sending(p)
                 PROVE  /\ att'[pass[p].a].req = pass[p].r
                        /\ Holds(p) => /\ client[pass[p].a] = "none"
                                       /\ att'[pass[p].a].status \in {"queued", "failed", "imported"}
                                       /\ pass[p].a \notin failing /\ ~Importing(pass[p].a)
                        /\ \A q \in Passes : Sending(q) /\ pass[q].a = pass[p].a => q = p
      BY <1>5, <2>2 DEF Added, Importing
    <2> QED
      BY <1>1, <2>1 DEF Added, Settling
  <1>6. ASSUME UNCHANGED <<import, failing>> PROVE Calmer
    BY <1>6, SettlingKeeps DEF TypeInv, Calmer, Engaged, Importing
  <1>7. UNCHANGED client => Fresh'
    BY SettlingKeeps DEF TypeInv, Keeps, Core, Fresh
  <1> QED
    BY <1>2, <1>3, <1>4, <1>5, <1>6, <1>7

LEMMA RefuseCore ==
  ASSUME TypeInv, Core, Whole, NEW p \in Passes, Refuse(p)
  PROVE  Core'
  <1> DEFINE a == pass[p].a
  <1>1. pass[p].pc = "refuse" /\ a \in Made /\ a \in Attempts
    BY DEF Refuse, TypeInv, PassOK, Made
  <1>2. /\ pass'[p].pc = "rollback" /\ pass'[p].r = pass[p].r /\ pass'[p].a = pass[p].a
        /\ \A q \in Passes \ {p} : pass'[q] = pass[q]
    BY DEF Refuse, Goto, TypeInv, PassOK, PassRow
  <1>3. att' = [att EXCEPT ![a].status = "failed"] /\ att \in [Attempts -> AttemptRow]
    BY DEF Refuse, TypeInv, AttOK
  <1>4. Settling /\ att'[a].status = "failed"
    BY <1>1, <1>3 DEF Settling, AttemptRow, Made
  <1>5. UNCHANGED <<req, client, dock, import, filing, failing, holding, poll, person>>
    BY DEF Refuse, passFrame, work
  <1>6. Holds(p) /\ Sending(p)
    BY <1>1 DEF Holds, Sending
  <1>7. a \notin failing /\ ~Importing(a)
    BY <1>6 DEF Core, Added
  <1>8. \A b \in Made : b = a => ~Engaged(b)'
    BY <1>4, <1>5, <1>7 DEF Engaged, Importing, Unsettled, InFlight, ActiveAttempt
  <1>9. HoldsOn /\ SendsOn
    BY <1>2, <1>6, <1>8 DEF HoldsOn, SendsOn, Holds, Sending
  <1>10. Added'
    <2> SUFFICES ASSUME NEW q \in Passes, Sending(q)'
                 PROVE  /\ att'[pass'[q].a].req = pass'[q].r
                        /\ Holds(q)' =>
                             /\ client'[pass'[q].a] = "none"
                             /\ att'[pass'[q].a].status \in {"queued", "failed", "imported"}
                             /\ pass'[q].a \notin failing' /\ ~Importing(pass[q].a)
                        /\ \A o \in Passes : Sending(o)' /\ pass'[o].a = pass'[q].a => o = q
      BY <1>5, <1>9 DEF Added, SendsOn, Importing
    <2>1. Sending(q) /\ pass'[q].r = pass[q].r /\ pass'[q].a = pass[q].a
      BY <1>9 DEF SendsOn
    <2>2. pass[q].a \in Attempts
      BY <2>1 DEF Sending, TypeInv, PassOK, Made
    <2> QED
      BY <1>4, <1>5, <1>9, <2>1, <2>2 DEF Core, Added, SendsOn, Settling
  <1>11. OneHalf' /\ Pending'
    BY <1>5, StillWhole DEF Whole
  <1>12. Calmer /\ \A b \in Made : att'[b].status \in ActiveAttempt => att[b].status \in ActiveAttempt
    BY <1>4, <1>5, SettlingFrames, SettlingKeeps DEF TypeInv
  <1>13. Claims' /\ HoldsClaim' /\ OneActive' /\ OneEngaged' /\ OneHolds' /\ HoldsAlone'
    BY <1>5, <1>9, <1>12, SameReqKeeps, KeepsClaims, NoDeclining
  <1>14. Direct'
    BY <1>5 DEF Core, Direct
  <1> QED
    BY <1>4, <1>5, <1>10, <1>11, <1>13, <1>14, SettlingFrames DEF Core

LEMMA ResolveCore ==
  ASSUME TypeInv, Core, Whole, NEW p \in Passes, Resolve(p)
  PROVE  Core'
  <1>1. pass[p].pc = "resolve" /\ pass[p].r \in Requests /\ pass[p] \in PassRow
    BY DEF Resolve, TypeInv, PassOK
  <1>2. UNCHANGED <<req, client, dock, import, filing, failing, holding, poll, person>>
    BY DEF Resolve, passFrame, work
  <1>3. Holds(p) /\ ~Sending(p)
    BY <1>1 DEF Holds, Sending
  <1>4. OneHalf' /\ Pending' /\ Direct' /\ OneActive'
    BY <1>2, StillWhole DEF Whole, Core, Direct, OneActive
  <1>5. \A a \in Made : Engaged(a) => att[a].req # pass[p].r
    BY <1>3 DEF Core, HoldsAlone
  <1>6. \A q \in Passes : Holds(q) /\ pass[q].r = pass[p].r => q = p
    BY <1>3 DEF Core, OneHolds
  <1>7. ASSUME NEW a \in Attempts, NEW status \in {"queued", "failed"}, NewAttempt(p, a, status),
               NEW record, Become(p, record), record.r = pass[p].r,
               \/ status = "queued" /\ record.pc = "add" /\ record.a = a
               \/ status = "failed" /\ record.pc = "rollback"
        PROVE  Core'
    <2>1. /\ att[a].status = "absent"
          /\ att'[a].req = pass[p].r /\ att'[a].status = status
          /\ \A b \in Attempts \ {a} : att'[b] = att[b]
      BY <1>7 DEF NewAttempt, NextFree, NoAttempt, TypeInv, AttOK
    <2>2. pass'[p] = record /\ \A q \in Passes \ {p} : pass'[q] = pass[q]
      BY <1>7 DEF Become, TypeInv, PassOK
    <2>3. a \notin Made /\ Made' = Made \cup {a} /\ None \notin Made
      BY <1>7, <2>1 DEF Made, Attempts, None
    <2>4. \A i \in Importers : import[i].pc # "idle" => import[i].a \in Attempts \ {a}
      BY <2>1 DEF TypeInv, ImportOK, Made
    <2>5. ~Importing(a) /\ a \notin failing /\ poll[a].pc = "idle" /\ filing[a].pc = "idle"
      <3>1. poll[a].pc = "idle" /\ a \notin failing
        BY <2>3 DEF TypeInv, PollOK, FailingOK
      <3>2. filing[a].pc = "idle"
        BY <2>1 DEF Core, Entries
      <3> QED
        BY <2>4, <3>1, <3>2 DEF Importing
    <2>6. Polled'
      BY <1>2, <2>1, <2>5 DEF Core, Polled, Importing
    <2>7. ImportsFit'
      BY <1>2, <2>1, <2>4 DEF Core, ImportsFit, Unplaced
    <2>8. Unplaced(a) /\ client[a] = "none"
      BY <2>1 DEF Core, Entries, Fresh
    <2>9. Entries' /\ Fresh'
      BY <1>2, <1>7, <2>1, <2>5, <2>8 DEF Core, Entries, Fresh, Unplaced
    <2>10. \A b \in Made : b # a /\ att'[b] = att[b]
      BY <2>1, <2>3 DEF Made
    <2>11. \A b \in Made : Engaged(b)' <=> Engaged(b)
      BY <1>2, <2>10 DEF Engaged, Importing
    <2>12. \A q \in Passes \ {p} : (Holds(q)' <=> Holds(q)) /\ (Sending(q)' <=> Sending(q))
      BY <2>2 DEF Holds, Sending
    <2>13. Added'
      <3>1. \A q \in Passes : Sending(q) => pass[q].a \in Made /\ q # p
        BY <1>3 DEF Sending, TypeInv, PassOK
      <3>2. ASSUME NEW q \in Passes \ {p}, Sending(q)'
            PROVE  /\ att'[pass'[q].a].req = pass'[q].r
                   /\ Holds(q)' =>
                        /\ client'[pass'[q].a] = "none"
                        /\ att'[pass'[q].a].status \in {"queued", "failed", "imported"}
                        /\ pass'[q].a \notin failing' /\ ~Importing(pass[q].a)
                   /\ \A o \in Passes : Sending(o)' /\ pass'[o].a = pass'[q].a => o = q
        <4>1. Sending(q) /\ pass[q].a \in Made /\ pass'[q] = pass[q]
          BY <2>2, <2>12, <3>1, <3>2
        <4>2. Sending(p)' => pass'[p].a = a
          BY <1>7, <2>2 DEF Sending
        <4> QED
          BY <1>2, <2>2, <2>3, <2>10, <2>12, <4>1, <4>2 DEF Core, Added
      <3>3. ASSUME Sending(p)'
            PROVE  /\ att'[pass'[p].a].req = pass'[p].r
                   /\ Holds(p)' =>
                        /\ client'[pass'[p].a] = "none"
                        /\ att'[pass'[p].a].status \in {"queued", "failed", "imported"}
                        /\ pass'[p].a \notin failing' /\ ~Importing(a)
                   /\ \A o \in Passes : Sending(o)' /\ pass'[o].a = pass'[p].a => o = p
        <4>1. pass'[p].a = a /\ pass'[p].r = pass[p].r
          BY <1>7, <2>2, <3>3 DEF Sending
        <4> QED
          BY <1>2, <2>1, <2>2, <2>3, <2>5, <2>8, <2>12, <3>1, <4>1
      <3>4. \A b : Importing(b)' = Importing(b)
        BY <1>2 DEF Importing
      <3>5. Sending(p)' => pass'[p].a = a
        BY <1>7, <2>2 DEF Sending
      <3> QED
        BY <1>2, <2>2, <3>2, <3>3, <3>4, <3>5 DEF Added, Importing
    <2>14. Claims'
      <3>1. \A b \in Made : /\ att[b].status \in ActiveAttempt =>
                                 req[att[b].req] \in ActiveTransferRequest \cup Closed
                            /\ Engaged(b) => req[att[b].req] \in Taken
        BY NoDeclining DEF Core, Claims
      <3>2. req[pass[p].r] \in {"grabbed"} \cup Closed
        BY <1>3 DEF Core, HoldsClaim
      <3> QED
        BY <1>2, <2>1, <2>3, <2>10, <2>11, <3>1, <3>2
        DEF Claims, Taken, ActiveTransferRequest
    <2>15. OneEngaged'
      BY <1>5, <2>1, <2>3, <2>10, <2>11 DEF Core, OneEngaged
    <2>16. HoldsClaim' /\ OneHolds'
      BY <1>2, <1>3, <1>7, <2>2, <2>12 DEF Core, HoldsClaim, OneHolds
    <2>17. HoldsAlone'
      <3>1. ASSUME NEW q \in Passes, NEW b \in Made', Holds(q)', Engaged(b)',
                   att'[b].req = pass'[q].r
            PROVE  Sending(q)' /\ pass'[q].a = b
        <4>1. CASE b \in Made
          <5>1. Engaged(b) /\ att[b].req = pass'[q].r
            BY <2>10, <2>11, <3>1, <4>1
          <5>2. q # p
            BY <1>5, <1>7, <2>2, <4>1, <5>1
          <5>3. Holds(q) /\ pass'[q] = pass[q]
            BY <2>2, <2>12, <3>1, <5>2
          <5> QED
            BY <2>12, <4>1, <5>1, <5>2, <5>3 DEF Core, HoldsAlone
        <4>2. CASE b = a
          <5>1. q = p
            BY <1>6, <1>7, <2>1, <2>2, <2>12, <3>1, <4>2
          <5>2. status # "failed"
            BY <1>2, <2>1, <2>5, <3>1, <4>2
            DEF Engaged, Importing, Unsettled, InFlight, ActiveAttempt
          <5> QED
            BY <1>7, <2>2, <4>2, <5>1, <5>2 DEF Sending
        <4> QED
          BY <2>3, <3>1, <4>1, <4>2
      <3> QED
        BY <3>1 DEF HoldsAlone
    <2> QED
      BY <1>4, <2>6, <2>7, <2>9, <2>13, <2>14, <2>15, <2>16, <2>17 DEF Core
  <1>8. ASSUME UNCHANGED att, NEW record, Become(p, record), record.r = pass[p].r,
               record.pc = "rollback"
        PROVE  Core'
    <2>1. /\ pass'[p] = record /\ \A q \in Passes \ {p} : pass'[q] = pass[q]
      BY <1>8 DEF Become, TypeInv, PassOK
    <2>2. HoldsOn /\ SendsOn
      BY <1>3, <1>8, <2>1 DEF HoldsOn, SendsOn, Holds, Sending
    <2> QED
      BY <1>2, <1>8, <2>2, SameReqKeeps, PassOnly DEF Resolve
  <1> QED
    <2>1. CASE \E a \in Attempts :
                 NewAttempt(p, a, "queued") /\ Become(p, [pass[p] EXCEPT !.pc = "add", !.a = a])
      <3>1. PICK a \in Attempts :
              NewAttempt(p, a, "queued") /\ Become(p, [pass[p] EXCEPT !.pc = "add", !.a = a])
        BY <2>1
      <3> DEFINE record == [pass[p] EXCEPT !.pc = "add", !.a = a]
      <3>2. record.pc = "add" /\ record.a = a /\ record.r = pass[p].r /\ Become(p, record)
        BY <1>1, <3>1 DEF PassRow
      <3> HIDE DEF record
      <3> QED
        BY <1>7, <3>1, <3>2
    <2>2. CASE \E a \in Attempts :
                 /\ NewAttempt(p, a, "failed")
                 /\ Become(p, [pass[p] EXCEPT !.pc = "rollback", !.halt = FALSE])
      <3>1. PICK a \in Attempts :
              /\ NewAttempt(p, a, "failed")
              /\ Become(p, [pass[p] EXCEPT !.pc = "rollback", !.halt = FALSE])
        BY <2>2
      <3> DEFINE record == [pass[p] EXCEPT !.pc = "rollback", !.halt = FALSE]
      <3>2. record.pc = "rollback" /\ record.r = pass[p].r /\ Become(p, record)
        BY <1>1, <3>1 DEF PassRow
      <3> HIDE DEF record
      <3> QED
        BY <1>7, <3>1, <3>2
    <2>3. CASE /\ Become(p, [pass[p] EXCEPT !.pc = "rollback", !.halt = TRUE])
               /\ UNCHANGED att
      <3> DEFINE record == [pass[p] EXCEPT !.pc = "rollback", !.halt = TRUE]
      <3>2. record.pc = "rollback" /\ record.r = pass[p].r /\ Become(p, record)
        BY <1>1, <2>3 DEF PassRow
      <3> HIDE DEF record
      <3> QED
        BY <1>8, <2>3, <3>2
    <2> QED
      BY <2>1, <2>2, <2>3 DEF Resolve

(* What the invariant says of one attempt. *)
Sound(a) ==
  /\ poll[a].pc = "move" => att[a].status \in {"downloading", "completed"}
  /\ poll[a].pc = "asked" =>
       att[a].status \in ActiveAttempt \cup {"failed", "imported"} /\ ~Importing(a)
  /\ att[a].status \in {"absent", "completed"} \cup ActiveAttempt => Unplaced(a)
  /\ att[a].status = "needs_review" /\ att[a].units => Unplaced(a)
  /\ filing[a].pc # "idle" =>
       /\ filing[a].a = a /\ filing[a].file = a
       /\ att[a].status \in {"importing", "imported", "failed"}
  /\ a \in failing => att[a].status = "failed" /\ ~Importing(a)
  /\ att[a].status = "absent" => client[a] = "none"

(* What the invariant says of the attempt of one import. *)
Fits(i) ==
  /\ att[import[i].a].status \in {"completed", "importing", "failed", "imported"}
  /\ i = "chosen" \/ import[i].pc = "place" => att[import[i].a].status # "completed"
  /\ Unplaced(import[i].a) /\ filing[import[i].a].pc = "idle"

(* No grab is about to send the attempt to the client. *)
Apart(a) == \A p \in Passes : Sending(p) /\ Holds(p) => pass[p].a # a

LEMMA AllSound == ASSUME Core, NEW a \in Attempts PROVE Sound(a)
  BY DEF Core, Polled, Entries, Pending, Fresh, Sound

LEMMA ImportingFits ==
  ASSUME Core, NEW i \in Importers, import[i].pc # "idle"
  PROVE  /\ att[import[i].a].status \in {"completed", "importing", "failed", "imported"}
         /\ i = "chosen" \/ import[i].pc = "place" => att[import[i].a].status # "completed"
         /\ Unplaced(import[i].a) /\ filing[import[i].a].pc = "idle"
         /\ poll[import[i].a].pc # "asked" \/ import[i].a \notin Attempts
         /\ import[i].a \notin failing
         /\ \A j \in Importers : import[j].pc # "idle" /\ import[j].a = import[i].a => j = i
  <1>1. Importing(import[i].a)
    BY DEF Importing
  <1>2. ImportsFit /\ Polled /\ Pending
    BY DEF Core
  <1>3. \A j \in Importers : import[j].pc # "idle" /\ import[j].a = import[i].a => j = i
    BY <1>2 DEF ImportsFit, Importers
  <1> QED
    BY <1>1, <1>2, <1>3 DEF ImportsFit, Polled, Pending

LEMMA ApartWhen ==
  ASSUME Core, NEW a,
         \/ Importing(a) \/ a \in failing \/ client[a] # "none"
         \/ att[a].status \in {"downloading", "completed", "importing", "needs_review"}
         \/ ~Adding(a)
  PROVE  Apart(a)
  BY DEF Core, Added, Apart, Adding, Sending

(* A step that concerns one attempt. *)
Touches(x) ==
  \A a \in Attempts :
    /\ att'[a].req = att[a].req
    /\ a # x => /\ att'[a].status = att[a].status /\ att'[a].units = att[a].units
                /\ dock'[a] = dock[a] /\ client'[a] = client[a]
                /\ poll'[a] = poll[a] /\ filing'[a] = filing[a]
                /\ a \in failing' <=> a \in failing
                /\ Importing(a)' => Importing(a)

LEMMA TouchFits ==
  ASSUME TypeInv, Core, NEW x \in Attempts, Touches(x),
         \A i \in Importers : import'[i].pc # "idle" => import'[i] = import[i],
         \A i \in Importers : import'[i].pc # "idle" /\ import[i].a = x => Fits(i)'
  PROVE  ImportsFit'
  <1>1. \A i \in Importers : import'[i].pc # "idle" => import[i].pc # "idle" /\ Fits(i)
    BY DEF Core, ImportsFit, Fits
  <1>2. \A i \in Importers : import'[i].pc # "idle" => Fits(i)'
    <2> SUFFICES ASSUME NEW i \in Importers, import'[i].pc # "idle", import[i].a # x
                 PROVE  Fits(i)'
      OBVIOUS
    <2>1. import'[i] = import[i] /\ import[i].a \in Attempts
      BY DEF TypeInv, ImportOK, Made
    <2> QED
      BY <1>1, <2>1 DEF Fits, Touches, Unplaced
  <1>3. import'["queue"].pc # "idle" /\ import'["chosen"].pc # "idle" =>
          import'["queue"].a # import'["chosen"].a
    BY DEF Core, ImportsFit, Importers
  <1> QED
    BY <1>2, <1>3 DEF ImportsFit, Fits

LEMMA TouchCore ==
  ASSUME TypeInv, Core, \A p \in Persons : person[p].pc # "decline", UNCHANGED pass, ReqKeeps, Direct',
         \A p \in Persons : person'[p].pc # "decline",
         NEW x \in Attempts, Touches(x), Sound(x)', ImportsFit',
         att'[x].status = "absent" <=> att[x].status = "absent",
         \A h \in holding' : h[1] = x /\ att'[x].status = "needs_review",
         \A g, h \in holding' : g = h,
         holding' = {} \/ failing' = {},
         \/ Apart(x)
         \/ /\ client'[x] = client[x] \/ client'[x] = "none"
            /\ x \in failing' => x \in failing
            /\ Importing(x)' => Importing(x)
            /\ att'[x].status = att[x].status \/ att'[x].status \in {"failed", "imported"},
         Engaged(x)' => Engaged(x),
         att'[x].status \in ActiveAttempt => att[x].status \in ActiveAttempt,
         failing' \subseteq Attempts
  PROVE  Core' /\ Calmer
  <1>2. \A a \in Attempts : a # x => (Importing(a)' => Importing(a)) /\ (Sound(a) => Sound(a)')
    BY DEF Touches, Sound, Unplaced
  <1>3. \A a \in Attempts : Sound(a)'
    BY <1>2, AllSound
  <1>4. Polled' /\ Entries' /\ Fresh'
    BY <1>3 DEF Polled, Entries, Fresh, Sound
  <1>5. Pending' /\ OneHalf'
    BY <1>3 DEF Pending, OneHalf, Sound
  <1>6. Keeps
    BY DEF Touches, Keeps
  <1>7. Calmer
    <2>1. \A a \in Made : a # x => (Engaged(a)' => Engaged(a))
      BY DEF Touches, Engaged, Made
    <2> QED
      BY <1>6, <2>1 DEF Calmer
  <1>8. \A a \in Made : att'[a].status \in ActiveAttempt => att[a].status \in ActiveAttempt
    BY DEF Touches, Made
  <1>9. Claims' /\ HoldsClaim' /\ OneActive' /\ OneEngaged' /\ OneHolds' /\ HoldsAlone'
    BY <1>7, <1>8, SameHolds, KeepsClaims DEF Declining
  <1>10. Added'
    <2>1. \A p \in Passes : Sending(p) => pass[p].a \in Attempts
      BY DEF TypeInv, PassOK, Sending, Made
    <2>2. \A p \in Passes : (Sending(p)' <=> Sending(p)) /\ (Holds(p)' <=> Holds(p))
      BY DEF Sending, Holds
    <2>3. ASSUME NEW p \in Passes, NEW a \in Attempts, Sending(p), Holds(p), a = pass[p].a
          PROVE  /\ client'[a] = "none"
                 /\ att'[a].status \in {"queued", "failed", "imported"}
                 /\ a \notin failing' /\ ~Importing(a)'
      <3>1. /\ client[a] = "none" /\ att[a].status \in {"queued", "failed", "imported"}
            /\ a \notin failing /\ ~Importing(a)
        BY <2>3 DEF Core, Added
      <3>2. CASE a = x
        BY <2>3, <3>1, <3>2 DEF Apart
      <3>3. CASE a # x
        BY <3>1, <3>3 DEF Touches
      <3> QED
        BY <3>2, <3>3
    <2>4. ASSUME NEW p \in Passes, Sending(p)
          PROVE  /\ att'[pass[p].a].req = pass[p].r
                 /\ \A q \in Passes : Sending(q) /\ pass[q].a = pass[p].a => q = p
      BY <2>1, <2>4 DEF Core, Added, Touches
    <2>5. ASSUME NEW p \in Passes, NEW a \in Attempts, Sending(p), a = pass[p].a
          PROVE  /\ att'[a].req = pass[p].r
                 /\ Holds(p) => /\ client'[a] = "none"
                                /\ att'[a].status \in {"queued", "failed", "imported"}
                                /\ a \notin failing' /\ ~Importing(a)'
                 /\ \A q \in Passes : Sending(q) /\ pass[q].a = a => q = p
      BY <2>3, <2>4, <2>5
    <2> SUFFICES ASSUME NEW p \in Passes, Sending(p)
                 PROVE  /\ att'[pass[p].a].req = pass[p].r
                        /\ Holds(p) =>
                             /\ client'[pass[p].a] = "none"
                             /\ att'[pass[p].a].status \in {"queued", "failed", "imported"}
                             /\ pass[p].a \notin failing'
                             /\ ~\E i \in Importers :
                                   import'[i].pc # "idle" /\ import'[i].a = pass[p].a
                        /\ \A q \in Passes : Sending(q) /\ pass[q].a = pass[p].a => q = p
      BY <2>2 DEF Added, Importing
    <2> QED
      BY <2>1, <2>5 DEF Importing
  <1> QED
    BY <1>4, <1>7, <1>5, <1>9, <1>10 DEF Core

(* Work on one attempt ends: it may be settled, may lose what the client and  *)
(* the Book Dock have of it, and whoever worked on it may be done.            *)
LEMMA EndCore ==
  ASSUME TypeInv, Core, Whole, UNCHANGED pass, ReqKeeps, Direct',
         \A p \in Persons : person'[p].pc # "decline",
         NEW a \in Attempts,
         \A b \in Attempts : att'[b].req = att[b].req /\ att'[b].units = att[b].units,
         \A b \in Attempts \ {a} :
           /\ att'[b].status = att[b].status /\ dock'[b] = dock[b] /\ client'[b] = client[b]
           /\ poll'[b] = poll[b] /\ filing'[b] = filing[b],
         \/ att'[a].status = att[a].status
         \/ att[a].status \in Unsettled /\ att'[a].status \in {"failed", "imported"},
         dock'[a] \in {dock[a], "none"}, client'[a] \in {client[a], "none"},
         poll'[a] = poll[a] \/ poll'[a].pc = "idle",
         filing'[a] = filing[a] \/ filing'[a].pc = "idle",
         \A i \in Importers : import'[i].pc # "idle" => import'[i] = import[i],
         holding' = {},
         \/ failing' = {}
         \/ failing' = {a} /\ att'[a].status = "failed" /\ ~Importing(a)' /\ Apart(a)
            /\ att[a].status \in Unsettled
  PROVE  Core' /\ Calmer
  <1>1. att'[a].status = "absent" <=> att[a].status = "absent"
    BY DEF Unsettled, InFlight, ActiveAttempt
  <1>2. \A b : Importing(b)' => Importing(b)
    BY DEF Importing
  <1>3. Touches(a)
    BY <1>2 DEF Touches, Whole
  <1>4. Sound(a) /\ (Unplaced(a) => Unplaced(a)')
    BY <1>1, AllSound DEF Unplaced
  <1>5. Sound(a)'
    BY <1>1, <1>2, <1>4 DEF Sound, Whole, Unsettled, InFlight, ActiveAttempt
  <1>6. ImportsFit'
    <2> SUFFICES ASSUME NEW i \in Importers, import'[i].pc # "idle", import[i].a = a
                 PROVE  Fits(i)'
      BY <1>1, <1>3, TouchFits
    <2>1. import'[i] = import[i] /\ import[i].pc # "idle"
      OBVIOUS
    <2>2. /\ att[a].status \in {"completed", "importing", "failed", "imported"}
          /\ i = "chosen" \/ import[i].pc = "place" => att[a].status # "completed"
          /\ Unplaced(a) /\ filing[a].pc = "idle"
      BY <2>1, ImportingFits
    <2>3. filing'[a].pc = "idle"
      BY <2>2
    <2> QED
      BY <1>4, <2>1, <2>2, <2>3 DEF Fits, Unplaced
  <1>7. Engaged(a)' => Engaged(a)
    BY <1>2 DEF Engaged, Unsettled, InFlight, ActiveAttempt
  <1>8. att'[a].status \in ActiveAttempt => att[a].status \in ActiveAttempt
    BY DEF ActiveAttempt
  <1>9. \/ Apart(a)
        \/ /\ client'[a] = client[a] \/ client'[a] = "none"
           /\ a \in failing' => a \in failing
           /\ Importing(a)' => Importing(a)
           /\ att'[a].status = att[a].status \/ att'[a].status \in {"failed", "imported"}
    BY <1>2
  <1> QED
    BY <1>1, <1>3, <1>5, <1>6, <1>7, <1>8, <1>9, TouchCore DEF Whole

(* Steps that leave the attempts and those who work on them alone. *)
LEMMA AloneCore ==
  ASSUME TypeInv, Core, Whole, ReqKeeps, Direct', \A p \in Persons : person'[p].pc # "decline",
         UNCHANGED <<att, pass, import, failing, holding, poll, filing, dock, client>>
  PROVE  Core' /\ Calmer
  <1>1. OneHalf' /\ Pending'
    BY StillWhole DEF Whole
  <1>2. Calmer /\ HoldsOn
    BY SameCalm, SameHolds
  <1>3. Claims' /\ HoldsClaim' /\ OneActive' /\ OneEngaged' /\ OneHolds' /\ HoldsAlone'
    BY <1>2, KeepsClaims, NoDeclining
  <1> QED
    BY <1>1, <1>2, <1>3, Frames DEF Core

LEMMA FailEffect ==
  ASSUME AttOK, failing = {}, NEW a \in Made, NEW table \in [Attempts -> AttemptRow],
         \A b \in Attempts : /\ table[b].req = att[b].req /\ table[b].status = att[b].status
                             /\ table[b].units = att[b].units,
         FailIn(table, a)
  PROVE  /\ \A b \in Attempts : att'[b].req = att[b].req /\ att'[b].units = att[b].units
         /\ \A b \in Attempts \ {a} : att'[b].status = att[b].status
         /\ \/ att'[a].status = att[a].status /\ failing' = {}
            \/ att[a].status \in Unsettled /\ att'[a].status = "failed" /\ failing' = {a}
  <1>1. att' = [table EXCEPT ![a].status = UpdateIf(table[a].status, Unsettled, "failed")]
    BY DEF FailIn
  <1>2. a \in Attempts
    BY DEF Made
  <1> QED
    BY <1>1, <1>2 DEF FailIn, UpdateIf, AttemptRow

LEMMA FailDownloadEffect ==
  ASSUME AttOK, failing = {}, NEW a \in Made, FailDownload(a)
  PROVE  /\ \A b \in Attempts : att'[b].req = att[b].req /\ att'[b].units = att[b].units
         /\ \A b \in Attempts \ {a} : att'[b].status = att[b].status
         /\ \/ att'[a].status = att[a].status /\ failing' = {}
            \/ att[a].status \in Unsettled /\ att'[a].status = "failed" /\ failing' = {a}
  BY FailEffect DEF FailDownload, AttOK

LEMMA MoveEffect ==
  ASSUME AttOK, NEW a \in Attempts, NEW e, NEW s, MoveAttempt(a, e, s)
  PROVE  /\ \A b \in Attempts : att'[b].req = att[b].req /\ att'[b].units = att[b].units
         /\ \A b \in Attempts \ {a} : att'[b] = att[b]
         /\ att[a].status \in e => att'[a].status = s
         /\ att[a].status \notin e => att'[a].status = att[a].status
  BY DEF AttOK, MoveAttempt, UpdateIf, AttemptRow

LEMMA HoldEffect ==
  ASSUME AttOK, holding = {}, NEW a \in Attempts, NEW units, NEW from,
         HoldForReview(a, units, from)
  PROVE  /\ \A b \in Attempts : att'[b].req = att[b].req
         /\ \A b \in Attempts \ {a} : att'[b] = att[b]
         /\ \/ UNCHANGED att /\ holding' = {} /\ att[a].status \notin Unsettled
            \/ /\ att[a].status \in Unsettled /\ att'[a].status = "needs_review"
               /\ att'[a].units = units /\ holding' = {<<a, from>>}
  BY DEF AttOK, HoldForReview, AttemptRow

LEMMA WithoutEffect ==
  ASSUME AttOK, NEW a \in Attempts
  PROVE  /\ AttemptsWithout(a) \in [Attempts -> AttemptRow]
         /\ \A b \in Attempts : /\ AttemptsWithout(a)[b].req = att[b].req
                                /\ AttemptsWithout(a)[b].status = att[b].status
                                /\ AttemptsWithout(a)[b].units = att[b].units
  BY DEF AttOK, AttemptsWithout, AttemptRow, Attempts

LEMMA StillDirect == ASSUME Core, UNCHANGED person PROVE Direct'
  BY DEF Core, Direct

LEMMA PollAsksCore ==
  ASSUME TypeInv, Core, Whole, NEW a \in Attempts, PollAsks(a)
  PROVE  Core' /\ Calmer
  <1>1. att[a].status \in ActiveAttempt /\ a \in Made
    BY DEF PollAsks, Made, ActiveAttempt
  <1>2. UNCHANGED <<req, att, dock, client, import, filing, failing, holding, pass, person>>
    BY DEF PollAsks, rows, outside, work
  <1>3. poll'[a].pc = "asked" /\ \A b \in Attempts \ {a} : poll'[b] = poll[b]
    BY DEF PollAsks, TypeInv, PollOK
  <1>4. ~Importing(a)
    <2> SUFFICES ASSUME NEW i \in Importers, import[i].pc # "idle", import[i].a = a PROVE FALSE
      BY DEF Importing
    <2> QED
      BY <1>1, ImportingFits DEF ActiveAttempt
  <1>5. Touches(a)
    BY <1>2, <1>3 DEF Touches, Importing
  <1>6. Sound(a)'
    BY <1>1, <1>2, <1>3, <1>4, AllSound DEF Sound, Unplaced, Importing
  <1>7. ImportsFit'
    BY <1>2, Frames
  <1>8. (Engaged(a)' <=> Engaged(a)) /\ (Importing(a)' <=> Importing(a))
    BY <1>2 DEF Engaged, Importing
  <1>9. failing' \subseteq Attempts /\ failing' = {} /\ holding' = {}
        /\ \A p \in Persons : person'[p].pc # "decline"
    BY <1>2 DEF Whole
  <1>10. att'[a].status # "absent"
    BY <1>1, <1>2 DEF Made
  <1> QED
    BY <1>1, <1>2, <1>5, <1>6, <1>7, <1>8, <1>9, <1>10, SameReqKeeps, StillDirect, TouchCore
    DEF Whole, Made

LEMMA PollEndsCore ==
  ASSUME TypeInv, Core, Whole, NEW a \in Attempts, PollUnanswered(a) \/ PollFails(a)
  PROVE  Core' /\ Calmer
  <1>1. a \in Made /\ poll[a].pc = "asked" /\ ~Importing(a)
    BY DEF PollUnanswered, PollFails, TypeInv, PollOK, Core, Polled
  <1>2. UNCHANGED <<req, dock, client, import, filing, holding, pass, person>>
    BY DEF PollUnanswered, PollFails, rows, outside, work
  <1>3. poll'[a].pc = "idle" /\ \A b \in Attempts \ {a} : poll'[b] = poll[b]
    BY DEF PollUnanswered, PollFails, Unpolled, IdlePoll, TypeInv, PollOK
  <1>4. /\ \A b \in Attempts : att'[b].req = att[b].req /\ att'[b].units = att[b].units
        /\ \A b \in Attempts \ {a} : att'[b].status = att[b].status
        /\ \/ att'[a].status = att[a].status /\ failing' = {}
           \/ att[a].status \in Unsettled /\ att'[a].status = "failed" /\ failing' = {a}
    BY <1>1, FailDownloadEffect DEF PollUnanswered, PollFails, TypeInv, Whole, rows, work
  <1>5. failing' # {} => Apart(a)
    <2> SUFFICES ASSUME PollFails(a) PROVE Apart(a)
      BY DEF PollUnanswered, work, Whole
    <2> QED
      BY ApartWhen DEF PollFails
  <1>6. ~Importing(a)'
    BY <1>1, <1>2 DEF Importing
  <1>7. holding' = {} /\ \A p \in Persons : person'[p].pc # "decline"
    BY <1>2 DEF Whole
  <1> QED
    BY <1>1, <1>2, <1>3, <1>4, <1>5, <1>6, <1>7, SameReqKeeps, StillDirect, EndCore

LEMMA PollReportsCore ==
  ASSUME TypeInv, Core, Whole, NEW a \in Attempts, PollReports(a)
  PROVE  Core' /\ Calmer
  <1>1. a \in Made /\ poll[a].pc = "asked" /\ ~Importing(a)
    BY DEF PollReports, TypeInv, PollOK, Core, Polled
  <1>2. UNCHANGED <<req, dock, client, import, filing, failing, holding, pass, person>>
    BY DEF PollReports, outside
  <1>3. PICK status \in ActiveAttempt \cup {"completed"} :
          LET moves == poll[a].was = "queued" /\ status # "queued" IN
          /\ client[a] # "none"
          /\ MoveAttempt(a, ActiveAttempt, status)
          /\ IF att[a].status \in ActiveAttempt /\ moves
               THEN poll' = [poll EXCEPT ![a].pc = "move", ![a].done = (status = "completed")]
               ELSE Unpolled(a)
    BY DEF PollReports, Reported
  <1>4. /\ \A b \in Attempts : att'[b].req = att[b].req /\ att'[b].units = att[b].units
        /\ \A b \in Attempts \ {a} : att'[b] = att[b]
        /\ att[a].status \in ActiveAttempt => att'[a].status = status
        /\ att[a].status \notin ActiveAttempt => att'[a].status = att[a].status
    BY <1>3, MoveEffect DEF TypeInv
  <1>5. /\ \A b \in Attempts \ {a} : poll'[b] = poll[b]
        /\ \/ poll'[a].pc = "idle"
           \/ poll'[a].pc = "move" /\ att[a].status \in ActiveAttempt /\ status # "queued"
    BY <1>3 DEF Unpolled, IdlePoll, TypeInv, PollOK, PollRow
  <1>6. Sound(a) /\ Apart(a)
    BY <1>3, AllSound, ApartWhen
  <1>7. Sound(a)'
    <2>1. filing[a].pc = "idle" \/ att[a].status \notin ActiveAttempt
      BY <1>6 DEF Sound, ActiveAttempt
    <2> QED
      BY <1>1, <1>2, <1>4, <1>5, <1>6, <2>1
      DEF Sound, Unplaced, Importing, ActiveAttempt, Whole, Made
  <1>8. Touches(a)
    BY <1>2, <1>4, <1>5 DEF Touches, Importing
  <1>9. ImportsFit'
    <2>1. \A i \in Importers : import'[i].pc # "idle" => import'[i] = import[i] /\ import[i].a # a
      BY <1>1, <1>2 DEF Importing
    <2> QED
      BY <1>8, <2>1, TouchFits
  <1>10. /\ Engaged(a)' => Engaged(a)
         /\ att'[a].status \in ActiveAttempt => att[a].status \in ActiveAttempt
         /\ att'[a].status # "absent"
    BY <1>1, <1>2, <1>4 DEF Engaged, Importing, ActiveAttempt, Unsettled, InFlight, Made
  <1>11. failing' \subseteq Attempts /\ failing' = {} /\ holding' = {}
         /\ \A p \in Persons : person'[p].pc # "decline"
    BY <1>2 DEF Whole
  <1> QED
    BY <1>1, <1>2, <1>6, <1>7, <1>8, <1>9, <1>10, <1>11, SameReqKeeps, StillDirect, TouchCore
    DEF Whole, Made

LEMMA ResumeCore ==
  ASSUME TypeInv, Core, Whole, NEW a \in Attempts, ResumeUnimported(a)
  PROVE  Core' /\ Calmer
  BY SameReqKeeps, StillDirect, AloneCore DEF ResumeUnimported, rows, outside, Whole

-----------------------------------------------------------------------------
(* Imports. *)

LEMMA ImportedEffect ==
  ASSUME TypeInv, NEW i \in Importers, Imported(i)
  PROVE  /\ import'[i].pc = "idle" /\ \A j \in Importers \ {i} : import'[j] = import[j]
         /\ \A j \in Importers : import'[j].pc # "idle" => import'[j] = import[j]
  BY DEF Imported, Imports, TypeInv, ImportOK

LEMMA ImportsEffect ==
  ASSUME TypeInv, NEW i \in Importers, NEW pc, NEW a, Imports(i, pc, a)
  PROVE  /\ import'[i].pc = pc /\ import'[i].a = a
         /\ \A j \in Importers \ {i} : import'[j] = import[j]
  BY DEF Imports, TypeInv, ImportOK

(* An import begins, or goes on with its next step. *)
LEMMA ImportFits ==
  ASSUME TypeInv, Core, NEW i \in Importers, NEW x \in Attempts, Touches(x),
         import'[i].a = x, \A j \in Importers \ {i} : import'[j] = import[j],
         \A j \in Importers \ {i} : import[j].pc # "idle" => import[j].a # x,
         Fits(i)'
  PROVE  ImportsFit'
  <1>1. \A j \in Importers \ {i} : import'[j].pc # "idle" => Fits(j)'
    <2> SUFFICES ASSUME NEW j \in Importers \ {i}, import'[j].pc # "idle"
                 PROVE  Fits(j)'
      OBVIOUS
    <2>1. import'[j] = import[j] /\ import[j].a \in Attempts /\ import[j].a # x
      BY DEF TypeInv, ImportOK, Made
    <2>2. Fits(j)
      BY <2>1 DEF Core, ImportsFit, Fits
    <2> QED
      BY <2>1, <2>2 DEF Fits, Touches, Unplaced
  <1>2. import'["queue"].pc # "idle" /\ import'["chosen"].pc # "idle" =>
          import'["queue"].a # import'["chosen"].a
    BY DEF Importers
  <1>3. \A j \in Importers : import'[j].pc # "idle" => Fits(j)'
    BY <1>1
  <1> QED
    BY <1>2, <1>3 DEF ImportsFit, Fits

LEMMA StartImportCore == ASSUME TypeInv, Core, Whole, StartImport PROVE Core' /\ Calmer
  <1>1. UNCHANGED <<req, att, dock, client, filing, failing, holding, pass, poll, person>>
    BY DEF StartImport, rows, importFrame
  <1>2. CASE UNCHANGED import
    BY <1>1, <1>2, SameReqKeeps, StillDirect, AloneCore DEF Whole
  <1>3. CASE Reread(Head(queue))
    <2>1. PICK a \in Made : att[a].status = "completed" /\ Imports("queue", "extract", a)
      <3>1. queue \in Seq(Attempts) /\ queue # <<>> /\ \A k \in 1..Len(queue) : queue[k] \in Made
        BY DEF StartImport, TypeInv, QueueOK
      <3>2. Head(queue) = queue[1] /\ 1 \in 1..Len(queue)
        BY <3>1
      <3> QED
        BY <1>3, <3>1, <3>2 DEF StartImport, Reread
    <2>2. a \in Attempts
      BY <2>1 DEF Made
    <2>3. ~Importing(a)
      <3> SUFFICES ASSUME NEW i \in Importers, import[i].pc # "idle", import[i].a = a
                   PROVE  FALSE
        BY DEF Importing
      <3>1. i = "chosen"
        BY DEF StartImport, Importers
      <3> QED
        BY <2>1, <3>1, ImportingFits
    <2>4. /\ import'["queue"].pc = "extract" /\ import'["queue"].a = a
          /\ \A j \in Importers \ {"queue"} : import'[j] = import[j]
      BY <2>1, ImportsEffect DEF Importers
    <2>5. Touches(a)
      BY <1>1, <2>4 DEF Touches, Importing
    <2>6. Sound(a) /\ Apart(a) /\ Engaged(a)
      BY <2>1, <2>2, AllSound, ApartWhen DEF Engaged, Unsettled, InFlight
    <2>7. Sound(a)'
      BY <1>1, <2>1, <2>2, <2>6 DEF Sound, Unplaced, Whole, ActiveAttempt
    <2>8. Fits("queue")'
      BY <1>1, <2>1, <2>4, <2>6 DEF Fits, Sound, Unplaced
    <2>9. ImportsFit'
      <3>1. \A j \in Importers \ {"queue"} : import[j].pc # "idle" => import[j].a # a
        BY <2>3 DEF Importing
      <3>2. "queue" \in Importers
        BY DEF Importers
      <3> QED
        BY <2>2, <2>4, <2>5, <2>8, <3>1, <3>2, ImportFits
    <2>10. failing' \subseteq Attempts /\ failing' = {} /\ holding' = {}
           /\ \A p \in Persons : person'[p].pc # "decline"
      BY <1>1 DEF Whole
    <2>11. att'[a].status = "completed"
      BY <1>1, <2>1
    <2> QED
      BY <1>1, <2>1, <2>5, <2>6, <2>7, <2>9, <2>10, <2>11, SameReqKeeps, StillDirect, TouchCore
      DEF Whole, ActiveAttempt, Made
  <1> QED
    BY <1>2, <1>3 DEF StartImport

LEMMA ImportChosenCore ==
  ASSUME TypeInv, Core, Whole, NEW a \in Attempts, ImportChosen(a)
  PROVE  Core' /\ Calmer
  <1>1. UNCHANGED <<req, dock, client, filing, failing, holding, pass, poll, person>>
    BY DEF ImportChosen, importFrame
  <1>2. a \in Made /\ att[a].status = "needs_review" /\ att[a].units
    BY DEF ImportChosen, Made
  <1>3. Sound(a) /\ Apart(a) /\ Engaged(a)
    BY <1>2, AllSound, ApartWhen DEF Engaged, Unsettled
  <1>4. ~Importing(a)
    <2> SUFFICES ASSUME NEW i \in Importers, import[i].pc # "idle", import[i].a = a
                 PROVE  FALSE
      BY DEF Importing
    <2> QED
      BY <1>2, ImportingFits
  <1>5. /\ \A b \in Attempts : att'[b].req = att[b].req /\ att'[b].units = att[b].units
        /\ \A b \in Attempts \ {a} : att'[b] = att[b]
        /\ att'[a].status = "importing"
    BY <1>2, MoveEffect DEF ImportChosen, TypeInv
  <1>6. /\ import'["chosen"].pc = "extract" /\ import'["chosen"].a = a
        /\ \A j \in Importers \ {"chosen"} : import'[j] = import[j]
    BY ImportsEffect DEF ImportChosen, Importers
  <1>7. Touches(a)
    BY <1>1, <1>5, <1>6 DEF Touches, Importing
  <1>8. Unplaced(a) /\ filing[a].pc = "idle" /\ poll[a].pc = "idle" /\ a \notin failing
    <2>1. poll[a].pc # "move"
      BY <1>2 DEF Whole, Made
    <2>2. poll[a].pc \in {"idle", "asked", "move"}
      BY DEF TypeInv, PollOK, PollRow
    <2> QED
      BY <1>2, <1>3, <2>1, <2>2 DEF Sound, ActiveAttempt
  <1>9. Sound(a)'
    BY <1>1, <1>5, <1>8 DEF Sound, Unplaced
  <1>10. Fits("chosen")'
    BY <1>1, <1>5, <1>6, <1>8 DEF Fits, Unplaced
  <1>11. ImportsFit'
    <2>1. \A j \in Importers \ {"chosen"} : import[j].pc # "idle" => import[j].a # a
      BY <1>4 DEF Importing
    <2>2. "chosen" \in Importers
      BY DEF Importers
    <2> QED
      BY <1>6, <1>7, <1>10, <2>1, <2>2, ImportFits
  <1>12. failing' \subseteq Attempts /\ failing' = {} /\ holding' = {}
         /\ \A p \in Persons : person'[p].pc # "decline"
    BY <1>1 DEF Whole
  <1> QED
    BY <1>1, <1>2, <1>3, <1>5, <1>7, <1>9, <1>11, <1>12, SameReqKeeps, StillDirect, TouchCore
    DEF Whole, ActiveAttempt, Made

(* An attempt that nobody transfers any longer is held for review. *)
LEMMA HoldCore ==
  ASSUME TypeInv, Core, Whole, NEW a \in Made, NEW units \in BOOLEAN,
         NEW from, HoldForReview(a, units, from),
         UNCHANGED <<req, dock, client, poll, failing, pass, person>>,
         att[a].status \notin ActiveAttempt, units => Unplaced(a),
         filing'[a].pc = "idle", \A b \in Attempts \ {a} : filing'[b] = filing[b],
         \A i \in Importers : import'[i].pc # "idle" => import'[i] = import[i] /\ import[i].a # a
  PROVE  Core' /\ Calmer
  <1>1. a \in Attempts
    BY DEF Made
  <1>2. /\ \A b \in Attempts : att'[b].req = att[b].req
        /\ \A b \in Attempts \ {a} : att'[b] = att[b]
        /\ \/ UNCHANGED att /\ holding' = {} /\ att[a].status \notin Unsettled
           \/ /\ att[a].status \in Unsettled /\ att'[a].status = "needs_review"
              /\ att'[a].units = units /\ holding' = {<<a, from>>}
    BY <1>1, HoldEffect DEF TypeInv, Whole
  <1>3. ~Importing(a)' /\ \A b : Importing(b)' => Importing(b)
    BY DEF Importing
  <1>4. failing' \subseteq Attempts /\ failing' = {} /\ \A p \in Persons : person'[p].pc # "decline"
    BY DEF Whole
  <1>5. CASE UNCHANGED att /\ holding' = {}
    BY <1>1, <1>4, <1>5, SameReqKeeps, StillDirect, EndCore
  <1>6. CASE /\ att[a].status \in Unsettled /\ att'[a].status = "needs_review"
             /\ att'[a].units = units /\ holding' = {<<a, from>>}
    <2>1. att[a].status \in {"completed", "importing", "needs_review"}
      BY <1>6 DEF Unsettled, InFlight
    <2>2. Sound(a) /\ Apart(a) /\ Engaged(a)
      BY <1>1, <1>6, <2>1, AllSound, ApartWhen DEF Engaged
    <2>3. Touches(a)
      BY <1>2, <1>3 DEF Touches
    <2>4. Sound(a)'
      BY <1>1, <1>3, <1>4, <1>6, <2>1, <2>2 DEF Sound, Unplaced, Whole, ActiveAttempt
    <2>5. ImportsFit'
      BY <1>1, <2>3, TouchFits
    <2> QED
      BY <1>1, <1>4, <1>6, <2>2, <2>3, <2>4, <2>5, SameReqKeeps, StillDirect, TouchCore
      DEF Whole, ActiveAttempt, Made
  <1> QED
    BY <1>2, <1>5, <1>6

(* An import goes on with its next step. *)
LEMMA NextImportCore ==
  ASSUME TypeInv, Core, Whole, ReqKeeps, NEW i \in Importers, NEW a \in Made,
         import[i].pc # "idle", import[i].a = a,
         NEW pc, Imports(i, pc, a), pc # "idle",
         \A b \in Attempts : att'[b].req = att[b].req /\ att'[b].units = att[b].units,
         \A b \in Attempts \ {a} : att'[b].status = att[b].status /\ dock'[b] = dock[b],
         \/ att'[a].status = "importing"
         \/ att'[a].status = att[a].status /\ pc # "place",
         dock'[a] \in {"none", "reserved"},
         UNCHANGED <<client, filing, failing, holding, pass, poll, person>>
  PROVE  Core' /\ Calmer
  <1>1. a \in Attempts /\ Importing(a)
    BY DEF Made, Importing
  <1>2. /\ att[a].status \in {"completed", "importing", "failed", "imported"}
        /\ i = "chosen" \/ import[i].pc = "place" => att[a].status # "completed"
        /\ Unplaced(a) /\ filing[a].pc = "idle" /\ poll[a].pc # "asked"
        /\ \A j \in Importers : import[j].pc # "idle" /\ import[j].a = a => j = i
    BY <1>1, ImportingFits
  <1>3. /\ import'[i].pc = pc /\ import'[i].a = a
        /\ \A j \in Importers \ {i} : import'[j] = import[j]
    BY ImportsEffect
  <1>4. \A b \in Attempts : Importing(b)' => Importing(b)
    BY <1>1, <1>3 DEF Importing
  <1>5. Touches(a)
    BY <1>4 DEF Touches
  <1>6. Sound(a) /\ Apart(a) /\ Engaged(a)
    BY <1>1, AllSound, ApartWhen DEF Engaged
  <1>7. Sound(a)'
    BY <1>1, <1>2, <1>6 DEF Sound, Unplaced, Whole, ActiveAttempt
  <1>8. Fits(i)'
    BY <1>2, <1>3 DEF Fits, Unplaced
  <1>9. ImportsFit'
    BY <1>1, <1>2, <1>3, <1>5, <1>8, ImportFits
  <1>10. failing' \subseteq Attempts /\ failing' = {} /\ holding' = {}
         /\ \A p \in Persons : person'[p].pc # "decline"
    BY DEF Whole
  <1>11. att'[a].status \in {"completed", "importing", "failed", "imported"}
    BY <1>2
  <1> QED
    BY <1>2, <1>5, <1>6, <1>7, <1>9, <1>10, <1>11, StillDirect, TouchCore
    DEF Whole, ActiveAttempt, Made

LEMMA ImportAttempt ==
  ASSUME TypeInv, Core, NEW i \in Importers, import[i].pc # "idle"
  PROVE  \E a \in Made : /\ a = import[i].a /\ Importing(a) /\ Apart(a)
                         /\ \A j \in Importers : import[j].pc # "idle" /\ import[j].a = a => j = i
                         /\ att[a].status \in {"completed", "importing", "failed", "imported"}
                         /\ Unplaced(a) /\ filing[a].pc = "idle"
  <1>1. import[i].a \in Made /\ Importing(import[i].a)
    BY DEF TypeInv, ImportOK, Importing
  <1>2. Apart(import[i].a)
    BY <1>1, ApartWhen
  <1> QED
    BY <1>1, <1>2, ImportingFits

LEMMA ExtractCore ==
  ASSUME TypeInv, Core, Whole, NEW i \in Importers, Extract(i)
  PROVE  Core' /\ Calmer
  <1>1. import[i].pc = "extract"
    BY DEF Extract
  <1>2. PICK a \in Made :
          /\ a = import[i].a /\ Importing(a) /\ Apart(a)
          /\ \A j \in Importers : import[j].pc # "idle" /\ import[j].a = a => j = i
          /\ att[a].status \in {"completed", "importing", "failed", "imported"}
          /\ Unplaced(a) /\ filing[a].pc = "idle"
    BY <1>1, ImportAttempt
  <1>3. UNCHANGED <<req, client, filing, pass, poll, person>> /\ a \in Attempts
    BY DEF Extract, importFrame, Made
  <1>4. \A p \in Persons : person'[p].pc # "decline"
    BY <1>3 DEF Whole
  <1>5. CASE FailDownload(a) /\ Imported(i) /\ UNCHANGED <<dock, holding>>
    <2>1. /\ import'[i].pc = "idle" /\ \A j \in Importers \ {i} : import'[j] = import[j]
          /\ \A j \in Importers : import'[j].pc # "idle" => import'[j] = import[j]
      BY <1>5, ImportedEffect
    <2>2. ~Importing(a)'
      BY <1>2, <2>1 DEF Importing
    <2>3. /\ \A b \in Attempts : att'[b].req = att[b].req /\ att'[b].units = att[b].units
          /\ \A b \in Attempts \ {a} : att'[b].status = att[b].status
          /\ \/ att'[a].status = att[a].status /\ failing' = {}
             \/ att[a].status \in Unsettled /\ att'[a].status = "failed" /\ failing' = {a}
      BY <1>5, FailDownloadEffect DEF TypeInv, Whole
    <2> QED
      BY <1>2, <1>3, <1>4, <1>5, <2>1, <2>2, <2>3, SameReqKeeps, StillDirect, EndCore DEF Whole
  <1>6. ASSUME NEW units \in BOOLEAN, HoldForReview(a, units, "import"), Imported(i),
               UNCHANGED <<dock, failing>>
        PROVE  Core' /\ Calmer
    <2>1. \A j \in Importers : import'[j].pc # "idle" => import'[j] = import[j] /\ import[j].a # a
      BY <1>2, <1>6, ImportedEffect
    <2> QED
      BY <1>2, <1>3, <1>6, <2>1, HoldCore DEF ActiveAttempt
  <1>7. CASE /\ dock' = [dock EXCEPT ![a] = "reserved"]
             /\ Imports(i, "claim", a) /\ UNCHANGED <<att, failing, holding>>
    <2>1. dock'[a] = "reserved" /\ \A b \in Attempts \ {a} : dock'[b] = dock[b]
      BY <1>3, <1>7 DEF TypeInv, DockOK
    <2> QED
      BY <1>1, <1>2, <1>3, <1>7, <2>1, SameReqKeeps, NextImportCore
  <1> QED
    BY <1>2, <1>5, <1>6, <1>7 DEF Extract

LEMMA LinkCore ==
  ASSUME TypeInv, Core, Whole, NEW i \in Importers, Link(i)
  PROVE  Core' /\ Calmer
  <1>1. import[i].pc = "link"
    BY DEF Link
  <1>2. PICK a \in Made : a = import[i].a /\ Unplaced(a)
    BY <1>1, ImportAttempt
  <1>3. UNCHANGED <<req, dock, client, filing, failing, holding, pass, poll, person>>
        /\ a \in Attempts /\ Imports(i, "place", a)
    BY <1>2 DEF Link, importFrame, Made
  <1>4. /\ \A b \in Attempts : att'[b].req = att[b].req /\ att'[b].units = att[b].units
        /\ \A b \in Attempts \ {a} : att'[b].status = att[b].status
        /\ att'[a].status = "importing"
    BY <1>2, <1>3 DEF Link, TypeInv, AttOK, AttemptRow
  <1> QED
    BY <1>1, <1>2, <1>3, <1>4, SameReqKeeps, NextImportCore DEF Unplaced

(* A request is claimed for the import of its only attempt that is engaged. *)
LEMMA ClaimReqKeeps ==
  ASSUME TypeInv, Core, NEW a \in Made, Importing(a), Apart(a),
         NEW r, r = att[a].req, req' = [req EXCEPT ![r] = "importing"],
         req[r] \in WorkerWritable, ~Clash(r, "importing"),
         att[a].status \in {"completed", "importing", "failed", "imported"},
         UNCHANGED <<att, pass, failing>>, \A b : Importing(b)' => Importing(b)
  PROVE  ReqKeeps
  <1>1. r \in Requests /\ \A q \in Requests : q # r => req'[q] = req[q]
    BY DEF TypeInv, AttOK, ReqOK, Made
  <1>2. req'[r] = "importing"
    BY <1>1 DEF TypeInv, ReqOK
  <1>3. OneActive'
    BY <1>1, MoveActive DEF TypeInv, Core
  <1>4. Engaged(a)
    BY DEF Engaged
  <1>5. \A b \in Made : att'[b].status \in ActiveAttempt => att[b].req # r
    <2> SUFFICES ASSUME NEW b \in Made, att[b].status \in ActiveAttempt, att[b].req = r
                 PROVE  FALSE
      OBVIOUS
    <2>1. Engaged(b)
      BY DEF Engaged, Unsettled, InFlight
    <2>2. b = a
      BY <1>4, <2>1 DEF Core, OneEngaged
    <2> QED
      BY <2>2 DEF ActiveAttempt
  <1>6. \A p \in Passes : Holds(p)' => pass[p].r # r
    <2> SUFFICES ASSUME NEW p \in Passes, Holds(p), pass[p].r = r PROVE FALSE
      BY DEF Holds
    <2>1. Sending(p) /\ pass[p].a = a
      BY <1>4 DEF Core, HoldsAlone
    <2> QED
      BY <2>1 DEF Apart
  <1>7. \A b \in Made : att[b].req \in Requests
    BY DEF TypeInv, AttOK, Made
  <1>8. \A p \in Passes : Holds(p)' => pass[p].r \in Requests
    BY DEF Holds, TypeInv, PassOK
  <1> QED
    BY <1>1, <1>2, <1>3, <1>5, <1>6, <1>7, <1>8 DEF ReqKeeps, Taken

LEMMA ClaimRequestCore ==
  ASSUME TypeInv, Core, Whole, NEW i \in Importers, ClaimRequest(i)
  PROVE  Core' /\ Calmer
  <1>1. import[i].pc = "claim"
    BY DEF ClaimRequest
  <1>2. PICK a \in Made :
          /\ a = import[i].a /\ Importing(a) /\ Apart(a)
          /\ \A j \in Importers : import[j].pc # "idle" /\ import[j].a = a => j = i
          /\ att[a].status \in {"completed", "importing", "failed", "imported"}
          /\ Unplaced(a) /\ filing[a].pc = "idle"
    BY <1>1, ImportAttempt
  <1>3. PICK r : r = att[a].req
    OBVIOUS
  <1>4. UNCHANGED <<client, filing, holding, pass, poll, person>> /\ a \in Attempts
    BY DEF ClaimRequest, importFrame, Made
  <1>5. holding' = {} /\ \A p \in Persons : person'[p].pc # "decline"
    BY <1>4 DEF Whole
  <1>6. ASSUME Imported(i), UNCHANGED req, dock' = dock \/ dock' = [dock EXCEPT ![a] = "none"],
               \/ FailDownload(a)
               \/ MoveAttempt(a, Unsettled, "failed") /\ UNCHANGED failing
        PROVE  Core' /\ Calmer
    <2>1. /\ import'[i].pc = "idle" /\ \A j \in Importers \ {i} : import'[j] = import[j]
          /\ \A j \in Importers : import'[j].pc # "idle" => import'[j] = import[j]
      BY <1>6, ImportedEffect
    <2>2. ~Importing(a)'
      BY <1>2, <2>1 DEF Importing
    <2>3. /\ \A b \in Attempts : att'[b].req = att[b].req /\ att'[b].units = att[b].units
          /\ \A b \in Attempts \ {a} : att'[b].status = att[b].status
          /\ \/ att'[a].status = att[a].status /\ failing' = {}
             \/ att[a].status \in Unsettled /\ att'[a].status = "failed" /\ failing' \in {{}, {a}}
      BY <1>4, <1>6, FailDownloadEffect, MoveEffect DEF TypeInv, Whole
    <2>4. dock'[a] \in {dock[a], "none"} /\ \A b \in Attempts \ {a} : dock'[b] = dock[b]
      BY <1>4, <1>6 DEF TypeInv, DockOK
    <2> QED
      BY <1>2, <1>4, <1>5, <1>6, <2>1, <2>2, <2>3, <2>4, SameReqKeeps, StillDirect, EndCore
  <1>7. CASE /\ req[r] \in WorkerWritable /\ ~Clash(r, "importing")
             /\ MoveRequest(r, WorkerWritable, "importing")
             /\ Imports(i, "link", a) /\ UNCHANGED <<att, dock, failing>>
    <2>1. req' = [req EXCEPT ![r] = "importing"]
      BY <1>7 DEF MoveRequest, UpdateIf
    <2>2. \A b : Importing(b)' => Importing(b)
      BY <1>1, <1>2, <1>7, ImportsEffect DEF Importing
    <2>3. ReqKeeps
      BY <1>2, <1>3, <1>4, <1>7, <2>1, <2>2, ClaimReqKeeps
    <2> QED
      BY <1>1, <1>2, <1>4, <1>7, <2>3, NextImportCore DEF Unplaced
  <1> QED
    BY <1>2, <1>3, <1>6, <1>7 DEF ClaimRequest

LEMMA PlaceCore ==
  ASSUME TypeInv, Core, Whole, NEW i \in Importers, Place(i)
  PROVE  Core' /\ Calmer
  <1>1. import[i].pc = "place"
    BY DEF Place
  <1>2. PICK a \in Made :
          /\ a = import[i].a /\ Importing(a) /\ Apart(a)
          /\ \A j \in Importers : import[j].pc # "idle" /\ import[j].a = a => j = i
          /\ att[a].status \in {"completed", "importing", "failed", "imported"}
          /\ att[a].status # "completed" /\ Unplaced(a) /\ filing[a].pc = "idle"
    BY <1>1, ImportAttempt, ImportingFits
  <1>3. UNCHANGED <<req, client, filing, holding, pass, poll, person>> /\ a \in Attempts
    BY DEF Place, importFrame, Made
  <1>4. holding' = {} /\ \A p \in Persons : person'[p].pc # "decline"
    BY <1>3 DEF Whole
  <1>5. Imported(i)
    BY DEF Place
  <1>6. /\ import'[i].pc = "idle" /\ \A j \in Importers \ {i} : import'[j] = import[j]
        /\ \A j \in Importers : import'[j].pc # "idle" => import'[j] = import[j]
    BY <1>5, ImportedEffect
  <1>7. ~Importing(a)' /\ \A b : Importing(b)' => Importing(b)
    BY <1>2, <1>6 DEF Importing
  <1>8. CASE dock' = [dock EXCEPT ![a] = "placed"] /\ UNCHANGED <<att, failing>>
    <2>1. dock'[a] = "placed" /\ \A b \in Attempts \ {a} : dock'[b] = dock[b]
      BY <1>3, <1>8 DEF TypeInv, DockOK
    <2>2. Touches(a)
      BY <1>3, <1>7, <1>8, <2>1 DEF Touches
    <2>3. Sound(a)'
      BY <1>2, <1>3, <1>7, <1>8, <2>1, AllSound DEF Sound, ActiveAttempt, Whole
    <2>4. ImportsFit'
      BY <1>2, <1>3, <1>6, <2>2, TouchFits
    <2>5. Engaged(a)
      BY <1>2 DEF Engaged
    <2>6. failing' \subseteq Attempts /\ failing' = {}
      BY <1>8 DEF Whole
    <2> QED
      BY <1>2, <1>3, <1>4, <1>8, <2>2, <2>3, <2>4, <2>5, <2>6, SameReqKeeps, StillDirect,
         TouchCore DEF Whole, Made
  <1>9. ASSUME dock' = [dock EXCEPT ![a] = "none"],
               \/ FailIn(AttemptsWithout(a), a)
               \/ /\ att' = [AttemptsWithout(a) EXCEPT ![a].status = UpdateIf(@, Unsettled, "failed")]
                  /\ UNCHANGED failing
        PROVE  Core' /\ Calmer
    <2>1. dock'[a] = "none" /\ \A b \in Attempts \ {a} : dock'[b] = dock[b]
      BY <1>3, <1>9 DEF TypeInv, DockOK
    <2>2. /\ AttemptsWithout(a) \in [Attempts -> AttemptRow]
          /\ \A b \in Attempts : /\ AttemptsWithout(a)[b].req = att[b].req
                                 /\ AttemptsWithout(a)[b].status = att[b].status
                                 /\ AttemptsWithout(a)[b].units = att[b].units
      BY <1>3, WithoutEffect DEF TypeInv
    <2>3. /\ \A b \in Attempts : att'[b].req = att[b].req /\ att'[b].units = att[b].units
          /\ \A b \in Attempts \ {a} : att'[b].status = att[b].status
          /\ \/ att'[a].status = att[a].status /\ failing' = {}
             \/ att[a].status \in Unsettled /\ att'[a].status = "failed" /\ failing' \in {{}, {a}}
      <3>1. CASE FailIn(AttemptsWithout(a), a)
        BY <2>2, <3>1, FailEffect DEF TypeInv, Whole
      <3>2. CASE /\ att' = [AttemptsWithout(a) EXCEPT ![a].status = UpdateIf(@, Unsettled, "failed")]
                 /\ UNCHANGED failing
        <4> HIDE DEF Attempts
        <4> QED
          BY <1>3, <2>2, <3>2 DEF UpdateIf, AttemptRow, Whole
      <3> QED
        BY <1>9, <3>1, <3>2
    <2> QED
      BY <1>2, <1>3, <1>4, <1>6, <1>7, <2>1, <2>3, SameReqKeeps, StillDirect, EndCore
  <1> QED
    BY <1>2, <1>8, <1>9 DEF Place

LEMMA FiledEffect ==
  ASSUME TypeInv, NEW f \in Filers, Filed(f)
  PROVE  filing'[f].pc = "idle" /\ \A g \in Filers \ {f} : filing'[g] = filing[g]
  BY DEF Filed, IdleFiling, TypeInv, FilingOK

LEMMA FilesEffect ==
  ASSUME TypeInv, NEW f \in Filers, NEW pc, Files(f, pc)
  PROVE  /\ filing'[f].pc = pc /\ filing'[f].a = filing[f].a /\ filing'[f].file = filing[f].file
         /\ \A g \in Filers \ {f} : filing'[g] = filing[g]
  BY DEF Files, TypeInv, FilingOK, FilingRow

(* The attempt an import works on is not filed, and not placed. *)
LEMMA NotImporting ==
  ASSUME Core, NEW a, ~Unplaced(a) \/ filing[a].pc # "idle"
  PROVE  ~Importing(a)
  BY ImportingFits DEF Importing

(* A filing goes on with its next step, perhaps taking an entry along. *)
LEMMA FilesCore ==
  ASSUME TypeInv, Core, Whole, ReqKeeps, NEW f \in Filers, filing[f].pc # "idle",
         NEW pc, Files(f, pc), NEW x \in Attempts, f \in Attempts => x = f,
         \A b \in Attempts : att'[b].req = att[b].req /\ att'[b].units = att[b].units
                             /\ att'[b].status = att[b].status,
         \A b \in Attempts \ {x} : dock'[b] = dock[b],
         dock'[x] = dock[x] \/ (~Unplaced(x) /\ ~Unplaced(x)'),
         UNCHANGED <<client, import, failing, holding, pass, poll, person>>
  PROVE  Core' /\ Calmer
  <1>1. /\ filing'[f].pc = pc /\ filing'[f].a = filing[f].a /\ filing'[f].file = filing[f].file
        /\ \A g \in Filers \ {f} : filing'[g] = filing[g]
    BY FilesEffect
  <1>2. \A b \in Attempts \ {x} : filing'[b] = filing[b]
    BY <1>1 DEF Filers
  <1>3. Touches(x)
    BY <1>2 DEF Touches, Importing
  <1>4. Sound(x)
    BY AllSound
  <1>5. filing'[x] = filing[x] \/ (x = f /\ filing[x].pc # "idle" /\ filing'[x].a = filing[x].a
                                    /\ filing'[x].file = filing[x].file)
    BY <1>1 DEF Filers
  <1>6. Sound(x)'
    BY <1>4, <1>5 DEF Sound, Unplaced, Importing
  <1>7. ImportsFit'
    <2>1. \A i \in Importers : import[i].pc # "idle" /\ import[i].a = x => Fits(i)'
      <3> SUFFICES ASSUME NEW i \in Importers, import[i].pc # "idle", import[i].a = x
                   PROVE  Fits(i)'
        OBVIOUS
      <3>1. Fits(i) /\ Unplaced(x) /\ filing[x].pc = "idle"
        BY ImportingFits DEF Fits
      <3> QED
        BY <1>5, <3>1 DEF Fits, Unplaced
    <2> QED
      BY <1>3, <2>1, TouchFits
  <1>8. (Engaged(x)' <=> Engaged(x)) /\ (Importing(x)' <=> Importing(x))
    BY DEF Engaged, Importing
  <1>9. failing' \subseteq Attempts /\ failing' = {} /\ holding' = {}
        /\ \A p \in Persons : person'[p].pc # "decline"
    BY DEF Whole
  <1> QED
    BY <1>3, <1>6, <1>7, <1>8, <1>9, StillDirect, TouchCore DEF Whole

LEMMA IngestedCore ==
  ASSUME TypeInv, Core, Whole, NEW a \in Attempts, Ingested(a)
  PROVE  Core' /\ Calmer
  <1>1. /\ filing'[a].pc = "verify" /\ filing'[a].a = a /\ filing'[a].file = a
        /\ \A f \in Filers \ {a} : filing'[f] = filing[f]
    BY FilerAttempt DEF Ingested, TypeInv, FilingOK
  <1>2. att[a].status = "importing" /\ ~Unplaced(a)
    BY DEF Ingested, Unplaced
  <1>3. UNCHANGED <<req, att, dock, client, import, failing, holding, pass, poll, person>>
    BY DEF Ingested, rows, filingFrame
  <1>4. ~Importing(a) /\ Sound(a)
    BY <1>2, NotImporting, AllSound
  <1>5. Touches(a)
    BY <1>1, <1>3 DEF Touches, Importing, Filers
  <1>6. Sound(a)'
    BY <1>1, <1>2, <1>3, <1>4 DEF Sound, Unplaced, Importing
  <1>7. ImportsFit'
    <2>1. \A i \in Importers : import[i].pc # "idle" => import[i].a # a
      BY <1>4 DEF Importing
    <2> QED
      BY <1>3, <1>5, <2>1, TouchFits
  <1>8. (Engaged(a)' <=> Engaged(a)) /\ (Importing(a)' <=> Importing(a))
    BY <1>3 DEF Engaged, Importing
  <1>9. failing' \subseteq Attempts /\ failing' = {} /\ holding' = {}
        /\ \A p \in Persons : person'[p].pc # "decline"
    BY <1>3 DEF Whole
  <1> QED
    BY <1>3, <1>5, <1>6, <1>7, <1>8, <1>9, SameReqKeeps, StillDirect, TouchCore DEF Whole

LEMMA FileHeldCore ==
  ASSUME TypeInv, Core, Whole, NEW r \in Requests, FileHeld(r)
  PROVE  Core' /\ Calmer
  <1>1. PICK a \in Attempts :
          filing' = [filing EXCEPT ![Moderator] = [pc |-> "file", file |-> HeldFile(r, a), a |-> a]]
    BY DEF FileHeld
  <1>2. \A b \in Attempts : filing'[b] = filing[b]
    BY <1>1 DEF TypeInv, FilingOK, Filers, Moderator, Attempts
  <1>3. UNCHANGED <<req, att, dock, client, import, failing, holding, pass, poll, person>>
    BY DEF FileHeld, rows, filingFrame
  <1>4. failing' = {} /\ holding' = {} /\ \A p \in Persons : person'[p].pc # "decline"
    BY <1>3 DEF Whole
  <1> QED
    BY <1>2, <1>3, <1>4, SameReqKeeps, StillDirect, EndCore

LEMMA VerifyCore ==
  ASSUME TypeInv, Core, Whole, NEW a \in Attempts, Verify(a)
  PROVE  Core' /\ Calmer
  <1>1. /\ a \in Made /\ a \in Filers /\ filing[a].pc # "idle"
        /\ att[a].status \in {"importing", "imported", "failed"}
    BY AllSound, FilerAttempt DEF Verify, Sound, Made
  <1>2. ~Importing(a) /\ (att[a].status \in Unsettled => Apart(a))
    BY <1>1, NotImporting, ApartWhen DEF Unsettled, InFlight, ActiveAttempt
  <1>3. UNCHANGED <<req, dock, client, import, pass, poll, person>>
    BY DEF Verify, filingFrame
  <1>4. CASE Files(a, "file") /\ UNCHANGED <<att, failing, holding>>
    BY <1>1, <1>3, <1>4, SameReqKeeps, FilesCore
  <1>5. Filed(a) => filing'[a].pc = "idle" /\ \A b \in Attempts \ {a} : filing'[b] = filing[b]
    BY <1>1, FiledEffect DEF Filers
  <1>6. CASE HoldForReview(a, FALSE, "verify") /\ Filed(a) /\ UNCHANGED failing
    <2>1. \A i \in Importers : import'[i].pc # "idle" => import'[i] = import[i] /\ import[i].a # a
      BY <1>2, <1>3 DEF Importing
    <2> QED
      BY <1>1, <1>3, <1>5, <1>6, <2>1, HoldCore DEF ActiveAttempt
  <1>7. CASE FailDownload(a) /\ Filed(a) /\ UNCHANGED holding
    <2>1. /\ \A b \in Attempts : att'[b].req = att[b].req /\ att'[b].units = att[b].units
          /\ \A b \in Attempts \ {a} : att'[b].status = att[b].status
          /\ \/ att'[a].status = att[a].status /\ failing' = {}
             \/ att[a].status \in Unsettled /\ att'[a].status = "failed" /\ failing' = {a}
      BY <1>1, <1>7, FailDownloadEffect DEF TypeInv, Whole
    <2>2. ~Importing(a)' /\ holding' = {} /\ \A p \in Persons : person'[p].pc # "decline"
      BY <1>2, <1>3, <1>7 DEF Importing, Whole
    <2> QED
      BY <1>2, <1>3, <1>5, <1>7, <2>1, <2>2, SameReqKeeps, StillDirect, EndCore
  <1> QED
    BY <1>4, <1>6, <1>7 DEF Verify

LEMMA FileIntoLibraryCore ==
  ASSUME TypeInv, Core, Whole, NEW f \in Filers, FileIntoLibrary(f)
  PROVE  Core' /\ Calmer
  <1>1. filing[f].pc # "idle" /\ filing[f].a \in Made /\ filing[f].file \in Attempts
    BY DEF FileIntoLibrary, TypeInv, FilingOK
  <1>2. UNCHANGED <<req, client, import, failing, pass, poll, person>>
    BY DEF FileIntoLibrary, filingFrame
  <1>3. f \in Attempts => /\ filing[f].a = f /\ filing[f].file = f
                          /\ att[f].status \in {"importing", "imported", "failed"}
    BY <1>1, AllSound DEF Sound
  <1>4. PICK x \in Attempts : x = filing[f].file
    BY <1>1
  <1>5. CASE /\ dock[x] = "placed" /\ dock' = [dock EXCEPT ![x] = "filed"]
             /\ att' = AttemptsWithout(x) /\ Files(f, "settle") /\ UNCHANGED holding
    <2>1. dock'[x] = "filed" /\ \A b \in Attempts \ {x} : dock'[b] = dock[b]
      BY <1>5 DEF TypeInv, DockOK
    <2>2. ~Unplaced(x) /\ ~Unplaced(x)'
      BY <1>5, <2>1 DEF Unplaced
    <2>3. \A b \in Attempts : att'[b].req = att[b].req /\ att'[b].units = att[b].units
                              /\ att'[b].status = att[b].status
      BY <1>5, WithoutEffect DEF TypeInv
    <2>4. f \in Attempts => x = f
      BY <1>3, <1>4
    <2> QED
      BY <1>1, <1>2, <1>5, <2>1, <2>2, <2>3, <2>4, SameReqKeeps, FilesCore
  <1>6. ASSUME Filed(f), UNCHANGED dock,
               f = Moderator => UNCHANGED <<att, holding>>,
               f # Moderator => HoldForReview(filing[f].a, FALSE, "verify")
        PROVE  Core' /\ Calmer
    <2>1. filing'[f].pc = "idle" /\ \A g \in Filers \ {f} : filing'[g] = filing[g]
      BY <1>6, FiledEffect
    <2>2. CASE f = Moderator
      <3>1. failing' = {} /\ holding' = {} /\ \A p \in Persons : person'[p].pc # "decline"
        BY <1>2, <1>6, <2>2 DEF Whole
      <3>2. \A b \in Attempts : filing'[b] = filing[b]
        BY <2>1, <2>2 DEF Filers, Moderator, Attempts
      <3> QED
        BY <1>2, <1>4, <1>6, <2>2, <3>1, <3>2, SameReqKeeps, StillDirect, EndCore
    <2>3. CASE f # Moderator
      <3>1. f \in Made /\ f \in Attempts /\ HoldForReview(f, FALSE, "verify")
        BY <1>1, <1>3, <1>6, <2>3 DEF Filers
      <3>2. \A i \in Importers : import'[i].pc # "idle" => import'[i] = import[i] /\ import[i].a # f
        BY <1>1, <1>2, NotImporting DEF Importing
      <3>3. \A b \in Attempts \ {f} : filing'[b] = filing[b]
        BY <2>1 DEF Filers
      <3> QED
        BY <1>2, <1>3, <1>6, <2>1, <3>1, <3>2, <3>3, HoldCore DEF ActiveAttempt
    <2> QED
      BY <2>2, <2>3
  <1> QED
    BY <1>4, <1>5, <1>6 DEF FileIntoLibrary

LEMMA SettleCore ==
  ASSUME TypeInv, Core, Whole, NEW f \in Filers, Settle(f)
  PROVE  Core' /\ Calmer
  <1>1. filing[f].pc # "idle" /\ filing[f].file \in Attempts
    BY DEF Settle, TypeInv, FilingOK
  <1>2. PICK r : r = att[filing[f].a].req
    OBVIOUS
  <1>3. r \in Requests
    BY <1>1, <1>2 DEF TypeInv, FilingOK, AttOK, Made
  <1>4. ReqKeeps
    BY <1>2, <1>3, SameReqKeeps, MoveCases, MoveKeeps DEF Settle, TypeInv, Closed, ActiveRequest
  <1>5. UNCHANGED <<att, dock, client, import, failing, holding, pass, poll, person>>
        /\ Files(f, "mark")
    BY DEF Settle, filingFrame
  <1>6. PICK x \in Attempts : f \in Attempts => x = f
    BY <1>1
  <1> QED
    BY <1>1, <1>4, <1>5, <1>6, FilesCore

LEMMA MarkImportedCore ==
  ASSUME TypeInv, Core, Whole, NEW f \in Filers, MarkImported(f)
  PROVE  Core' /\ Calmer
  <1>1. PICK a \in Made : a = filing[f].a /\ MoveAttempt(a, Unsettled, "imported")
    BY DEF MarkImported, TypeInv, FilingOK
  <1>2. UNCHANGED <<req, dock, client, import, failing, holding, pass, poll, person>>
    BY DEF MarkImported, filingFrame
  <1>3. a \in Attempts /\ (f \in Attempts => a = f)
    BY <1>1, AllSound DEF MarkImported, Sound, Made
  <1>4. filing'[f].pc = "idle" /\ \A g \in Filers \ {f} : filing'[g] = filing[g]
    BY FiledEffect DEF MarkImported
  <1>5. /\ \A b \in Attempts \ {a} : filing'[b] = filing[b]
        /\ filing'[a] = filing[a] \/ filing'[a].pc = "idle"
    BY <1>3, <1>4 DEF Filers
  <1>6. /\ \A b \in Attempts : att'[b].req = att[b].req /\ att'[b].units = att[b].units
        /\ \A b \in Attempts \ {a} : att'[b] = att[b]
        /\ \/ att'[a].status = att[a].status
           \/ att[a].status \in Unsettled /\ att'[a].status = "imported"
    BY <1>1, <1>3, MoveEffect DEF TypeInv
  <1>7. failing' = {} /\ holding' = {} /\ \A p \in Persons : person'[p].pc # "decline"
    BY <1>2 DEF Whole
  <1> QED
    BY <1>2, <1>3, <1>5, <1>6, <1>7, SameReqKeeps, StillDirect, EndCore

(* People. *)

(* What the invariant asks of a person's operation. *)
Straight(p) == person[p].op # "stop" /\ person[p].pc \notin {"reopen", "undo", "restore"}

LEMMA DoesDirect ==
  ASSUME TypeInv, Core, Whole, NEW p \in Persons,
         \/ Free(p)
         \/ \E pc \in {"close", "fail", "sweep", "empty"} : Does(p, pc)
         \/ \E a : person' = [person EXCEPT ![p].pc = "fail", ![p].a = a]
         \/ \E pc \in {"detach", "discard"}, op \in {"cancel", "fulfil", "discard"} :
              \E r, a, f : Begins(p, pc, op, r, a, f)
  PROVE  Direct' /\ \A q \in Persons : person'[q].pc # "decline"
  <1>1. person \in [Persons -> PersonRow]
    BY DEF TypeInv, PersonOK
  <1>2. \A q \in Persons \ {p} : person'[q] = person[q]
    BY <1>1 DEF Free, Does, Begins
  <1>3. Straight(p)' /\ person'[p].pc # "decline"
    <2>1. Straight(p)
      BY DEF Core, Direct, Straight
    <2> QED
      BY <1>1, <2>1 DEF Straight, Free, Does, Begins, IdlePerson, PersonRow
  <1> QED
    BY <1>2, <1>3 DEF Core, Direct, Whole, Straight

LEMMA PersonBeginsCore ==
  ASSUME TypeInv, Core, Whole, NEW p \in Persons, NEW r \in Requests,
         Cancel(p, r) \/ Fulfil(p, r) \/ Discard(p, r)
  PROVE  Core' /\ Calmer
  <1>1. Direct' /\ \A q \in Persons : person'[q].pc # "decline"
    BY DoesDirect DEF Cancel, Fulfil, Discard
  <1>2. ReqKeeps
    BY SameReqKeeps, MoveCases, MoveKeeps
    DEF Cancel, Fulfil, Discard, rows, TypeInv, Closed, ActiveRequest
  <1> QED
    BY <1>1, <1>2, AloneCore DEF Cancel, Fulfil, Discard, rows, personFrame

LEMMA CloseCore ==
  ASSUME TypeInv, Core, Whole, NEW p \in Persons, Close(p)
  PROVE  Core' /\ Calmer
  <1>1. Direct' /\ \A q \in Persons : person'[q].pc # "decline"
    BY DoesDirect DEF Close
  <1>2. person[p].r \in Requests
    BY DEF Close, TypeInv, PersonOK
  <1>3. ReqKeeps
    BY <1>2, SameReqKeeps, MoveCases, MoveKeeps DEF Close, TypeInv, Closed, ActiveRequest
  <1> QED
    BY <1>1, <1>3, AloneCore DEF Close, personFrame

LEMMA DetachCore ==
  ASSUME TypeInv, Core, Whole, NEW p \in Persons, Detach(p)
  PROVE  Core' /\ Calmer
  <1>1. UNCHANGED <<req, att, dock, failing, holding, pass, poll, import, filing>>
    BY DEF Detach, rows, personFrame
  <1>2. CASE ToDetach(p) = {}
    <2>1. Direct' /\ \A q \in Persons : person'[q].pc # "decline"
      BY <1>2, DoesDirect DEF Detach
    <2> QED
      BY <1>1, <1>2, <2>1, SameReqKeeps, AloneCore DEF Detach
  <1>3. CASE ToDetach(p) # {}
    <2>1. PICK a \in ToDetach(p), refused \in BOOLEAN :
            /\ client' = IF refused THEN client ELSE [client EXCEPT ![a] = "none"]
            /\ IF refused /\ person[p].op = "stop" THEN Free(p)
                 ELSE person' = [person EXCEPT ![p].pc = "fail", ![p].a = a]
      BY <1>3 DEF Detach
    <2>2. Direct' /\ \A q \in Persons : person'[q].pc # "decline"
      BY <2>1, DoesDirect
    <2>3. person[p].op # "stop"
      BY DEF Core, Direct
    <2>4. a \in Attempts
      BY <2>1, <2>3 DEF ToDetach
    <2>5. client'[a] \in {client[a], "none"} /\ \A b \in Attempts \ {a} : client'[b] = client[b]
      BY <2>1, <2>4 DEF TypeInv, ClientOK
    <2>6. failing' = {} /\ holding' = {}
      BY <1>1 DEF Whole
    <2> QED
      BY <1>1, <2>2, <2>4, <2>5, <2>6, SameReqKeeps, EndCore
  <1> QED
    BY <1>2, <1>3

LEMMA FailAttemptCore ==
  ASSUME TypeInv, Core, Whole, NEW p \in Persons, FailAttempt(p)
  PROVE  Core' /\ Calmer
  <1>1. PICK a \in Made : a = person[p].a /\ MoveAttempt(a, InFlight, "failed")
    BY DEF FailAttempt, TypeInv, PersonOK
  <1>2. a \in Attempts
    BY DEF Made
  <1>3. UNCHANGED <<req, dock, client, failing, holding, pass, poll, import, filing>>
    BY DEF FailAttempt, personFrame
  <1>4. Direct' /\ \A q \in Persons : person'[q].pc # "decline"
    <2>1. person[p].op # "stop"
      BY DEF Core, Direct
    <2>2. Free(p) \/ Does(p, "close")
      BY <2>1 DEF FailAttempt
    <2> QED
      BY <2>2, DoesDirect
  <1>5. /\ \A b \in Attempts : att'[b].req = att[b].req /\ att'[b].units = att[b].units
        /\ \A b \in Attempts \ {a} : att'[b] = att[b]
        /\ \/ att'[a].status = att[a].status
           \/ att[a].status \in Unsettled /\ att'[a].status = "failed"
    BY <1>1, <1>2, MoveEffect DEF TypeInv, Unsettled
  <1>6. failing' = {} /\ holding' = {}
    BY <1>3 DEF Whole
  <1> QED
    BY <1>2, <1>3, <1>4, <1>5, <1>6, SameReqKeeps, EndCore

LEMMA SweepAttemptsCore ==
  ASSUME TypeInv, Core, Whole, NEW p \in Persons, SweepAttempts(p)
  PROVE  Core' /\ Calmer
  <1>1. Settling
    BY DEF SweepAttempts, Settling, TypeInv, AttOK, AttemptRow, UpdateIf, InFlight, ActiveAttempt
  <1>2. UNCHANGED <<req, dock, client, failing, holding, pass, poll, import, filing>>
    BY DEF SweepAttempts, personFrame
  <1>3. Direct' /\ \A q \in Persons : person'[q].pc # "decline"
    BY DoesDirect DEF SweepAttempts
  <1>4. OneHalf' /\ Pending'
    BY <1>2, <1>3, StillWhole DEF Whole
  <1>5. Polled' /\ ImportsFit' /\ Entries' /\ Fresh' /\ Added' /\ Calmer
    BY <1>1, <1>2, SettlingFrames
  <1>6. \A a \in Made : att'[a].status \in ActiveAttempt => att[a].status \in ActiveAttempt
    BY <1>1, SettlingKeeps DEF TypeInv
  <1>7. Claims' /\ HoldsClaim' /\ OneActive' /\ OneEngaged' /\ OneHolds' /\ HoldsAlone'
    BY <1>2, <1>5, <1>6, SameHolds, SameReqKeeps, KeepsClaims, NoDeclining
  <1> QED
    BY <1>3, <1>4, <1>5, <1>7 DEF Core

LEMMA DiscardRequestCore ==
  ASSUME TypeInv, Core, Whole, NEW p \in Persons, DiscardRequest(p)
  PROVE  Core' /\ Calmer
  <1>1. PICK r \in Requests : r = person[p].r
    BY DEF DiscardRequest, TypeInv, PersonOK
  <1>2. UNCHANGED <<att, dock, client, failing, holding, pass, poll, import, filing>>
    BY DEF DiscardRequest, personFrame
  <1>3. CASE req[r] # "needs_review"
    <2>1. UNCHANGED req
      BY <1>1, <1>3, MoveCases DEF DiscardRequest, TypeInv
    <2>2. Direct' /\ \A q \in Persons : person'[q].pc # "decline"
      BY <1>1, <1>3, DoesDirect DEF DiscardRequest
    <2> QED
      BY <1>2, <2>1, <2>2, SameReqKeeps, AloneCore
  <1>4. CASE req[r] = "needs_review"
    <2>1. req' = [req EXCEPT ![r] = "failed"] /\ Does(p, "decline")
      BY <1>1, <1>4 DEF DiscardRequest, MoveRequest, UpdateIf
    <2>2. req'[r] = "failed" /\ \A q \in Requests : q # r => req'[q] = req[q]
      BY <2>1 DEF TypeInv, ReqOK
    <2>3. /\ person'[p].pc = "decline" /\ person'[p].r = r /\ person'[p].op = person[p].op
          /\ \A q \in Persons \ {p} : person'[q] = person[q]
      BY <1>1, <2>1 DEF Does, TypeInv, PersonOK, PersonRow
    <2>4. Direct'
      BY <2>3 DEF Core, Direct
    <2>5. OneActive'
      BY <2>1, MoveActive DEF TypeInv, Core, ActiveRequest
    <2>6. OneHalf'
      <3>1. \A q \in Persons : person'[q].pc = "decline" => q = p
        BY <2>3 DEF Whole
      <3>2. \A q \in Requests : BookOf[q] = BookOf[r] => req'[q] \notin ActiveRequest
        BY <1>4, <2>2 DEF Core, OneActive, ActiveRequest
      <3> QED
        BY <1>2, <2>2, <2>3, <3>1, <3>2 DEF OneHalf, Whole
    <2>7. HoldsClaim'
      <3>1. \A q \in Passes : Holds(q) => pass[q].r # r /\ pass[q].r \in Requests
        BY <1>4 DEF Core, HoldsClaim, Closed, Holds, TypeInv, PassOK
      <3> QED
        BY <1>2, <2>2, <3>1 DEF Core, HoldsClaim, Holds
    <2>8. Claims'
      <3>1. Made' = Made /\ \A a : Engaged(a)' <=> Engaged(a)
        BY <1>2 DEF Made, Engaged, Importing
      <3>2. \A q : q # r => ~Declining(q)
        BY NoDeclining
      <3>3. Declining(r)'
        BY <2>3 DEF Declining
      <3>4. \A a \in Made : /\ att[a].req \in Requests
                            /\ att[a].status \in ActiveAttempt =>
                                 att[a].req # r /\ req[att[a].req] \in ActiveTransferRequest \cup Closed
                            /\ Engaged(a) => att[a].req = r \/ req[att[a].req] \in Taken
        BY <1>4, <3>2 DEF Core, Claims, ActiveTransferRequest, Closed, TypeInv, AttOK, Made
      <3> SUFFICES ASSUME NEW a \in Made
                   PROVE  /\ att[a].status \in ActiveAttempt =>
                               req'[att[a].req] \in ActiveTransferRequest \cup Closed
                          /\ Engaged(a) => \/ req'[att[a].req] \in Taken
                                           \/ att[a].req = r
        BY <1>2, <3>1, <3>3, Zenon DEF Claims
      <3> QED
        BY <2>2, <3>4
    <2>9. Pending'
      BY <1>2 DEF Pending, Whole
    <2>10. OneEngaged' /\ OneHolds' /\ HoldsAlone'
      BY <1>2, SameCalm, SameHolds, CalmClaims
    <2> QED
      BY SameCalm, <1>2, <2>4, <2>5, <2>6, <2>7, <2>8, <2>9, <2>10, Frames DEF Core
  <1> QED
    BY <1>3, <1>4

LEMMA EmptyCore ==
  ASSUME Orderly, TypeInv, Core, Whole, NEW p \in Persons, Empty(p)
  PROVE  Core' /\ Calmer
  <1>1. PICK f : f = person[p].file
    OBVIOUS
  <1>2. UNCHANGED <<req, client, failing, holding, pass, poll, import, filing>>
    BY DEF Empty, personFrame
  <1>3. \/ UNCHANGED <<att, dock>> /\ Free(p)
        \/ /\ f # None /\ dock' = [dock EXCEPT ![f] = "none"] /\ att' = AttemptsWithout(f) /\ Free(p)
    BY <1>1 DEF Empty, Orderly, TypeInv, SpentOK
  <1>4. Direct' /\ \A q \in Persons : person'[q].pc # "decline"
    BY <1>3, DoesDirect
  <1>5. CASE UNCHANGED <<att, dock>>
    BY <1>2, <1>4, <1>5, SameReqKeeps, AloneCore
  <1>6. CASE f # None /\ dock' = [dock EXCEPT ![f] = "none"] /\ att' = AttemptsWithout(f)
    <2>1. f \in Attempts
      BY <1>1, <1>6 DEF TypeInv, PersonOK, PersonRow
    <2>2. dock'[f] = "none" /\ \A b \in Attempts \ {f} : dock'[b] = dock[b]
      BY <1>6, <2>1 DEF TypeInv, DockOK
    <2>3. \A b \in Attempts : att'[b].req = att[b].req /\ att'[b].units = att[b].units
                              /\ att'[b].status = att[b].status
      BY <1>6, <2>1, WithoutEffect DEF TypeInv
    <2>4. failing' = {} /\ holding' = {}
      BY <1>2 DEF Whole
    <2> QED
      BY <1>2, <1>4, <2>1, <2>2, <2>3, <2>4, SameReqKeeps, EndCore
  <1> QED
    BY <1>3, <1>5, <1>6

LEMMA PersonStepCore ==
  ASSUME Orderly, TypeInv, Core, Whole, NEW p \in Persons, PersonStep(p)
  PROVE  Core' /\ Calmer
  <1>1. person[p].pc \notin {"reopen", "decline", "undo", "restore"}
    BY DEF Core, Direct, Whole
  <1> QED
    BY <1>1, DetachCore, FailAttemptCore, CloseCore, SweepAttemptsCore, DiscardRequestCore,
       EmptyCore DEF PersonStep, Reopen, DiscardAttempt, UndoRequest, UndoAttempt

-----------------------------------------------------------------------------
(* The Book Dock, the client, and the watchdog. *)

LEMMA OutsideCore ==
  ASSUME TypeInv, Core, Whole, NEW a \in Attempts, DockEmptied(a)
  PROVE  Core' /\ Calmer
  <1>1. UNCHANGED <<req, client, failing, holding, pass, poll, import, filing, person>>
    BY DEF DockEmptied, work
  <1>2. dock'[a] = "none" /\ \A b \in Attempts \ {a} : dock'[b] = dock[b]
    BY DEF DockEmptied, TypeInv, DockOK
  <1>3. \A b \in Attempts : att'[b].req = att[b].req /\ att'[b].units = att[b].units
                            /\ att'[b].status = att[b].status
    BY WithoutEffect DEF DockEmptied, TypeInv
  <1>4. failing' = {} /\ holding' = {} /\ \A q \in Persons : person'[q].pc # "decline"
    BY <1>1 DEF Whole
  <1> QED
    BY <1>1, <1>2, <1>3, <1>4, SameReqKeeps, StillDirect, EndCore

LEMMA ClientEndsCore ==
  ASSUME TypeInv, Core, Whole, NEW a \in Attempts, ClientEnds(a)
  PROVE  Core' /\ Calmer
  <1>1. UNCHANGED <<req, att, dock, failing, holding, pass, poll, import, filing, person>>
    BY DEF ClientEnds, rows, work
  <1>2. client[a] = "working" /\ \A b \in Attempts \ {a} : client'[b] = client[b]
    BY DEF ClientEnds, TypeInv, ClientOK
  <1>3. Touches(a)
    BY <1>1, <1>2 DEF Touches, Importing
  <1>4. Apart(a) /\ Sound(a)
    BY <1>2, ApartWhen, AllSound
  <1>5. Sound(a)'
    BY <1>1, <1>2, <1>4 DEF Sound, Unplaced, Importing
  <1>6. ImportsFit'
    BY <1>1, Frames
  <1>7. Engaged(a)' <=> Engaged(a)
    BY <1>1 DEF Engaged, Importing
  <1>8. failing' \subseteq Attempts /\ failing' = {} /\ holding' = {}
        /\ \A q \in Persons : person'[q].pc # "decline"
    BY <1>1 DEF Whole
  <1> QED
    BY <1>1, <1>3, <1>4, <1>5, <1>6, <1>7, <1>8, SameReqKeeps, StillDirect, TouchCore DEF Whole

LEMMA WatchdogCore ==
  ASSUME Orderly, TypeInv, Core, Whole, NEW a \in Attempts, WatchdogReads(a) \/ WatchdogActs(a)
  PROVE  Core' /\ Calmer
  <1>1. CASE WatchdogReads(a)
    BY <1>1, SameReqKeeps, StillDirect, AloneCore DEF WatchdogReads, rows, outside, work, Whole
  <1>2. CASE WatchdogActs(a)
    <2>1. ~WorkedOn(a)
      BY <1>2 DEF WatchdogActs, Orderly, TypeInv, SpentOK
    <2>2. ~Importing(a) /\ Apart(a) /\ a \in Made
      BY <1>2, <2>1, ApartWhen DEF WorkedOn, InImport, Importing, WatchdogActs, TypeInv, StaleOK
    <2>3. UNCHANGED <<req, dock, client, holding, pass, poll, import, filing, person>>
      BY <1>2 DEF WatchdogActs, outside
    <2>4. /\ \A b \in Attempts : att'[b].req = att[b].req /\ att'[b].units = att[b].units
          /\ \A b \in Attempts \ {a} : att'[b].status = att[b].status
          /\ \/ att'[a].status = att[a].status /\ failing' = {}
             \/ att[a].status \in Unsettled /\ att'[a].status = "failed" /\ failing' = {a}
      BY <1>2, <2>2, FailDownloadEffect DEF WatchdogActs, TypeInv, Whole
    <2>5. ~Importing(a)' /\ holding' = {} /\ \A q \in Persons : person'[q].pc # "decline"
      BY <2>2, <2>3 DEF Importing, Whole
    <2> QED
      BY <2>2, <2>3, <2>4, <2>5, SameReqKeeps, StillDirect, EndCore
  <1> QED
    BY <1>1, <1>2

(* Discarding starts from an attempt of the request. *)
Discards == \A p \in Persons :
  person[p].pc \in {"discard", "decline"} => att[person[p].a].req = person[p].r

(* The second of two updates follows the first. *)

LEMMA FailRequestCore ==
  ASSUME TypeInv, Core, NEW a \in Attempts, FailRequest(a)
  PROVE  Core' /\ Calmer
  <1>1. a \in failing /\ a \in Made /\ failing' = failing \ {a}
    BY DEF FailRequest, TypeInv, FailingOK
  <1>2. PICK r \in Requests : r = att[a].req
    BY <1>1 DEF TypeInv, AttOK, Made
  <1>3. UNCHANGED <<att, dock, client, import, filing, holding, pass, poll, person>>
    BY DEF FailRequest, outside
  <1>4. Sound(a) /\ Apart(a) /\ Engaged(a)
    BY <1>1, AllSound, ApartWhen DEF Engaged
  <1>5. att[a].status = "failed" /\ ~Importing(a)
    BY <1>1, <1>4 DEF Sound
  <1>6. holding = {} /\ \A p \in Persons : person[p].pc # "decline"
    BY <1>1 DEF Core, OneHalf
  <1>7. ~Engaged(a)'
    BY <1>1, <1>3, <1>5 DEF Engaged, Importing, Unsettled, InFlight, ActiveAttempt
  <1>8. \A b \in Made : Engaged(b)' => att[b].req # r
    <2>1. \A b \in Made : Engaged(b)' => Engaged(b)
      BY <1>1, <1>3 DEF Engaged, Importing
    <2> QED
      BY <1>1, <1>2, <1>4, <1>7, <2>1 DEF Core, OneEngaged
  <1>9. \A p \in Passes : Holds(p)' => pass[p].r # r
    BY <1>1, <1>2, <1>3, <1>4 DEF Core, HoldsAlone, Holds, Apart
  <1>10. ReqKeeps
    BY <1>2, <1>8, <1>9, SameReqKeeps, MoveCases, ReleaseKeeps
    DEF FailRequest, TypeInv, ActiveRequest
  <1>11. Touches(a)
    BY <1>1, <1>3 DEF Touches, Importing
  <1>12. Sound(a)'
    BY <1>1, <1>3, <1>4 DEF Sound, Unplaced, Importing
  <1>13. ImportsFit'
    BY <1>3, Frames
  <1>14. failing' \subseteq Attempts
    BY <1>1 DEF TypeInv, FailingOK, Made
  <1>15. \A p \in Persons : person'[p].pc # "decline"
    BY <1>3, <1>6
  <1> QED
    BY <1>3, <1>4, <1>6, <1>7, <1>10, <1>11, <1>12, <1>13, <1>14, <1>15, StillDirect, TouchCore

LEMMA PollMovesCore ==
  ASSUME TypeInv, Core, NEW a \in Attempts, PollMoves(a)
  PROVE  Core' /\ Calmer
  <1>1. /\ poll[a].pc = "move" /\ a \in Made
        /\ poll'[a].pc = "idle" /\ \A b \in Attempts \ {a} : poll'[b] = poll[b]
    BY DEF PollMoves, Unpolled, IdlePoll, TypeInv, PollOK
  <1>2. PICK r \in Requests : r = att[a].req
    BY <1>1 DEF TypeInv, AttOK, Made
  <1>3. UNCHANGED <<att, dock, client, import, filing, failing, holding, pass, person>>
    BY DEF PollMoves, outside
  <1>4. \/ UNCHANGED req
        \/ req[r] \in DownloadingFrom /\ req' = [req EXCEPT ![r] = "downloading"]
    BY <1>2, MoveCases DEF PollMoves, TypeInv
  <1>5. att[a].status \in {"downloading", "completed"}
    BY <1>1, AllSound DEF Sound
  <1>6. Engaged(a) /\ Apart(a)
    BY <1>5, ApartWhen DEF Engaged, Unsettled, InFlight, ActiveAttempt
  <1>7. \A p \in Passes : Holds(p) => pass[p].r # r
    BY <1>1, <1>2, <1>6 DEF Core, HoldsAlone, Apart
  <1>8. ReqKeeps
    <2>1. CASE UNCHANGED req
      BY <2>1, SameReqKeeps
    <2>2. CASE req[r] \in DownloadingFrom /\ req' = [req EXCEPT ![r] = "downloading"]
      <3>1. req'[r] = "downloading" /\ \A q : q # r => req'[q] = req[q]
        BY <2>2 DEF TypeInv, ReqOK
      <3>2. OneActive'
        BY <2>2, MoveActive DEF TypeInv, Core, ActiveRequest, DownloadingFrom
      <3> QED
        BY <1>3, <1>7, <3>1, <3>2 DEF ReqKeeps, Holds, Taken, ActiveTransferRequest
    <2> QED
      BY <1>4, <2>1, <2>2
  <1>9. OneHalf'
    <2>1. \A q \in Requests : req'[q] # req[q] => q = r /\ req[r] \in ActiveRequest
                                                  /\ req'[r] \in ActiveRequest
      BY <1>4 DEF TypeInv, ReqOK, ActiveRequest, DownloadingFrom
    <2>2. \A p \in Persons : person[p].pc = "decline" => person[p].r \in Requests
      BY DEF TypeInv, PersonOK
    <2> QED
      BY <1>3, <2>1, <2>2 DEF Core, OneHalf, ActiveRequest
  <1>10. Polled'
    BY <1>1, <1>3 DEF Core, Polled, Importing
  <1>11. Calmer /\ HoldsOn
    BY <1>3, SameCalm, SameHolds
  <1>12. Claims' /\ HoldsClaim' /\ OneActive' /\ OneEngaged' /\ OneHolds' /\ HoldsAlone'
    <2>1. \A q \in Requests : Declining(q) => Declining(q)'
      BY <1>3 DEF Declining
    <2> QED
      BY <1>3, <1>8, <1>11, <2>1, KeepsClaims
  <1> QED
    BY <1>3, <1>9, <1>10, <1>11, <1>12, Frames DEF Core

LEMMA HoldRequestCore ==
  ASSUME TypeInv, Core, NEW a \in Attempts, NEW from \in {"import", "verify"},
         HoldRequest(a, from)
  PROVE  Core' /\ Calmer
  <1>1. <<a, from>> \in holding /\ holding' = holding \ {<<a, from>>}
    BY DEF HoldRequest
  <1>2. a \in Made /\ att[a].status = "needs_review"
    BY <1>1 DEF TypeInv, HoldingOK, Core, Pending
  <1>3. holding' = {} /\ failing = {} /\ \A p \in Persons : person[p].pc # "decline"
    BY <1>1 DEF Core, OneHalf
  <1>4. UNCHANGED <<dock, client, import, filing, pass, poll, person>>
    BY DEF HoldRequest, outside
  <1>5. PICK r \in Requests : r = att[a].req
    BY <1>2 DEF TypeInv, AttOK, Made
  <1>6. Sound(a) /\ Apart(a) /\ Engaged(a)
    BY <1>2, AllSound, ApartWhen DEF Engaged, Unsettled
  <1>7. ~Importing(a) /\ ~Importing(a)'
    <2>1. ~Importing(a)
      BY <1>2, ImportingFits DEF Importing
    <2> QED
      BY <1>4, <2>1 DEF Importing
  <1>8. \/ ReqKeeps /\ UNCHANGED <<att, failing>>
        \/ UNCHANGED req /\ FailDownload(a)
    <2>1. CASE Clash(r, "needs_review")
      BY <1>5, <2>1, SameReqKeeps DEF HoldRequest
    <2>2. CASE ~Clash(r, "needs_review")
      <3>1. UNCHANGED <<att, failing>> /\ MoveRequest(r, WorkerWritable, "needs_review")
        BY <1>5, <2>2 DEF HoldRequest
      <3>2. CASE UNCHANGED req
        BY <3>1, <3>2, SameReqKeeps
      <3>3. CASE req' = [req EXCEPT ![r] = "needs_review"]
        <4>1. req'[r] = "needs_review" /\ \A q : q # r => req'[q] = req[q]
          BY <3>3 DEF TypeInv, ReqOK
        <4>2. OneActive'
          BY <2>2, <3>3, MoveActive DEF TypeInv, Core
        <4>3. \A p \in Passes : Holds(p)' => pass[p].r # r
          BY <1>2, <1>4, <1>5, <1>6 DEF Core, HoldsAlone, Apart, Holds
        <4>4. \A b \in Made : att'[b].status \in ActiveAttempt => att[b].req # r
          <5> SUFFICES ASSUME NEW b \in Made, att[b].status \in ActiveAttempt, att[b].req = r
                       PROVE  FALSE
            BY <3>1
          <5>1. Engaged(b)
            BY DEF Engaged, Unsettled, InFlight
          <5>2. b = a
            BY <1>2, <1>5, <1>6, <5>1 DEF Core, OneEngaged
          <5> QED
            BY <1>2, <5>2 DEF ActiveAttempt
        <4> QED
          BY <3>1, <4>1, <4>2, <4>3, <4>4 DEF ReqKeeps, Taken
      <3> QED
        BY <3>1, <3>2, <3>3, MoveCases DEF TypeInv
    <2> QED
      BY <2>1, <2>2
  <1>9. /\ \A b \in Attempts : att'[b].req = att[b].req /\ att'[b].units = att[b].units
        /\ \A b \in Attempts \ {a} : att'[b].status = att[b].status
        /\ \/ att'[a].status = att[a].status /\ failing' = {}
           \/ att'[a].status = "failed" /\ failing' = {a}
    BY <1>2, <1>3, <1>8, FailDownloadEffect DEF TypeInv
  <1>10. ReqKeeps
    BY <1>8, SameReqKeeps
  <1>11. Touches(a)
    BY <1>3, <1>4, <1>9 DEF Touches, Importing
  <1>12. Sound(a)'
    BY <1>2, <1>3, <1>4, <1>6, <1>7, <1>9 DEF Sound, Unplaced, ActiveAttempt
  <1>13. ImportsFit'
    <2>1. \A i \in Importers : import[i].pc # "idle" => import[i].a # a
      BY <1>7 DEF Importing
    <2> QED
      BY <1>4, <1>11, <2>1, TouchFits
  <1>14. failing' \subseteq Attempts /\ \A p \in Persons : person'[p].pc # "decline"
    BY <1>3, <1>4, <1>9
  <1>15. /\ att'[a].status = "absent" <=> att[a].status = "absent"
         /\ att'[a].status \in ActiveAttempt => att[a].status \in ActiveAttempt
    BY <1>2, <1>9 DEF ActiveAttempt
  <1> QED
    BY <1>3, <1>4, <1>6, <1>10, <1>11, <1>12, <1>13, <1>14, <1>15, StillDirect, TouchCore

LEMMA DiscardAttemptCore ==
  ASSUME TypeInv, Core, Discards, NEW p \in Persons, DiscardAttempt(p)
  PROVE  Core' /\ Calmer
  <1>1. PICK a \in Made, r \in Requests : a = person[p].a /\ r = person[p].r /\ att[a].req = r
    BY DEF DiscardAttempt, TypeInv, PersonOK, Discards
  <1>2. person[p].pc = "decline" /\ a \in Attempts
    BY DEF DiscardAttempt, Made
  <1>3. /\ failing = {} /\ holding = {} /\ req[r] = "failed"
        /\ \A q \in Persons : person[q].pc = "decline" => q = p
        /\ \A q \in Requests : BookOf[q] = BookOf[r] => req[q] \notin ActiveRequest
    BY <1>1, <1>2 DEF Core, OneHalf
  <1>4. UNCHANGED <<dock, client, failing, holding, import, filing, pass, poll>>
    BY DEF DiscardAttempt, personFrame
  <1>5. Free(p) \/ Does(p, "empty")
    BY <1>1 DEF DiscardAttempt
  <1>6. \A q \in Persons \ {p} : person'[q] = person[q]
    BY <1>5 DEF Free, Does, TypeInv, PersonOK
  <1>7. person'[p].pc \in {"idle", "empty"} /\ person'[p].op # "stop"
    BY <1>5 DEF Free, Does, IdlePerson, TypeInv, PersonOK, PersonRow, Core, Direct
  <1>8. Direct' /\ \A q \in Persons : person'[q].pc # "decline"
    BY <1>3, <1>6, <1>7 DEF Core, Direct
  <1>9. OneHalf' /\ Pending'
    BY <1>3, <1>4, <1>8, StillWhole
  <1>10. \A q \in Requests : Declining(q) => q = r
    BY <1>1, <1>3 DEF Declining
  <1>11. CASE att[a].status = "needs_review"
    <2>1. /\ \A b \in Attempts : att'[b].req = att[b].req /\ att'[b].units = att[b].units
          /\ \A b \in Attempts \ {a} : att'[b] = att[b]
          /\ att'[a].status = "failed"
      BY <1>1, <1>2, <1>11, MoveEffect DEF DiscardAttempt, TypeInv
    <2>2. UNCHANGED req
      BY <1>1, <1>11 DEF DiscardAttempt
    <2>3. Settling
      BY <1>2, <1>11, <2>1 DEF Settling
    <2>4. ImportsFit' /\ Entries' /\ Fresh' /\ Added' /\ Calmer
      BY <1>4, <2>3, SettlingFrames
    <2>5. Polled'
      <3>1. poll[a].pc \notin {"asked", "move"}
        BY <1>2, <1>11, AllSound DEF Sound, ActiveAttempt
      <3> QED
        BY <1>4, <2>1, <3>1 DEF Core, Polled, Importing
    <2>6. ~Importing(a) /\ Engaged(a)
      BY <1>11, ImportingFits DEF Importing, Engaged, Unsettled
    <2>7. \A b \in Made : Engaged(b)' => att[b].req # r
      <3>1. ~Engaged(a)'
        BY <1>3, <1>4, <2>1, <2>6 DEF Engaged, Importing, Unsettled, InFlight, ActiveAttempt
      <3> QED
        BY <1>1, <2>4, <2>6, <3>1 DEF Calmer, Core, OneEngaged
    <2>8. \A b \in Made : att'[b].status \in ActiveAttempt => att[b].status \in ActiveAttempt
      BY <2>3, SettlingKeeps DEF TypeInv
    <2>9. Claims' /\ HoldsClaim' /\ OneActive' /\ OneEngaged' /\ OneHolds' /\ HoldsAlone'
      BY <1>4, <1>10, <2>2, <2>4, <2>7, <2>8, SameHolds, SameReqKeeps, KeepsClaims
    <2> QED
      BY <1>8, <1>9, <2>4, <2>5, <2>9 DEF Core
  <1>12. CASE att[a].status # "needs_review"
    <2>1. UNCHANGED att
      <3>1. att' = [att EXCEPT ![a].status = att[a].status]
        BY <1>1, <1>12 DEF DiscardAttempt, MoveAttempt, UpdateIf
      <3> QED
        BY <1>2, <3>1 DEF TypeInv, AttOK, AttemptRow
    <2>2. ~Clash(r, "needs_review")
      BY <1>3 DEF Clash
    <2>3. req' = [req EXCEPT ![r] = "needs_review"]
      BY <1>1, <1>3, <1>12, <2>2 DEF DiscardAttempt, ReviewAgain, MoveRequest, UpdateIf
    <2>4. ReqKeeps
      BY <1>3, <2>2, <2>3, MoveKeeps DEF TypeInv, Taken, Closed
    <2>5. req'[r] \in Taken
      BY <2>3 DEF TypeInv, ReqOK, Taken
    <2>6. Calmer /\ HoldsOn
      BY <1>4, <2>1, SameCalm, SameHolds
    <2>7. Claims' /\ HoldsClaim' /\ OneActive' /\ OneEngaged' /\ OneHolds' /\ HoldsAlone'
      BY <1>10, <2>1, <2>4, <2>5, <2>6, KeepsClaims
    <2> QED
      BY <1>4, <1>8, <1>9, <2>1, <2>6, <2>7, Frames DEF Core
  <1> QED
    BY <1>11, <1>12

LEMMA CrashCore ==
  ASSUME Orderly, TypeInv, Core, ServerCrash
  PROVE  Core' /\ Calmer
  <1>1. Persons = {}
    BY DEF ServerCrash, Orderly, TypeInv, SpentOK
  <1>2. UNCHANGED <<req, att, dock, client>>
    BY DEF ServerCrash, rows, outside
  <1>3. /\ \A a \in Attempts : poll'[a].pc = "idle" /\ filing'[a].pc = "idle"
        /\ \A i \in Importers : import'[i].pc = "idle"
        /\ \A p \in Passes : pass'[p].pc = "idle"
        /\ failing' = {} /\ holding' = {}
    BY DEF ServerCrash, IdlePoll, IdleImport, IdleFiling, IdlePass, Filers
  <1>4. Direct' /\ OneHalf' /\ Pending'
    BY <1>1, <1>3 DEF Direct, OneHalf, Pending
  <1>5. Polled' /\ ImportsFit' /\ Entries' /\ Fresh'
    <2>1. ImportsFit'
      BY <1>3 DEF ImportsFit, Importers
    <2> QED
      BY <1>2, <1>3, <2>1 DEF Core, Polled, Entries, Fresh, Unplaced
  <1>6. \A p \in Passes : ~Holds(p)' /\ ~Sending(p)'
    BY <1>3 DEF Holds, Sending
  <1>7. Added'
    BY <1>6 DEF Added
  <1>8. HoldsOn
    BY <1>6 DEF HoldsOn
  <1>9. Calmer
    <2>1. Keeps
      BY <1>2, SameKeeps DEF TypeInv
    <2>2. \A a \in Made : Engaged(a)' => Engaged(a)
      BY <1>2, <1>3 DEF Engaged, Importing
    <2> QED
      BY <2>1, <2>2 DEF Calmer
  <1>10. Claims' /\ HoldsClaim' /\ OneActive' /\ OneEngaged' /\ OneHolds' /\ HoldsAlone'
    <2>1. \A r \in Requests : ~Declining(r)
      BY <1>1 DEF Declining
    <2> QED
      BY <1>2, <1>8, <1>9, <2>1, SameReqKeeps, KeepsClaims
  <1> QED
    BY <1>4, <1>5, <1>7, <1>9, <1>10 DEF Core

LEMMA DiscardsKeep ==
  ASSUME TypeInv, Discards, [Next]_vars
  PROVE  Discards'
  <1>1. Step /\ Grows
    BY EveryStep DEF Step
  <1>2. ASSUME NEW p \in Persons, person'[p].pc \in {"discard", "decline"}
        PROVE  \/ /\ person[p].pc \in {"discard", "decline"}
                  /\ person'[p].r = person[p].r /\ person'[p].a = person[p].a
               \/ /\ person'[p].a \in Made /\ att[person'[p].a].req = person'[p].r
    <2>1. person \in [Persons -> PersonRow]
      BY DEF TypeInv, PersonOK
    <2>2. CASE UNCHANGED person
      BY <1>2, <2>2
    <2>3. ASSUME NEW q \in Persons, \/ Free(q)
                                    \/ \E pc \in {"close", "fail", "sweep", "reopen", "empty", "undo",
                                                  "restore"} : Does(q, pc)
                                    \/ person[q].pc = "discard" /\ Does(q, "decline")
          PROVE  person[p].pc \in {"discard", "decline"} /\ person'[p].r = person[p].r
                 /\ person'[p].a = person[p].a
      <3>1. CASE q = p
        BY <1>2, <2>1, <2>3, <3>1 DEF Free, Does, IdlePerson, PersonRow
      <3>2. CASE q # p
        BY <1>2, <2>1, <2>3, <3>2 DEF Free, Does
      <3> QED
        BY <3>1, <3>2
    <2>4. ASSUME NEW q \in Persons, NEW a, person' = [person EXCEPT ![q].pc = "fail", ![q].a = a]
          PROVE  person[p].pc \in {"discard", "decline"} /\ person'[p] = person[p]
      BY <1>2, <2>1, <2>4 DEF PersonRow
    <2>5. ASSUME NEW q \in Persons, NEW op, NEW r, NEW a, NEW f, NEW pc \in {"detach", "discard"},
                 Begins(q, pc, op, r, a, f), pc = "discard" => a \in Made /\ att[a].req = r
          PROVE  \/ person[p].pc \in {"discard", "decline"} /\ person'[p] = person[p]
                 \/ person'[p].a \in Made /\ att[person'[p].a].req = person'[p].r
      BY <1>2, <2>1, <2>5 DEF Begins
    <2>6. ASSUME NEW q \in Persons, NEW r \in Requests, Cancel(q, r) \/ Fulfil(q, r)
          PROVE  \E op, a, f : Begins(q, "detach", op, r, a, f)
      BY <2>6 DEF Cancel, Fulfil
    <2>7. ASSUME NEW q \in Persons, NEW a \in Attempts, StopTransfer(q, a)
          PROVE  \E op, r, b, f : Begins(q, "detach", op, r, b, f)
      BY <2>7 DEF StopTransfer
    <2>8. ASSUME NEW q \in Persons, NEW r \in Requests, Discard(q, r)
          PROVE  \E a, op, f : Begins(q, "discard", op, r, a, f) /\ a \in Made /\ att[a].req = r
      BY <2>8 DEF Discard, IsLatest, Made
    <2>9. ASSUME NEW q \in Persons, PersonStep(q)
          PROVE  \/ UNCHANGED person \/ Free(q)
                 \/ \E pc \in {"close", "fail", "sweep", "reopen", "empty", "undo", "restore"} :
                      Does(q, pc)
                 \/ person[q].pc = "discard" /\ Does(q, "decline")
                 \/ \E a : person' = [person EXCEPT ![q].pc = "fail", ![q].a = a]
      BY <2>9 DEF PersonStep, Detach, FailAttempt, Reopen, Close, SweepAttempts, DiscardRequest,
                  DiscardAttempt, Empty, UndoRequest, UndoAttempt
    <2>10. CASE ServerCrash
      BY <1>2, <2>10 DEF ServerCrash, IdlePerson
    <2>11. \/ UNCHANGED person \/ ServerCrash
           \/ \E q \in Persons : PersonStep(q)
           \/ \E q \in Persons, r \in Requests : Cancel(q, r) \/ Fulfil(q, r) \/ Discard(q, r)
           \/ \E q \in Persons, a \in Attempts : StopTransfer(q, a)
      <3>1. \A r \in Requests : Submit(r) \/ Approve(r) \/ Reject(r) \/ ListForResearch(r)
                                \/ FileHeld(r) \/ ReleaseStranded(r) \/ AbandonSelfServe(r)
              => UNCHANGED person
        BY DEF Submit, Approve, Reject, ListForResearch, FileHeld, ReleaseStranded,
               AbandonSelfServe, filingFrame
      <3>2. \A q \in Passes : PassStep(q) \/ GrabByHand(q) => UNCHANGED person
        BY DEF PassStep, RunTodo, ClaimSearch, SearchEnds, ReadForGrab, ClaimForGrab, Resolve,
               ClientTakes, AddAnswered, AddFails, Refuse, Rollback, GiveUp, GrabByHand, passFrame
      <3>3. \A a \in Attempts : PollStep(a) \/ FailRequest(a) \/ ImportChosen(a) \/ Ingested(a)
                                \/ Verify(a) \/ DockEmptied(a) \/ ClientEnds(a)
                                \/ WatchdogReads(a) \/ WatchdogActs(a)
              => UNCHANGED person
        BY DEF PollStep, PollAsks, PollUnanswered, PollFails, PollReports, PollMoves,
               ResumeUnimported, FailRequest, ImportChosen, Ingested, Verify, DockEmptied,
               ClientEnds, WatchdogReads, WatchdogActs, importFrame, filingFrame
      <3>4. \A a \in Attempts, from \in {"import", "verify"} : HoldRequest(a, from) => UNCHANGED person
        BY DEF HoldRequest
      <3>5. StartImport \/ (\E i \in Importers : ImportStep(i)) => UNCHANGED person
        BY DEF StartImport, ImportStep, Extract, ClaimRequest, Link, Place, importFrame
      <3>6. \A f \in Filers : FilingStep(f) => UNCHANGED person
        BY DEF FilingStep, FileIntoLibrary, Settle, MarkImported, filingFrame
      <3> QED
        BY <3>1, <3>2, <3>3, <3>4, <3>5, <3>6 DEF Next, vars
    <2> DEFINE Goes == \/ /\ person[p].pc \in {"discard", "decline"}
                          /\ person'[p].r = person[p].r /\ person'[p].a = person[p].a
                       \/ /\ person'[p].a \in Made /\ att[person'[p].a].req = person'[p].r
    <2>12. ASSUME NEW q \in Persons, PersonStep(q) PROVE Goes
      BY <2>2, <2>3, <2>4, <2>9, <2>12
    <2>13. ASSUME NEW q \in Persons, NEW r \in Requests, Cancel(q, r) \/ Fulfil(q, r) PROVE Goes
      BY <2>5, <2>6, <2>13
    <2>14. ASSUME NEW q \in Persons, NEW r \in Requests, Discard(q, r) PROVE Goes
      BY <2>5, <2>8, <2>14
    <2>15. ASSUME NEW q \in Persons, NEW a \in Attempts, StopTransfer(q, a) PROVE Goes
      BY <2>5, <2>7, <2>15
    <2> HIDE DEF Goes
    <2>16. Goes
      BY <2>2, <2>10, <2>11, <2>12, <2>13, <2>14, <2>15 DEF Goes
    <2> QED
      BY <2>16 DEF Goes
  <1>3. \A p \in Persons : person[p].pc \in {"discard", "decline"} => person[p].a \in Made
    BY DEF TypeInv, PersonOK
  <1> QED
    BY <1>1, <1>2, <1>3 DEF Discards, Grows

Ordered == Order /\ Discards

LEMMA InitOrdered == Orderly /\ Init => Ordered
  <1> SUFFICES ASSUME Orderly, Init PROVE Ordered
    OBVIOUS
  <1>1. TypeInv
    BY InitInv DEF Inv
  <1>2. /\ Made = {} /\ failing = {} /\ holding = {}
        /\ \A a \in Attempts : /\ att[a].status = "absent" /\ dock[a] = "none"
                               /\ client[a] = "none" /\ poll[a].pc = "idle" /\ filing[a].pc = "idle"
        /\ \A i \in Importers : import[i].pc = "idle"
    BY DEF Init, Made, NoAttempt, IdlePoll, IdleFiling, IdleImport, Filers
  <1>3. \A p \in Passes : pass[p].pc = "idle"
    BY DEF Init, IdlePass
  <1>4. \A p \in Persons : person[p].pc = "idle" /\ person[p].op = "none"
    BY DEF Init, IdlePerson
  <1>5. Direct /\ OneHalf /\ Pending /\ Discards
    BY <1>2, <1>4 DEF Direct, OneHalf, Pending, Discards
  <1>6. Polled /\ ImportsFit /\ Entries /\ Fresh
    <2>1. import["queue"].pc = "idle" /\ import["chosen"].pc = "idle"
      BY <1>2 DEF Importers
    <2>2. ImportsFit
      BY <1>2, <2>1 DEF ImportsFit
    <2> QED
      BY <1>2, <2>2 DEF Polled, Entries, Fresh, Unplaced
  <1>7. Added /\ HoldsClaim /\ OneHolds /\ HoldsAlone
    BY <1>3 DEF Added, HoldsClaim, OneHolds, HoldsAlone, Holds, Sending
  <1>8. Claims /\ OneEngaged
    BY <1>2 DEF Claims, OneEngaged
  <1>9. OneActive
    BY DEF Init, OneActive, ActiveRequest
  <1> QED
    BY <1>1, <1>5, <1>6, <1>7, <1>8, <1>9 DEF Ordered, Order, Core

LEMMA PassStepCore ==
  ASSUME Orderly, TypeInv, Core, Whole, NEW p \in Passes, PassStep(p) \/ GrabByHand(p)
  PROVE  Core'
  BY StartPassCore, SearchCore, ReadForGrabCore, RollbackCore, ClaimForGrabCore,
     AddAnsweredCore, AddFailsCore, ClientTakesCore, RefuseCore, ResolveCore DEF PassStep

LEMMA WholeCore ==
  ASSUME Orderly, TypeInv, Core, Discards, Whole, Next
  PROVE  Core'
  <1>1. ASSUME NEW r \in Requests, Submit(r) \/ Approve(r) \/ Reject(r) \/ ListForResearch(r)
        PROVE  Core'
    BY <1>1, SubmitCore, DecideCore
  <1>2. ASSUME NEW p \in Passes, PassStep(p) \/ GrabByHand(p)
        PROVE  Core'
    BY <1>2, PassStepCore
  <1>3. ASSUME NEW a \in Attempts, PollStep(a) \/ FailRequest(a)
        PROVE  Core'
    BY <1>3, PollAsksCore, PollEndsCore, PollReportsCore, PollMovesCore, ResumeCore,
       FailRequestCore
    DEF PollStep
  <1>4. ASSUME NEW a \in Attempts, NEW from \in {"import", "verify"}, HoldRequest(a, from)
        PROVE  Core'
    BY <1>4, HoldRequestCore
  <1>5. ASSUME StartImport \/ \E i \in Importers : ImportStep(i)
        PROVE  Core'
    BY <1>5, StartImportCore, ExtractCore, ClaimRequestCore, LinkCore, PlaceCore DEF ImportStep
  <1>6. ASSUME NEW a \in Attempts, ImportChosen(a) \/ Ingested(a) \/ Verify(a)
        PROVE  Core'
    BY <1>6, ImportChosenCore, IngestedCore, VerifyCore
  <1>7. ASSUME NEW f \in Filers, FilingStep(f)
        PROVE  Core'
    BY <1>7, FileIntoLibraryCore, SettleCore, MarkImportedCore DEF FilingStep
  <1>8. ASSUME NEW r \in Requests, FileHeld(r) \/ ReleaseStranded(r) \/ AbandonSelfServe(r)
        PROVE  Core'
    BY <1>8, FileHeldCore, SweepCore
  <1>9. ASSUME NEW p \in Persons, NEW r \in Requests, Cancel(p, r) \/ Fulfil(p, r) \/ Discard(p, r)
        PROVE  Core'
    BY <1>9, PersonBeginsCore
  <1>10. ASSUME NEW p \in Persons, NEW a \in Attempts, StopTransfer(p, a)
         PROVE  Core'
    BY <1>10 DEF StopTransfer, Orderly, TypeInv, SpentOK
  <1>11. ASSUME NEW p \in Persons, PersonStep(p)
         PROVE  Core'
    BY <1>11, PersonStepCore
  <1>12. ASSUME NEW a \in Attempts,
                DockEmptied(a) \/ ClientEnds(a) \/ WatchdogReads(a) \/ WatchdogActs(a)
         PROVE  Core'
    BY <1>12, OutsideCore, ClientEndsCore, WatchdogCore
  <1> QED
    BY <1>1, <1>2, <1>3, <1>4, <1>5, <1>6, <1>7, <1>8, <1>9, <1>10, <1>11, <1>12, CrashCore
    DEF Next

LEMMA StutterCore == ASSUME Core, UNCHANGED vars PROVE Core'
  <1>1. UNCHANGED <<att, person, holding, failing, req, import, poll, dock, filing, client, pass>>
    BY DEF vars, rows, outside, work
  <1>2. Claims' /\ HoldsClaim' /\ OneHolds' /\ OneActive'
    BY <1>1 DEF Core, Claims, HoldsClaim, OneHolds, OneActive, Engaged, Importing, Declining,
                Holds, Made
  <1> QED
    BY <1>1, <1>2, Frames DEF Core

LEMMA HalfwayCore ==
  ASSUME Orderly, TypeInv, Core, Discards, Completes
  PROVE  Core'
  <1>1. \A p \in Persons : ~UndoRequest(p) /\ ~UndoAttempt(p)
    BY DEF Core, Direct, UndoRequest, UndoAttempt
  <1> QED
    BY <1>1, FailRequestCore, PollMovesCore, HoldRequestCore, DiscardAttemptCore, CrashCore
    DEF Completes

LEMMA NextOrdered == Ordered /\ [Next]_vars /\ [Prompt]_vars => Ordered'
  <1> SUFFICES ASSUME Ordered, [Next]_vars, [Prompt]_vars PROVE Ordered'
    OBVIOUS
  <1>1. Orderly /\ TypeInv /\ Core /\ Discards
    BY DEF Ordered, Order
  <1>2. TypeInv' /\ Discards'
    BY <1>1, EveryStep, DiscardsKeep DEF Step
  <1>3. Core'
    <2>1. CASE UNCHANGED vars
      BY <1>1, <2>1, StutterCore
    <2>2. CASE Halfway /\ ~UNCHANGED vars
      BY <1>1, <2>2, HalfwayCore DEF Prompt
    <2>3. CASE ~Halfway /\ ~UNCHANGED vars
      BY <1>1, <2>3, NotHalfway, WholeCore
    <2> QED
      BY <2>1, <2>2, <2>3
  <1>4. Orderly'
    BY <1>1 DEF Orderly
  <1> QED
    BY <1>2, <1>3, <1>4 DEF Ordered, Order

LEMMA AtMostOne ==
  ASSUME NEW S, \A x, y \in S : x = y
  PROVE  Cardinality(S) <= 1
  <1>1. CASE S = {}
    BY <1>1, FS_EmptySet
  <1>2. CASE S # {}
    <2>1. PICK x : S = {x}
      BY <1>2
    <2> QED
      BY <2>1, FS_Singleton
  <1> QED
    BY <1>1, <1>2

LEMMA OrderedOneGrab == Ordered => OneGrab
  <1> SUFFICES ASSUME Ordered, NEW r \in Requests, NEW p \in Passes, NEW q \in Passes,
                      Fetches(p, r), Fetches(q, r)
               PROVE  p = q
    BY AtMostOne DEF OneGrab
  <1>1. Core /\ TypeInv
    BY DEF Ordered, Order
  <1>2. \A o \in Passes : Fetches(o, r) => 
          \/ Holds(o) /\ ~Sending(o) /\ pass[o].r = r
          \/ \E a \in Made : Sending(o) /\ pass[o].a = a /\ Engaged(a) /\ att[a].req = r
    <2> SUFFICES ASSUME NEW o \in Passes, Fetches(o, r), pass[o].pc = "add"
                 PROVE  \E a \in Made : Sending(o) /\ pass[o].a = a /\ Engaged(a) /\ att[a].req = r
      BY DEF Fetches, Holds, Sending
    <2>1. pass[o].a \in Made /\ att[pass[o].a].status \in InFlight /\ Sending(o) /\ pass[o].r = r
      BY <1>1 DEF Fetches, TypeInv, PassOK, Sending
    <2>2. att[pass[o].a].req = r /\ Engaged(pass[o].a)
      BY <1>1, <2>1 DEF Core, Added, Engaged, Unsettled
    <2> QED
      BY <2>1, <2>2
  <1> QED
    BY <1>1, <1>2 DEF Core, OneHolds, HoldsAlone, OneEngaged, Added

LEMMA OrderedClaimed == Ordered => Claimed
  BY DEF Ordered, Order, Core, Claims, Claimed, Made, ActiveAttempt

(* While nothing breaks in, two grabs never fetch a release for the same    *)
(* request at a time, however many of them run.                             *)
THEOREM OneGrabCorrect == Orderly /\ Spec /\ [][Prompt]_vars => []OneGrab
  BY InitOrdered, NextOrdered, OrderedOneGrab, PTL DEF Spec

(* While nothing breaks in, nothing is being downloaded for a request that  *)
(* is neither claimed for it nor closed.                                    *)
THEOREM ClaimedCorrect == Orderly /\ Spec /\ [][Prompt]_vars => []Claimed
  BY InitOrdered, NextOrdered, OrderedClaimed, PTL DEF Spec

(* No attempt is made, and none changes who made it. *)
SameMakers ==
  \A a \in Attempts : att'[a].req = att[a].req /\ att'[a].auto = att[a].auto

LEMMA SameAutomated ==
  ASSUME SameMakers, NEW r
  PROVE  Automated(r)' = Automated(r)
  <1>1. {a \in Attempts : att'[a].req = r /\ att'[a].auto}
          = {a \in Attempts : att[a].req = r /\ att[a].auto}
    BY DEF SameMakers
  <1> QED
    BY <1>1 DEF Automated, Attempts

LEMMA UnchangedMakers == ASSUME UNCHANGED att PROVE SameMakers
  BY DEF SameMakers

LEMMA TableMakers ==
  ASSUME NEW table \in [Attempts -> AttemptRow], NEW a \in Attempts, NEW s,
         \A b \in Attempts : table[b].req = att[b].req /\ table[b].auto = att[b].auto,
         att' = [table EXCEPT ![a].status = s]
  PROVE  SameMakers
  BY DEF SameMakers, AttemptRow

LEMMA MoveMakers ==
  ASSUME AttOK, NEW a \in Attempts, NEW e, NEW s, MoveAttempt(a, e, s)
  PROVE  SameMakers
  BY TableMakers DEF MoveAttempt, AttOK

LEMMA FailMakers ==
  ASSUME AttOK, NEW a \in Attempts, FailDownload(a)
  PROVE  SameMakers
  BY TableMakers DEF FailDownload, FailIn, AttOK

LEMMA HoldMakers ==
  ASSUME AttOK, NEW a \in Attempts, NEW units, NEW from, HoldForReview(a, units, from)
  PROVE  SameMakers
  BY UnchangedMakers DEF HoldForReview, AttOK, AttemptRow, SameMakers

LEMMA WithoutMakers ==
  ASSUME AttOK, NEW a \in Attempts
  PROVE  \A b \in Attempts : /\ AttemptsWithout(a)[b].req = att[b].req
                             /\ AttemptsWithout(a)[b].auto = att[b].auto
  BY DEF AttOK, AttemptsWithout, AttemptRow

LEMMA UnlinkMakers ==
  ASSUME AttOK, NEW a \in Attempts, att' = AttemptsWithout(a)
  PROVE  SameMakers
  BY WithoutMakers DEF SameMakers

LEMMA PassMakers ==
  ASSUME TypeInv, NEW p \in Passes, PassStep(p) \/ GrabByHand(p), ~Resolve(p)
  PROVE  SameMakers
  <1>1. CASE Refuse(p)
    <2>1. pass[p].a \in Attempts
      BY <1>1 DEF Refuse, TypeInv, PassOK, Made
    <2> QED
      BY <1>1, <2>1, TableMakers DEF Refuse, TypeInv, AttOK
  <1>2. CASE ~Refuse(p)
    BY <1>2, UnchangedMakers
    DEF PassStep, RunTodo, ClaimSearch, SearchEnds, ReadForGrab, ClaimForGrab, ClientTakes,
        AddAnswered, AddFails, Rollback, GiveUp, GrabByHand
  <1> QED
    BY <1>1, <1>2

LEMMA ImportMakers ==
  ASSUME TypeInv, NEW i \in Importers, ImportStep(i)
  PROVE  SameMakers
  <1>1. import[i].a \in Attempts /\ AttOK
    BY DEF ImportStep, Extract, ClaimRequest, Link, Place, TypeInv, ImportOK, Made
  <1>2. CASE Extract(i)
    BY <1>1, <1>2, FailMakers, HoldMakers, UnchangedMakers DEF Extract
  <1>3. CASE ClaimRequest(i)
    BY <1>1, <1>3, FailMakers, MoveMakers, UnchangedMakers DEF ClaimRequest
  <1>4. CASE Link(i)
    BY <1>1, <1>4 DEF Link, SameMakers, AttOK, AttemptRow
  <1>5. CASE Place(i)
    <2>1. AttemptsWithout(import[i].a) \in [Attempts -> AttemptRow]
      BY <1>1, WithoutKeeps
    <2>2. \/ UNCHANGED att
          \/ \E s : att' = [AttemptsWithout(import[i].a) EXCEPT ![import[i].a].status = s]
      BY <1>5 DEF Place, FailIn
    <2> QED
      BY <1>1, <2>1, <2>2, WithoutMakers, TableMakers, UnchangedMakers
  <1> QED
    BY <1>2, <1>3, <1>4, <1>5 DEF ImportStep

LEMMA FilingMakers ==
  ASSUME TypeInv, NEW f \in Filers, FilingStep(f)
  PROVE  SameMakers
  <1>1. filing[f].a \in Attempts /\ AttOK
    BY DEF FilingStep, FileIntoLibrary, Settle, MarkImported, TypeInv, FilingOK, Made
  <1>2. filing[f].pc = "file" => filing[f].file \in Attempts
    BY DEF TypeInv, FilingOK
  <1> QED
    BY <1>1, <1>2, UnlinkMakers, HoldMakers, MoveMakers, UnchangedMakers
    DEF FilingStep, FileIntoLibrary, Settle, MarkImported

LEMMA PersonMakers ==
  ASSUME TypeInv, NEW p \in Persons, PersonStep(p)
  PROVE  SameMakers
  <1>1. AttOK /\ (person[p].pc \in OnAttempt => person[p].a \in Attempts)
        /\ (person[p].pc = "empty" => person[p].file \in Attempts \cup {None})
    BY DEF TypeInv, PersonOK, PersonRow, OnAttempt, Made
  <1>2. FailAttempt(p) \/ DiscardAttempt(p) \/ UndoAttempt(p) => SameMakers
    BY <1>1, MoveMakers DEF FailAttempt, DiscardAttempt, UndoAttempt, OnAttempt
  <1>3. CASE SweepAttempts(p)
    BY <1>1, <1>3 DEF SweepAttempts, SameMakers, AttOK, AttemptRow
  <1>4. CASE Empty(p)
    BY <1>1, <1>4, UnlinkMakers, UnchangedMakers DEF Empty
  <1>5. Detach(p) \/ Reopen(p) \/ Close(p) \/ DiscardRequest(p) \/ UndoRequest(p) => SameMakers
    BY UnchangedMakers DEF Detach, Reopen, Close, DiscardRequest, UndoRequest, rows
  <1> QED
    BY <1>2, <1>3, <1>4, <1>5 DEF PersonStep

LEMMA NextMakers ==
  ASSUME TypeInv, Next, \A p \in Passes : ~Resolve(p)
  PROVE  SameMakers
  <1>1. AttOK
    BY DEF TypeInv
  <1>2. ASSUME NEW r \in Requests, \/ Submit(r) \/ Approve(r) \/ Reject(r) \/ ListForResearch(r)
                                   \/ FileHeld(r) \/ ReleaseStranded(r) \/ AbandonSelfServe(r)
        PROVE  SameMakers
    BY <1>2, UnchangedMakers DEF Submit, Approve, Reject, ListForResearch, FileHeld,
       ReleaseStranded, AbandonSelfServe, rows
  <1>3. ASSUME NEW a \in Attempts, PollStep(a) \/ FailRequest(a) \/ ImportChosen(a)
        PROVE  SameMakers
    BY <1>1, <1>3, UnchangedMakers, FailMakers, MoveMakers
    DEF PollStep, PollAsks, PollUnanswered, PollFails, PollReports, PollMoves, ResumeUnimported,
        FailRequest, ImportChosen, rows
  <1>4. ASSUME NEW a \in Attempts, \/ Ingested(a) \/ Verify(a) \/ DockEmptied(a) \/ ClientEnds(a)
                                   \/ WatchdogReads(a) \/ WatchdogActs(a)
        PROVE  SameMakers
    BY <1>1, <1>4, UnchangedMakers, FailMakers, HoldMakers, UnlinkMakers
    DEF Ingested, Verify, DockEmptied, ClientEnds, WatchdogReads, WatchdogActs, rows
  <1>5. ASSUME NEW a \in Attempts, NEW from \in {"import", "verify"}, HoldRequest(a, from)
        PROVE  SameMakers
    BY <1>1, <1>5, UnchangedMakers, FailMakers DEF HoldRequest
  <1>6. ASSUME NEW p \in Persons, NEW r \in Requests, Cancel(p, r) \/ Fulfil(p, r) \/ Discard(p, r)
        PROVE  SameMakers
    BY <1>6, UnchangedMakers DEF Cancel, Fulfil, Discard, rows
  <1>7. ASSUME NEW p \in Persons, NEW a \in Attempts, StopTransfer(p, a)
        PROVE  SameMakers
    BY <1>7, UnchangedMakers DEF StopTransfer, rows
  <1>8. StartImport \/ ServerCrash => SameMakers
    BY UnchangedMakers DEF StartImport, ServerCrash, rows
  <1> QED
    BY <1>2, <1>3, <1>4, <1>5, <1>6, <1>7, <1>8, PassMakers, ImportMakers, FilingMakers,
       PersonMakers
    DEF Next

NeverAgain == \A r \in Requests : req[r] \notin Early => req'[r] \notin Early

AutomatesOn ==
  \A p \in Passes : Automates(p)' =>
    /\ Automates(p) /\ pass'[p].r = pass[p].r
    /\ Sending(p) => \/ Sending(p)' /\ pass'[p].a = pass[p].a
                     \/ \A a \in Made : a = pass[p].a => ~Engaged(a)'

LEMMA SameAutomates ==
  ASSUME UNCHANGED pass
  PROVE  AutomatesOn /\ \A p \in Passes : Automates(p)' <=> Automates(p)
  BY DEF AutomatesOn, Automates, Sending

(* Who was engaged for automation is all that is. *)
LEMMA CalmEngaged ==
  ASSUME Calmer, SameMakers
  PROVE  /\ Made' = Made
         /\ \A a \in Made : att'[a].req = att[a].req /\ (AutoEngaged(a)' => AutoEngaged(a))
  <1>1. Made' = Made /\ Made \subseteq Attempts
    BY KeepsGrows DEF Calmer, Made
  <1> QED
    BY <1>1 DEF Calmer, SameMakers, AutoEngaged

LEMMA TokensOn ==
  ASSUME TypeInv, OneToken, Calmer, SameMakers, todo' \subseteq todo, AutomatesOn
  PROVE  OneToken'
  <1>1. /\ Made' = Made
        /\ \A a \in Made : att'[a].req = att[a].req /\ (AutoEngaged(a)' => AutoEngaged(a))
    BY CalmEngaged
  <1>2. \A a \in Made : AutoEngaged(a)' => Engaged(a)'
    BY DEF AutoEngaged
  <1>3. \A t, u \in todo' : t[1] = u[1] => t = u
    BY DEF OneToken
  <1>4. \A t \in todo', p \in Passes : Automates(p)' => pass'[p].r # t[1]
    BY DEF OneToken, AutomatesOn
  <1>5. \A t \in todo', a \in Made' : AutoEngaged(a)' => att'[a].req # t[1]
    BY <1>1 DEF OneToken
  <1>6. \A p, q \in Passes : Automates(p)' /\ Automates(q)' /\ pass'[p].r = pass'[q].r => p = q
    BY DEF OneToken, AutomatesOn
  <1>7. \A p \in Passes, a \in Made' :
          Automates(p)' /\ AutoEngaged(a)' /\ pass'[p].r = att'[a].req =>
            Sending(p)' /\ pass'[p].a = a
    BY <1>1, <1>2 DEF OneToken, AutomatesOn
  <1> QED
    BY <1>3, <1>4, <1>5, <1>6, <1>7 DEF OneToken

LEMMA TokenAdded ==
  ASSUME TypeInv, OneToken, Calmer, SameMakers, UNCHANGED pass, NEW r \in Requests, NEW why,
         todo' = todo \cup {<<r, why>>},
         \A t \in todo : t[1] # r, \A p \in Passes : Automates(p) => pass[p].r # r,
         \A a \in Made : AutoEngaged(a)' => att[a].req # r
  PROVE  OneToken'
  <1>1. /\ Made' = Made
        /\ \A a \in Made : att'[a].req = att[a].req /\ (AutoEngaged(a)' => AutoEngaged(a))
    BY CalmEngaged
  <1>2. \A p \in Passes : (Automates(p)' <=> Automates(p)) /\ (Sending(p)' <=> Sending(p))
    BY DEF Automates, Sending
  <1>3. \A t \in todo' : t \in todo \/ t[1] = r
    OBVIOUS
  <1>4. \A t, u \in todo' : t[1] = u[1] => t = u
    BY DEF OneToken
  <1>5. \A t \in todo', p \in Passes : Automates(p)' => pass'[p].r # t[1]
    BY <1>2, <1>3 DEF OneToken
  <1>6. \A t \in todo', a \in Made' : AutoEngaged(a)' => att'[a].req # t[1]
    BY <1>1, <1>3 DEF OneToken
  <1>7. \A p, q \in Passes : Automates(p)' /\ Automates(q)' /\ pass'[p].r = pass'[q].r => p = q
    BY <1>2 DEF OneToken
  <1>8. \A p \in Passes, a \in Made' :
          Automates(p)' /\ AutoEngaged(a)' /\ pass'[p].r = att'[a].req =>
            Sending(p)' /\ pass'[p].a = a
    BY <1>1, <1>2 DEF OneToken
  <1> QED
    BY <1>4, <1>5, <1>6, <1>7, <1>8 DEF OneToken

LEMMA AskedOn == ASSUME TypeInv, Unasked, NeverAgain, todo' \subseteq todo PROVE Unasked'
  BY DEF TypeInv, TodoOK, Unasked, NeverAgain

LEMMA SpendsNoMore == ASSUME Budget, SameMakers PROVE Budget'
  BY SameAutomated DEF Budget

LEMMA CountedOn ==
  ASSUME Counted, SameMakers, UNCHANGED pass
  PROVE  Counted'
  <1>1. \A r : Automated(r)' = Automated(r)
    BY SameAutomated
  <1> QED
    BY <1>1, SameAutomates DEF Counted

(* One pass goes on. *)
LEMMA CountedStep ==
  ASSUME Counted, SameMakers, NEW p \in Passes, \A q \in Passes \ {p} : pass'[q] = pass[q],
         Automates(p)' =>
           /\ Automated(pass'[p].r) <= pass'[p].spent
           /\ pass'[p].pc \in {"claim", "resolve"} => Automated(pass'[p].r) < pass'[p].spent
           /\ pass'[p].pc \in {"search", "grab"} => pass'[p].spent < AutoLimit
           /\ pass'[p].pc # "read" => pass'[p].spent <= AutoLimit
  PROVE  Counted'
  <1>1. \A r : Automated(r)' = Automated(r)
    BY SameAutomated
  <1>2. \A q \in Passes \ {p} : Automates(q)' <=> Automates(q)
    BY DEF Automates
  <1> QED
    BY <1>1, <1>2 DEF Counted

Thrift == OneToken /\ Counted /\ Unasked /\ Budget

(* Steps of those who neither grab nor ask for automation. *)
LEMMA CalmThrift ==
  ASSUME TypeInv, Thrift, Calmer, SameMakers, NeverAgain, UNCHANGED <<pass, todo>>
  PROVE  Thrift'
  BY TokensOn, AskedOn, SpendsNoMore, CountedOn, SameAutomates DEF Thrift

(* One pass goes on, without making an attempt. *)
LEMMA PassThrift ==
  ASSUME TypeInv, Thrift, Calmer, SameMakers, NeverAgain, UNCHANGED todo, NEW p \in Passes,
         \A q \in Passes \ {p} : pass'[q] = pass[q],
         Automates(p)' =>
           /\ Automates(p) /\ pass'[p].r = pass[p].r
           /\ Sending(p) => \/ Sending(p)' /\ pass'[p].a = pass[p].a
                            \/ \A a \in Made : a = pass[p].a => ~Engaged(a)'
           /\ Automated(pass[p].r) <= pass'[p].spent
           /\ pass'[p].pc \in {"claim", "resolve"} => Automated(pass[p].r) < pass'[p].spent
           /\ pass'[p].pc \in {"search", "grab"} => pass'[p].spent < AutoLimit
           /\ pass'[p].pc # "read" => pass'[p].spent <= AutoLimit
  PROVE  Thrift'
  <1>1. \A q \in Passes \ {p} : /\ Automates(q)' <=> Automates(q)
                                /\ Sending(q)' <=> Sending(q)
    BY DEF Automates, Sending
  <1>2. AutomatesOn
    BY <1>1 DEF AutomatesOn
  <1>3. Counted'
    BY CountedStep DEF Thrift
  <1> QED
    BY <1>2, <1>3, TokensOn, AskedOn, SpendsNoMore DEF Thrift

(* What a pass is when it has moved on without anything else. *)
LEMMA GotoEffect ==
  ASSUME TypeInv, NEW p \in Passes, NEW pc, Goto(p, pc)
  PROVE  /\ \A q \in Passes \ {p} : pass'[q] = pass[q]
         /\ pass'[p].pc = pc /\ pass'[p].r = pass[p].r /\ pass'[p].a = pass[p].a
         /\ pass'[p].why = pass[p].why /\ pass'[p].spent = pass[p].spent
         /\ pass'[p].took = pass[p].took
  BY DEF Goto, TypeInv, PassOK, PassRow

LEMMA LeaveEffect ==
  ASSUME TypeInv, NEW p \in Passes, Leave(p)
  PROVE  /\ \A q \in Passes \ {p} : pass'[q] = pass[q]
         /\ ~Automates(p)'
  BY DEF Leave, Become, TypeInv, PassOK, IdlePass, Automates

LEMMA PassNat ==
  ASSUME TypeInv, NEW p \in Passes
  PROVE  pass[p].spent \in Nat /\ AutoLimit \in Nat /\ \A r : Automated(r) \in Nat
  BY AutomatedNat, BoundsAssumption DEF TypeInv, PassOK, PassRow, BoundsAssumption

(* A pass of automation that claims nothing yet, or gives up. *)
LEMMA SearchThrift ==
  ASSUME TypeInv, Thrift, Calmer, SameMakers, NeverAgain, UNCHANGED todo, NEW p \in Passes,
         ClaimSearch(p) \/ SearchEnds(p) \/ GiveUp(p) \/ AddAnswered(p)
  PROVE  Thrift'
  <1>1. CASE Leave(p)
    BY <1>1, LeaveEffect, PassThrift
  <1>2. CASE pass[p].pc = "read" /\ Goto(p, "search") /\ ~Spent(p)
    <2>1. Automates(p)' => Automates(p)
      BY <1>2, GotoEffect DEF Automates
    <2>2. ~Sending(p)
      BY <1>2 DEF Sending
    <2> QED
      BY <1>2, <2>1, <2>2, GotoEffect, PassThrift, PassNat DEF Spent, Thrift, Counted
  <1>3. CASE pass[p].pc = "search" /\ Goto(p, "grab")
    <2>1. Automates(p)' => Automates(p)
      BY <1>3, GotoEffect DEF Automates
    <2>2. ~Sending(p)
      BY <1>3 DEF Sending
    <2> QED
      BY <1>3, <2>1, <2>2, GotoEffect, PassThrift, PassNat DEF Thrift, Counted
  <1> QED
    BY <1>1, <1>2, <1>3 DEF ClaimSearch, SearchEnds, GiveUp, AddAnswered

(* The end of a grab that did not start. *)
LEMMA EndThrift ==
  ASSUME TypeInv, Thrift, Calmer, SameMakers, NeverAgain, UNCHANGED todo, NEW p \in Passes,
         pass[p].pc \in {"grab", "claim", "rollback"}, NEW another, NotStarted(p, another),
         another => ~Spent(p)
  PROVE  Thrift'
  <1>1. ~Sending(p)
    BY DEF Sending
  <1>2. CASE Leave(p)
    BY <1>2, LeaveEffect, PassThrift
  <1>3. ASSUME NEW pc \in {"grab", "giveup"}, Goto(p, pc), pc = "grab" => ~Spent(p)
        PROVE  Thrift'
    <2>1. Automates(p)' => Automates(p)
      BY <1>3, GotoEffect DEF Automates
    <2> QED
      BY <1>1, <1>3, <2>1, GotoEffect, PassThrift, PassNat DEF Spent, Thrift, Counted
  <1> QED
    BY <1>2, <1>3 DEF NotStarted

LEMMA ReadForGrabThrift ==
  ASSUME TypeInv, Thrift, Calmer, SameMakers, NeverAgain, NEW p \in Passes, ReadForGrab(p)
  PROVE  Thrift'
  <1> DEFINE record == [pass[p] EXCEPT !.pc = "claim", !.prev = req[pass[p].r], !.spent = @ + 1]
  <1>1. pass[p].pc = "grab" /\ UNCHANGED todo
    BY DEF ReadForGrab
  <1>2. CASE NotStarted(p, FALSE)
    BY <1>1, <1>2, EndThrift
  <1>3. CASE Become(p, record)
    <2>1. pass \in [Passes -> PassRow]
      BY DEF TypeInv, PassOK
    <2>2. record = [pass[p] EXCEPT !.pc = "claim", !.prev = req[pass[p].r],
                                   !.spent = pass[p].spent + 1]
      OBVIOUS
    <2>3. /\ record.pc = "claim" /\ record.r = pass[p].r /\ record.why = pass[p].why
          /\ record.spent = pass[p].spent + 1
      BY <2>1, <2>2 DEF PassRow
    <2>4. pass'[p] = record /\ \A q \in Passes \ {p} : pass'[q] = pass[q]
      BY <1>3, <2>1 DEF Become
    <2> HIDE DEF record
    <2>5. Automates(p)' => Automates(p)
      BY <1>1, <2>3, <2>4 DEF Automates
    <2>6. ~Sending(p)
      BY <1>1 DEF Sending
    <2> QED
      BY <1>1, <2>3, <2>4, <2>5, <2>6, PassThrift, PassNat DEF Thrift, Counted
  <1> QED
    BY <1>2, <1>3 DEF ReadForGrab

LEMMA ClaimForGrabThrift ==
  ASSUME TypeInv, Thrift, Calmer, SameMakers, NeverAgain, NEW p \in Passes,
         ClaimForGrab(p) \/ Rollback(p)
  PROVE  Thrift'
  <1>1. pass[p].pc \in {"claim", "rollback"} /\ UNCHANGED todo
    BY DEF ClaimForGrab, Rollback
  <1>2. ASSUME NEW another, NotStarted(p, another), another => ~Spent(p)
        PROVE  Thrift'
    BY <1>1, <1>2, EndThrift
  <1>3. CASE pass[p].pc = "claim" /\ Goto(p, "resolve")
    <2>1. Automates(p)' => Automates(p)
      BY <1>3, GotoEffect DEF Automates
    <2>2. ~Sending(p)
      BY <1>3 DEF Sending
    <2> QED
      BY <1>1, <1>3, <2>1, <2>2, GotoEffect, PassThrift, PassNat DEF Thrift, Counted
  <1> QED
    BY <1>2, <1>3 DEF ClaimForGrab, Rollback

LEMMA AddThrift ==
  ASSUME Orderly, TypeInv, Thrift, Calmer, SameMakers, NeverAgain, NEW p \in Passes,
         ClientTakes(p) \/ AddFails(p)
  PROVE  Thrift'
  <1>1. pass[p].pc = "add" /\ UNCHANGED todo /\ pass \in [Passes -> PassRow]
    BY DEF ClientTakes, AddFails, TypeInv, PassOK
  <1>2. CASE ClientTakes(p)
    <2>1. pass' = [pass EXCEPT ![p].took = TRUE]
      BY <1>2 DEF ClientTakes
    <2>2. ~Automates(p)' /\ \A q \in Passes \ {p} : pass'[q] = pass[q]
      BY <1>1, <2>1 DEF Automates, PassRow
    <2> QED
      BY <1>1, <2>2, PassThrift
  <1>3. CASE AddFails(p)
    <2>1. ~pass[p].took
      <3>1. pass[p].took => spent.late < MaxLate
        BY <1>3 DEF AddFails
      <3> QED
        BY <3>1 DEF Orderly, TypeInv, SpentOK
    <2>2. PICK halt \in BOOLEAN :
            pass' = [pass EXCEPT ![p].pc = "refuse", ![p].halt = halt, ![p].took = FALSE]
      BY <1>3 DEF AddFails
    <2> DEFINE new == [pass[p] EXCEPT !.pc = "refuse", !.halt = halt, !.took = FALSE]
    <2>3. pass' = [pass EXCEPT ![p] = new]
      BY <1>1, <2>2
    <2>4. /\ new.pc = "refuse" /\ new.r = pass[p].r /\ new.a = pass[p].a /\ new.why = pass[p].why
          /\ new.spent = pass[p].spent
      BY <1>1 DEF PassRow
    <2> HIDE DEF new
    <2>5. pass'[p] = new /\ \A q \in Passes \ {p} : pass'[q] = pass[q]
      BY <1>1, <2>3
    <2>6. Automates(p)' => Automates(p)
      BY <1>1, <2>1, <2>4, <2>5 DEF Automates
    <2>7. Sending(p)'
      BY <2>4, <2>5 DEF Sending
    <2> QED
      BY <1>1, <2>4, <2>5, <2>6, <2>7, PassThrift, PassNat DEF Thrift, Counted
  <1> QED
    BY <1>2, <1>3

LEMMA RefuseThrift ==
  ASSUME TypeInv, Core, Thrift, SameMakers, NeverAgain, NEW p \in Passes, Refuse(p)
  PROVE  Thrift'
  <1>1. PICK a : a = pass[p].a
    OBVIOUS
  <1>2. /\ pass[p].pc = "refuse" /\ a \in Attempts /\ Holds(p) /\ Sending(p)
        /\ Goto(p, "rollback") /\ UNCHANGED <<todo, import, failing>>
    BY <1>1 DEF Refuse, passFrame, work, TypeInv, PassOK, Made, Holds, Sending
  <1>3. Settling /\ att'[a].status = "failed"
    BY <1>1, <1>2 DEF Refuse, TypeInv, AttOK, Settling, AttemptRow, PassOK, Made
  <1>4. Calmer
    BY <1>2, <1>3, SettlingFrames
  <1>5. ~Engaged(a)'
    <2>1. a \notin failing /\ ~Importing(a)
      BY <1>1, <1>2 DEF Core, Added
    <2> QED
      BY <1>2, <1>3, <2>1 DEF Engaged, Importing, Unsettled, InFlight, ActiveAttempt
  <1>6. Automates(p)' => Automates(p)
    BY <1>2, GotoEffect DEF Automates
  <1> QED
    BY <1>1, <1>2, <1>4, <1>5, <1>6, GotoEffect, PassThrift, PassNat DEF Thrift, Counted

LEMMA GrabByHandThrift ==
  ASSUME TypeInv, Thrift, Calmer, SameMakers, NeverAgain, NEW p \in Passes, GrabByHand(p)
  PROVE  Thrift'
  <1>1. PICK r \in Requests : Become(p, [IdlePass EXCEPT !.pc = "grab", !.r = r])
    BY DEF GrabByHand
  <1>2. ~Automates(p)' /\ \A q \in Passes \ {p} : pass'[q] = pass[q]
    BY <1>1 DEF Become, IdlePass, Automates, TypeInv, PassOK
  <1> QED
    BY <1>2, PassThrift DEF GrabByHand

LEMMA RunTodoThrift ==
  ASSUME TypeInv, Thrift, Calmer, SameMakers, NeverAgain, NEW p \in Passes, RunTodo(p)
  PROVE  Thrift'
  <1>1. PICK t \in todo :
          /\ todo' = todo \ {t}
          /\ IF req[t[1]] \in Grabbable THEN StartPass(p, t[1], t[2]) ELSE UNCHANGED pass
    BY DEF RunTodo
  <1>2. pass[p].pc = "idle" /\ t[1] \in Requests /\ t[2] # "hand" /\ pass \in [Passes -> PassRow]
    BY DEF RunTodo, TypeInv, TodoOK, PassOK
  <1>3. CASE UNCHANGED pass
    BY <1>1, <1>3, SameAutomates, TokensOn, AskedOn, SpendsNoMore, CountedOn DEF Thrift
  <1>4. CASE StartPass(p, t[1], t[2])
    <2> DEFINE record == [IdlePass EXCEPT !.pc = "read", !.r = t[1], !.why = t[2],
                                          !.prev = req[t[1]], !.spent = Automated(t[1])]
    <2>1. /\ record.pc = "read" /\ record.r = t[1] /\ record.spent = Automated(t[1])
      BY DEF IdlePass
    <2>2. Become(p, record)
      BY <1>4 DEF StartPass
    <2> HIDE DEF record
    <2>3. pass'[p] = record /\ \A q \in Passes \ {p} : pass'[q] = pass[q]
      BY <1>2, <2>2 DEF Become
    <2>4. /\ ~Automates(p) /\ ~Sending(p)
          /\ \A q \in Passes \ {p} : /\ Automates(q)' <=> Automates(q)
                                     /\ Sending(q)' <=> Sending(q)
      BY <1>2, <2>3 DEF Automates, Sending
    <2>5. /\ Made' = Made
          /\ \A a \in Made : att'[a].req = att[a].req /\ (AutoEngaged(a)' => AutoEngaged(a))
      BY CalmEngaged
    <2>6. OneToken'
      <3>1. \A u \in todo' : u \in todo /\ u[1] # t[1]
        BY <1>1 DEF Thrift, OneToken
      <3>2. \A q \in Passes : Automates(q) => pass[q].r # t[1]
        BY DEF Thrift, OneToken
      <3>3. \A a \in Made : AutoEngaged(a) => att[a].req # t[1]
        BY DEF Thrift, OneToken
      <3>4. \A u, v \in todo' : u[1] = v[1] => u = v
        BY <3>1 DEF Thrift, OneToken
      <3>5. \A u \in todo', q \in Passes : Automates(q)' => pass'[q].r # u[1]
        BY <2>1, <2>3, <2>4, <3>1 DEF Thrift, OneToken
      <3>6. \A u \in todo', a \in Made' : AutoEngaged(a)' => att'[a].req # u[1]
        BY <2>5, <3>1 DEF Thrift, OneToken
      <3>7. \A o, q \in Passes : Automates(o)' /\ Automates(q)' /\ pass'[o].r = pass'[q].r => o = q
        BY <2>1, <2>3, <2>4, <3>2 DEF Thrift, OneToken
      <3>8. \A q \in Passes, a \in Made' :
              Automates(q)' /\ AutoEngaged(a)' /\ pass'[q].r = att'[a].req =>
                Sending(q)' /\ pass'[q].a = a
        BY <2>1, <2>3, <2>4, <2>5, <3>3 DEF Thrift, OneToken
      <3> QED
        BY <3>4, <3>5, <3>6, <3>7, <3>8 DEF OneToken
    <2>7. Counted'
      BY <2>1, <2>3, CountedStep, PassNat DEF Thrift
    <2> QED
      BY <1>1, <2>6, <2>7, AskedOn, SpendsNoMore DEF Thrift
  <1> QED
    BY <1>1, <1>3, <1>4

(* What automation is asked for. *)
LEMMA AskThrift ==
  ASSUME TypeInv, Thrift, Calmer, SameMakers, NeverAgain, UNCHANGED pass, NEW r \in Requests,
         NEW why, todo' = todo \cup {<<r, why>>}, req'[r] \notin Early,
         \A t \in todo : t[1] # r, \A p \in Passes : Automates(p) => pass[p].r # r,
         \A a \in Made : AutoEngaged(a)' => att[a].req # r
  PROVE  Thrift'
  <1>1. OneToken'
    BY TokenAdded DEF Thrift
  <1>2. Unasked'
    BY DEF Thrift, Unasked, NeverAgain, TypeInv, TodoOK
  <1> QED
    BY <1>1, <1>2, SpendsNoMore, CountedOn DEF Thrift

(* A request is made or agreed to. *)
LEMMA AgreeThrift ==
  ASSUME Inv, Thrift, Calmer, SameMakers, NeverAgain, NEW r \in Requests, Submit(r) \/ Approve(r)
  PROVE  Thrift'
  <1>1. TypeInv /\ UNCHANGED <<pass, att>> /\ req[r] \in Early
    BY DEF Inv, Submit, Approve, Early
  <1>2. CASE UNCHANGED todo
    BY <1>1, <1>2, CalmThrift
  <1>3. CASE todo' = todo \cup {<<r, "approval">>} /\ req'[r] = "approved"
    <2>1. \A t \in todo : t[1] # r
      BY <1>1 DEF Thrift, Unasked
    <2>2. \A p \in Passes : Automates(p) => pass[p].r # r
      BY <1>1 DEF Inv, Undertaken, Automates
    <2>3. \A a \in Made : att[a].req # r
      BY <1>1 DEF Inv, Undertaken
    <2> QED
      BY <1>1, <1>3, <2>1, <2>2, <2>3, AskThrift DEF Early
  <1>4. Approve(r) => req' = [req EXCEPT ![r] = "approved"]
    BY DEF Approve, MoveRequest, UpdateIf
  <1>5. UNCHANGED todo \/ (todo' = todo \cup {<<r, "approval">>} /\ req'[r] = "approved")
    BY <1>1, <1>4 DEF Submit, Approve, TypeInv, ReqOK
  <1> QED
    BY <1>2, <1>3, <1>5

LEMMA ListThrift ==
  ASSUME TypeInv, Core, Whole, Thrift, Calmer, SameMakers, NeverAgain, NEW r \in Requests,
         ListForResearch(r)
  PROVE  Thrift'
  <1>1. /\ UNCHANGED <<pass, req>> /\ req[r] = "approved" /\ todo' = todo \cup {<<r, "periodic">>}
        /\ \A t \in todo : t[1] # r
        /\ \A p \in Passes : pass[p].r # r
    BY DEF ListForResearch, rows
  <1>2. \A a \in Made : AutoEngaged(a)' => att[a].req # r
    <2>1. \A a \in Made : AutoEngaged(a)' => Engaged(a)
      BY DEF Calmer, AutoEngaged
    <2> QED
      BY <1>1, <2>1, NoDeclining DEF Core, Claims, Taken, Closed
  <1> QED
    BY <1>1, <1>2, AskThrift DEF Early

LEMMA FailRequestThrift ==
  ASSUME Inv, Core, Thrift, Calmer, SameMakers, NeverAgain, NEW a \in Attempts, FailRequest(a)
  PROVE  Thrift'
  <1>1. TypeInv /\ a \in failing /\ a \in Made /\ failing' = failing \ {a}
        /\ UNCHANGED <<att, pass, import>>
    BY DEF Inv, FailRequest, TypeInv, FailingOK
  <1>2. PICK r \in Requests : r = att[a].req
    BY <1>1 DEF TypeInv, AttOK, Made
  <1>3. CASE UNCHANGED todo
    BY <1>1, <1>3, CalmThrift
  <1>4. CASE att[a].auto /\ todo' = todo \cup {<<r, "retry">>}
    <2>1. AutoEngaged(a) /\ Engaged(a)
      BY <1>1, <1>4 DEF AutoEngaged, Engaged
    <2>2. \A t \in todo : t[1] # r
      BY <1>1, <1>2, <2>1 DEF Thrift, OneToken
    <2>3. ASSUME NEW p \in Passes, Automates(p), pass[p].r = r PROVE FALSE
      <3>1. Sending(p) /\ pass[p].a = a
        BY <1>1, <1>2, <2>1, <2>3 DEF Thrift, OneToken
      <3>2. Holds(p)
        BY <2>3, <3>1 DEF Holds, Sending, Automates
      <3> QED
        BY <1>1, <3>1, <3>2 DEF Core, Added
    <2>4. ~Engaged(a)'
      <3>1. att[a].status = "failed" /\ ~Importing(a)
        BY <1>1 DEF Core, Pending
      <3> QED
        BY <1>1, <3>1 DEF Engaged, Importing, Unsettled, InFlight, ActiveAttempt
    <2>5. ASSUME NEW b \in Made, AutoEngaged(b)', att[b].req = r PROVE FALSE
      <3>1. Engaged(b) /\ Engaged(b)'
        BY <2>5 DEF Calmer, AutoEngaged
      <3> QED
        BY <1>1, <1>2, <2>1, <2>4, <2>5, <3>1 DEF Core, OneEngaged
    <2>6. req[r] \notin Early
      BY <1>1, <1>2 DEF Inv, Undertaken
    <2> QED
      BY <1>1, <1>4, <2>2, <2>3, <2>5, <2>6, AskThrift DEF NeverAgain
  <1> QED
    BY <1>2, <1>3, <1>4 DEF FailRequest

LEMMA CrashThrift ==
  ASSUME TypeInv, Thrift, SameMakers, ServerCrash
  PROVE  Thrift'
  <1>1. todo' = {} /\ \A p \in Passes : ~Automates(p)'
    BY DEF ServerCrash, Automates, IdlePass
  <1> QED
    BY <1>1, SpendsNoMore DEF Thrift, OneToken, Counted, Unasked

(* A new attempt counts once, and only for its own request. *)
LEMMA NewAutomated ==
  ASSUME TypeInv, NEW a \in Attempts, NEW r \in Requests, NEW auto \in BOOLEAN,
         att[a].status = "absent", att'[a].req = r, att'[a].auto = auto,
         \A b \in Attempts \ {a} : att'[b] = att[b]
  PROVE  /\ \A q \in Requests : q # r \/ ~auto => Automated(q)' = Automated(q)
         /\ auto => Automated(r)' = Automated(r) + 1
  <1> DEFINE S(q) == {b \in Attempts : att[b].req = q /\ att[b].auto}
             T(q) == {b \in Attempts : att'[b].req = q /\ att'[b].auto}
  <1>1. \A q : Automated(q) = Cardinality(S(q)) /\ Automated(q)' = Cardinality(T(q))
    BY DEF Automated, Attempts
  <1>2. att[a].req = None /\ None \notin Requests
    BY RequestsAssumption DEF TypeInv, AttOK
  <1>3. \A q \in Requests : a \notin S(q) /\ IsFiniteSet(S(q))
    <2>1. IsFiniteSet(Attempts) /\ \A q : S(q) \subseteq Attempts
      BY BoundsAssumption, FS_Interval DEF Attempts, BoundsAssumption
    <2> QED
      BY <1>2, <2>1, FS_Subset
  <1>4. \A q \in Requests : q # r \/ ~auto => T(q) = S(q)
    BY <1>2
  <1>5. auto => T(r) = S(r) \cup {a}
    BY <1>2
  <1> HIDE DEF S, T
  <1> QED
    BY <1>1, <1>3, <1>4, <1>5, FS_AddElement

LEMMA ResolveThrift ==
  ASSUME TypeInv, Core, Thrift, NEW p \in Passes, Resolve(p)
  PROVE  Thrift'
  <1>1. PICK r \in Requests : r = pass[p].r
    BY DEF Resolve, TypeInv, PassOK
  <1>2. /\ pass[p].pc = "resolve" /\ pass[p].r = r /\ pass \in [Passes -> PassRow]
        /\ UNCHANGED <<req, todo, import, failing>>
    BY <1>1 DEF Resolve, TypeInv, PassOK, passFrame, work
  <1>3. ~Sending(p) /\ (Automates(p) <=> pass[p].why # "hand")
    BY <1>2 DEF Sending, Automates
  <1>4. /\ \A t \in todo : Automates(p) => pass[p].r # t[1]
        /\ \A q \in Passes : Automates(q) /\ Automates(p) /\ pass[q].r = r => q = p
        /\ \A a \in Made : Automates(p) /\ AutoEngaged(a) => att[a].req # r
    BY <1>2, <1>3 DEF Thrift, OneToken
  <1>5. Automates(p) => Automated(r) < pass[p].spent /\ pass[p].spent <= AutoLimit
    BY <1>2 DEF Thrift, Counted
  <1>6. ASSUME NEW a \in Attempts, NEW status \in {"queued", "failed"}, NewAttempt(p, a, status),
               NEW record, Become(p, record), record.r = pass[p].r, record.why = pass[p].why,
               record.spent = pass[p].spent,
               \/ status = "queued" /\ record.pc = "add" /\ record.a = a
               \/ status = "failed" /\ record.pc = "rollback"
        PROVE  Thrift'
    <2>1. /\ att[a].status = "absent"
          /\ att'[a].req = r /\ att'[a].status = status
          /\ att'[a].auto = (pass[p].why # "hand")
          /\ \A b \in Attempts \ {a} : att'[b] = att[b]
      BY <1>2, <1>6 DEF NewAttempt, NextFree, NoAttempt, TypeInv, AttOK
    <2>2. pass'[p] = record /\ \A q \in Passes \ {p} : pass'[q] = pass[q]
      BY <1>2, <1>6 DEF Become
    <2>3. a \notin Made /\ Made' = Made \cup {a}
      BY <1>6, <2>1 DEF Made, Attempts
    <2>4. /\ \A q \in Passes \ {p} : /\ Automates(q)' <=> Automates(q)
                                     /\ Sending(q)' <=> Sending(q)
          /\ Automates(p)' => Automates(p)
      BY <1>3, <1>6, <2>2 DEF Automates, Sending
    <2>5. \A b \in Made : att'[b] = att[b] /\ (AutoEngaged(b)' <=> AutoEngaged(b))
      <3>1. \A b \in Made : att'[b] = att[b]
        BY <2>1, <2>3 DEF Made
      <3> QED
        BY <1>2, <3>1 DEF AutoEngaged, Engaged, Importing
    <2>6. AutoEngaged(a)' => Automates(p) /\ record.pc = "add" /\ record.a = a
      <3>1. ~Importing(a) /\ a \notin failing
        BY <2>3 DEF Importing, TypeInv, ImportOK, FailingOK
      <3> QED
        BY <1>2, <1>3, <1>6, <2>1, <3>1
        DEF AutoEngaged, Engaged, Importing, Unsettled, InFlight, ActiveAttempt
    <2>7. OneToken'
      <3>1. \A t \in todo', q \in Passes : Automates(q)' => pass'[q].r # t[1]
        BY <1>2, <1>6, <2>2, <2>4 DEF Thrift, OneToken
      <3>2. \A t \in todo', b \in Made' : AutoEngaged(b)' => att'[b].req # t[1]
        BY <1>2, <1>4, <2>1, <2>3, <2>5, <2>6 DEF Thrift, OneToken
      <3>3. \A o, q \in Passes : Automates(o)' /\ Automates(q)' /\ pass'[o].r = pass'[q].r => o = q
        BY <1>6, <2>2, <2>4 DEF Thrift, OneToken
      <3>4. ASSUME NEW q \in Passes, NEW b \in Made', Automates(q)', AutoEngaged(b)',
                   pass'[q].r = att'[b].req
            PROVE  Sending(q)' /\ pass'[q].a = b
        <4>1. Automates(q) /\ pass[q].r = att'[b].req
          BY <1>6, <2>2, <2>4, <3>4
        <4>2. CASE b \in Made
          <5>1. Sending(q) /\ pass[q].a = b
            BY <2>5, <3>4, <4>1, <4>2 DEF Thrift, OneToken
          <5> QED
            BY <1>3, <2>2, <2>4, <5>1
        <4>3. CASE b = a
          <5>1. q = p /\ record.pc = "add" /\ record.a = a
            BY <1>4, <2>1, <2>6, <3>4, <4>1, <4>3
          <5> QED
            BY <2>2, <4>3, <5>1 DEF Sending
        <4> QED
          BY <2>3, <3>4, <4>2, <4>3
      <3>5. \A t, u \in todo' : t[1] = u[1] => t = u
        BY <1>2 DEF Thrift, OneToken
      <3> QED
        BY <3>1, <3>2, <3>3, <3>4, <3>5 DEF OneToken
    <2>8. /\ \A q \in Requests : q # r \/ ~Automates(p) => Automated(q)' = Automated(q)
          /\ Automates(p) => Automated(r)' = Automated(r) + 1
      BY <1>2, <1>3, <2>1, NewAutomated
    <2>9. /\ \A q \in Passes : Automates(q) => pass[q].r \in Requests
          /\ \A q \in Passes : Automates(q) => pass[q].spent \in Nat
      BY PassNat DEF TypeInv, PassOK, Automates
    <2>10. Counted'
      <3>1. ASSUME NEW q \in Passes, Automates(q)', q # p
            PROVE  /\ Automated(pass[q].r)' <= pass[q].spent
                   /\ pass[q].pc \in {"claim", "resolve"} => Automated(pass[q].r)' < pass[q].spent
                   /\ pass[q].pc \in {"search", "grab"} => pass[q].spent < AutoLimit
                   /\ pass[q].pc # "read" => pass[q].spent <= AutoLimit
        <4>1. PICK o \in Requests : o = pass[q].r
          BY <2>4, <2>9, <3>1
        <4>2. Automates(q) /\ pass'[q].r = o /\ Automated(o)' = Automated(o)
          BY <1>2, <1>4, <2>2, <2>4, <2>8, <3>1, <4>1
        <4>3. Automated(pass[q].r)' = Automated(o)'
          BY <4>2 DEF Automated
        <4> QED
          BY <4>1, <4>2, <4>3 DEF Thrift, Counted
      <3>2. ASSUME Automates(p)'
            PROVE  Automated(r)' <= pass'[p].spent /\ pass'[p].spent <= AutoLimit
        BY <1>5, <1>6, <2>2, <2>4, <2>8, <3>2, PassNat
      <3> QED
        BY <1>2, <1>6, <2>2, <3>1, <3>2 DEF Counted
    <2>11. Budget'
      BY <1>2, <1>5, <2>8, PassNat DEF Thrift, Budget
    <2> QED
      BY <1>2, <2>7, <2>10, <2>11 DEF Thrift, Unasked
  <1>7. ASSUME UNCHANGED att, NEW record, Become(p, record), record.r = pass[p].r,
               record.why = pass[p].why, record.spent = pass[p].spent, record.pc = "rollback"
        PROVE  Thrift'
    <2>1. pass'[p] = record /\ \A q \in Passes \ {p} : pass'[q] = pass[q]
      BY <1>2, <1>7 DEF Become
    <2>2. Calmer /\ SameMakers /\ NeverAgain
      BY <1>2, <1>7, SameCalm, UnchangedMakers DEF NeverAgain
    <2>3. Automates(p)' => Automates(p)
      BY <1>3, <1>7, <2>1 DEF Automates
    <2>4. Automates(p) => Automated(pass[p].r) <= pass[p].spent
      BY DEF Thrift, Counted
    <2> QED
      BY <1>2, <1>3, <1>5, <1>7, <2>1, <2>2, <2>3, <2>4, PassThrift
  <1> QED
    <2>1. CASE \E a \in Attempts :
                 NewAttempt(p, a, "queued") /\ Become(p, [pass[p] EXCEPT !.pc = "add", !.a = a])
      <3>1. PICK a \in Attempts :
              NewAttempt(p, a, "queued") /\ Become(p, [pass[p] EXCEPT !.pc = "add", !.a = a])
        BY <2>1
      <3> DEFINE record == [pass[p] EXCEPT !.pc = "add", !.a = a]
      <3>2. /\ record.pc = "add" /\ record.a = a /\ record.r = pass[p].r
            /\ record.why = pass[p].why /\ record.spent = pass[p].spent /\ Become(p, record)
        BY <1>2, <3>1 DEF PassRow
      <3> HIDE DEF record
      <3> QED
        BY <1>6, <3>1, <3>2
    <2>2. ASSUME NEW halt, Become(p, [pass[p] EXCEPT !.pc = "rollback", !.halt = halt]),
                 \/ UNCHANGED att
                 \/ \E a \in Attempts : NewAttempt(p, a, "failed")
          PROVE  Thrift'
      <3> DEFINE record == [pass[p] EXCEPT !.pc = "rollback", !.halt = halt]
      <3>1. /\ record.pc = "rollback" /\ record.r = pass[p].r
            /\ record.why = pass[p].why /\ record.spent = pass[p].spent /\ Become(p, record)
        BY <1>2, <2>2 DEF PassRow
      <3> HIDE DEF record
      <3> QED
        BY <1>6, <1>7, <2>2, <3>1
    <2> QED
      BY <2>1, <2>2 DEF Resolve

(* Nobody but a grab makes more work. *)
LEMMA WholeCalm ==
  ASSUME Orderly, TypeInv, Core, Discards, Whole, Next, \A p \in Passes : ~Resolve(p)
  PROVE  Calmer
  <1>1. ASSUME NEW r \in Requests, \/ Submit(r) \/ Approve(r) \/ Reject(r) \/ ListForResearch(r)
                                   \/ ReleaseStranded(r) \/ AbandonSelfServe(r)
        PROVE  Calmer
    BY <1>1, SameCalm DEF Submit, Approve, Reject, ListForResearch, ReleaseStranded,
       AbandonSelfServe, rows, work
  <1>2. ASSUME NEW p \in Passes, PassStep(p) \/ GrabByHand(p)
        PROVE  Calmer
    <2>1. CASE Refuse(p)
      <3>1. pass[p].a \in Attempts /\ att[pass[p].a].status # "absent"
        BY <2>1 DEF Refuse, TypeInv, PassOK, Made
      <3>2. att' = [att EXCEPT ![pass[p].a].status = "failed"] /\ att \in [Attempts -> AttemptRow]
        BY <2>1 DEF Refuse, TypeInv, AttOK
      <3>3. Settling
        BY <3>1, <3>2 DEF Settling, AttemptRow
      <3> QED
        BY <2>1, <3>3, SettlingFrames DEF Refuse, passFrame, work
    <2>2. CASE ~Refuse(p)
      BY <1>2, <2>2, SameCalm
      DEF PassStep, RunTodo, ClaimSearch, SearchEnds, ReadForGrab, ClaimForGrab, ClientTakes,
          AddAnswered, AddFails, Rollback, GiveUp, GrabByHand, passFrame, work
    <2> QED
      BY <2>1, <2>2
  <1>3. ASSUME NEW a \in Attempts, PollStep(a) \/ FailRequest(a)
        PROVE  Calmer
    BY <1>3, PollAsksCore, PollEndsCore, PollReportsCore, PollMovesCore, ResumeCore,
       FailRequestCore
    DEF PollStep
  <1>4. ASSUME NEW a \in Attempts, NEW from \in {"import", "verify"}, HoldRequest(a, from)
        PROVE  Calmer
    BY <1>4, HoldRequestCore
  <1>5. ASSUME StartImport \/ \E i \in Importers : ImportStep(i)
        PROVE  Calmer
    BY <1>5, StartImportCore, ExtractCore, ClaimRequestCore, LinkCore, PlaceCore DEF ImportStep
  <1>6. ASSUME NEW a \in Attempts, ImportChosen(a) \/ Ingested(a) \/ Verify(a)
        PROVE  Calmer
    BY <1>6, ImportChosenCore, IngestedCore, VerifyCore
  <1>7. ASSUME NEW f \in Filers, FilingStep(f)
        PROVE  Calmer
    BY <1>7, FileIntoLibraryCore, SettleCore, MarkImportedCore DEF FilingStep
  <1>8. ASSUME NEW r \in Requests, FileHeld(r)
        PROVE  Calmer
    BY <1>8, FileHeldCore
  <1>9. ASSUME NEW p \in Persons, NEW r \in Requests, Cancel(p, r) \/ Fulfil(p, r) \/ Discard(p, r)
        PROVE  Calmer
    BY <1>9, PersonBeginsCore
  <1>10. ASSUME NEW p \in Persons, NEW a \in Attempts, StopTransfer(p, a)
         PROVE  Calmer
    BY <1>10 DEF StopTransfer, Orderly, TypeInv, SpentOK
  <1>11. ASSUME NEW p \in Persons, PersonStep(p)
         PROVE  Calmer
    BY <1>11, PersonStepCore
  <1>12. ASSUME NEW a \in Attempts,
                DockEmptied(a) \/ ClientEnds(a) \/ WatchdogReads(a) \/ WatchdogActs(a)
         PROVE  Calmer
    BY <1>12, OutsideCore, ClientEndsCore, WatchdogCore
  <1> QED
    BY <1>1, <1>2, <1>3, <1>4, <1>5, <1>6, <1>7, <1>8, <1>9, <1>10, <1>11, <1>12, CrashCore
    DEF Next

LEMMA HalfwayCalm ==
  ASSUME Orderly, TypeInv, Core, Discards, Completes
  PROVE  Calmer
  <1>1. \A p \in Persons : ~UndoRequest(p) /\ ~UndoAttempt(p)
    BY DEF Core, Direct, UndoRequest, UndoAttempt
  <1> QED
    BY <1>1, FailRequestCore, PollMovesCore, HoldRequestCore, DiscardAttemptCore, CrashCore
    DEF Completes

(* Those who neither grab nor ask for automation. *)
LEMMA OthersAskNothing ==
  ASSUME Next,
         \A r \in Requests : ~Submit(r) /\ ~Approve(r) /\ ~ListForResearch(r),
         \A p \in Passes : ~PassStep(p) /\ ~GrabByHand(p),
         \A a \in Attempts : ~FailRequest(a), ~ServerCrash
  PROVE  UNCHANGED <<pass, todo>>
  <1>1. \A r \in Requests : \/ Reject(r) \/ FileHeld(r) \/ ReleaseStranded(r) \/ AbandonSelfServe(r)
          => UNCHANGED <<pass, todo>>
    BY DEF Reject, FileHeld, ReleaseStranded, AbandonSelfServe, filingFrame
  <1>2. \A a \in Attempts : \/ PollStep(a) \/ ImportChosen(a) \/ Ingested(a) \/ Verify(a)
                            \/ DockEmptied(a) \/ ClientEnds(a) \/ WatchdogReads(a) \/ WatchdogActs(a)
          => UNCHANGED <<pass, todo>>
    BY DEF PollStep, PollAsks, PollUnanswered, PollFails, PollReports, PollMoves,
           ResumeUnimported, ImportChosen, Ingested, Verify, DockEmptied, ClientEnds,
           WatchdogReads, WatchdogActs, importFrame, filingFrame
  <1>3. \A a \in Attempts, from \in {"import", "verify"} : HoldRequest(a, from)
          => UNCHANGED <<pass, todo>>
    BY DEF HoldRequest
  <1>4. StartImport \/ (\E i \in Importers : ImportStep(i)) => UNCHANGED <<pass, todo>>
    BY DEF StartImport, ImportStep, Extract, ClaimRequest, Link, Place, importFrame
  <1>5. \A f \in Filers : FilingStep(f) => UNCHANGED <<pass, todo>>
    BY DEF FilingStep, FileIntoLibrary, Settle, MarkImported, filingFrame
  <1>6. \A p \in Persons : PersonStep(p) => UNCHANGED <<pass, todo>>
    BY DEF PersonStep, Detach, FailAttempt, Reopen, Close, SweepAttempts, DiscardRequest,
           DiscardAttempt, Empty, UndoRequest, UndoAttempt, personFrame
  <1>7. \A p \in Persons, r \in Requests : Cancel(p, r) \/ Fulfil(p, r) \/ Discard(p, r)
          => UNCHANGED <<pass, todo>>
    BY DEF Cancel, Fulfil, Discard, personFrame
  <1>8. \A p \in Persons, a \in Attempts : StopTransfer(p, a) => UNCHANGED <<pass, todo>>
    BY DEF StopTransfer, personFrame
  <1> QED
    BY <1>1, <1>2, <1>3, <1>4, <1>5, <1>6, <1>7, <1>8 DEF Next

LEMMA PassStepThrift ==
  ASSUME Orderly, TypeInv, Core, Thrift, Calmer, SameMakers, NeverAgain, NEW p \in Passes,
         PassStep(p) \/ GrabByHand(p), ~Resolve(p)
  PROVE  Thrift'
  <1>1. ClaimSearch(p) \/ SearchEnds(p) \/ GiveUp(p) \/ AddAnswered(p) => UNCHANGED todo
    BY DEF ClaimSearch, SearchEnds, GiveUp, AddAnswered
  <1> QED
    BY <1>1, GrabByHandThrift, RunTodoThrift, SearchThrift, ReadForGrabThrift, ClaimForGrabThrift,
       AddThrift, RefuseThrift
    DEF PassStep

Thrifty == Ordered /\ Inv /\ Thrift

LEMMA NextThrifty == Thrifty /\ [Next]_vars /\ [Prompt]_vars => Thrifty'
  <1> SUFFICES ASSUME Thrifty, [Next]_vars, [Prompt]_vars PROVE Thrift'
    BY NextOrdered, NextInv DEF Thrifty
  <1>1. Orderly /\ TypeInv /\ Core /\ Discards /\ Inv /\ Thrift
    BY DEF Thrifty, Ordered, Order
  <1>2. NeverAgain
    BY <1>1, EveryStep, NeverEarly DEF NeverAgain
  <1>3. CASE UNCHANGED vars
    <2>1. UNCHANGED <<att, pass, todo, import, failing>>
      BY <1>3 DEF vars, rows, work
    <2> QED
      BY <1>1, <1>2, <2>1, SameCalm, UnchangedMakers, CalmThrift
  <1>4. CASE Next /\ Halfway /\ Completes /\ ~UNCHANGED vars
    <2>1. Calmer
      BY <1>1, <1>4, HalfwayCalm
    <2>2. SameMakers
      <3>1. \A p \in Persons : DiscardAttempt(p) \/ UndoRequest(p) \/ UndoAttempt(p) => SameMakers
        BY <1>1, PersonMakers DEF PersonStep
      <3>2. \A a \in Attempts, from \in {"import", "verify"} : HoldRequest(a, from) => SameMakers
        BY <1>1, FailMakers, UnchangedMakers DEF HoldRequest, TypeInv
      <3> QED
        BY <1>4, <3>1, <3>2, UnchangedMakers DEF Completes, FailRequest, PollMoves, ServerCrash, rows
    <2>3. ASSUME NEW a \in Attempts, FailRequest(a) PROVE Thrift'
      BY <1>1, <1>2, <2>1, <2>2, <2>3, FailRequestThrift
    <2>4. CASE ServerCrash
      BY <1>1, <2>2, <2>4, CrashThrift
    <2>5. CASE ~ServerCrash /\ \A a \in Attempts : ~FailRequest(a)
      <3>1. UNCHANGED <<pass, todo>>
        BY <1>4, <2>5 DEF Completes, PollMoves, HoldRequest, DiscardAttempt, UndoRequest,
                          UndoAttempt, personFrame
      <3> QED
        BY <1>1, <1>2, <2>1, <2>2, <3>1, CalmThrift
    <2> QED
      BY <2>3, <2>4, <2>5
  <1>5. CASE Next /\ ~Halfway
    <2>1. Whole
      BY <1>5, NotHalfway
    <2>2. ASSUME NEW p \in Passes, Resolve(p) PROVE Thrift'
      BY <1>1, <2>2, ResolveThrift
    <2>3. CASE \A p \in Passes : ~Resolve(p)
      <3>1. Calmer /\ SameMakers
        BY <1>1, <1>5, <2>1, <2>3, WholeCalm, NextMakers
      <3>2. ASSUME NEW r \in Requests, Submit(r) \/ Approve(r) \/ ListForResearch(r) PROVE Thrift'
        BY <1>1, <1>2, <2>1, <3>1, <3>2, AgreeThrift, ListThrift
      <3>3. ASSUME NEW p \in Passes, PassStep(p) \/ GrabByHand(p) PROVE Thrift'
        BY <1>1, <1>2, <2>3, <3>1, <3>3, PassStepThrift
      <3>4. ASSUME NEW a \in Attempts, FailRequest(a) PROVE Thrift'
        BY <1>1, <1>2, <3>1, <3>4, FailRequestThrift
      <3>5. ASSUME ServerCrash PROVE Thrift'
        BY <1>1, <3>1, <3>5, CrashThrift
      <3>6. ASSUME UNCHANGED <<pass, todo>> PROVE Thrift'
        BY <1>1, <1>2, <3>1, <3>6, CalmThrift
      <3> QED
        BY <1>5, <3>2, <3>3, <3>4, <3>5, <3>6, OthersAskNothing
    <2> QED
      BY <2>2, <2>3
  <1> QED
    BY <1>3, <1>4, <1>5 DEF Prompt

LEMMA InitThrifty == Orderly /\ Init => Thrifty
  <1> SUFFICES ASSUME Orderly, Init PROVE Thrift
    BY InitOrdered, InitInv DEF Thrifty
  <1>1. Made = {} /\ todo = {} /\ \A p \in Passes : ~Automates(p)
    BY DEF Init, Made, NoAttempt, IdlePass, Automates
  <1>2. \A r \in Requests : Automated(r) = 0
    <2>1. \A r \in Requests : {a \in Attempts : att[a].req = r /\ att[a].auto} = {}
      BY DEF Init, NoAttempt
    <2> QED
      BY <2>1, FS_EmptySet DEF Automated
  <1> QED
    BY <1>1, <1>2, BoundsAssumption DEF Thrift, OneToken, Counted, Unasked, Budget, BoundsAssumption

(* While nothing breaks in, automation makes no more attempts for a request *)
(* than maxAutoGrabAttempts, over all its passes, retries and sweeps.       *)
THEOREM BudgetCorrect == Orderly /\ Spec /\ [][Prompt]_vars => []Budget
  <1>1. Thrifty => Budget
    BY DEF Thrifty, Thrift
  <1> QED
    BY <1>1, InitThrifty, NextThrifty, PTL DEF Spec
=============================================================================
