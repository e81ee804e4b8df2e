----------------------- MODULE RequestsWithoutRestart -----------------------
(***************************************************************************)
(* What holds of Requests in orderly behaviours without a restart.         *)
(*                                                                         *)
(* A request said to be in work has somebody working on it (WorkerBacked)  *)
(* and, if people who discard do so alone (Alone), it puts one copy in the *)
(* library (OneCopy).                                                      *)
(***************************************************************************)
EXTENDS RequestsProofs

(* Whoever is said to work is there.                                        *)

(* Somebody closes the request by hand, or it is closed.                    *)
Given(r) == \/ req[r] \in Closed
            \/ \E p \in Persons : person[p].op = "fulfil" /\ person[p].r = r

(* An attempt that will move its request on, and who may.                   *)
Live(a) == att[a].status \in Unsettled \/ a \in failing
BackedBy(r) ==
  \/ Given(r)
  \/ \E a \in Made : att[a].req = r /\ Live(a)
  \/ \E p \in Passes : Holds(p) /\ pass[p].r = r

(* A request in work has somebody who works on it. *)
Supported == \A r \in Requests : InWork(r) => BackedBy(r)

(* What a person's operation has done so far. *)
Errands == \A p \in Persons :
  /\ person[p].pc = "idle" => person[p].op = "none"
  /\ person[p].pc \in {"detach", "fail"} => person[p].op \in {"cancel", "fulfil"}
  /\ person[p].pc = "fail" => att[person[p].a].req = person[p].r
  /\ person[p].pc = "sweep" \/ person[p].op = "cancel" => req[person[p].r] \in Closed
  /\ person[p].op = "fulfil" => /\ person[p].pc \in {"detach", "fail", "close", "sweep"}
                                /\ req[person[p].r] # "absent"

(* The request of an attempt that is in hand is as far as the attempt. *)
Seat(a, S) == \/ req[att[a].req] \in S \cup Closed
              \/ "needs_review" \in S /\ Declining(att[a].req)
Fetched == {"grabbed", "downloading", "importing"}
Seats == \A a \in Made :
  /\ att[a].status = "completed" => Seat(a, Fetched)
  /\ att[a].status = "importing" => Seat(a, FileableFrom)
  /\ att[a].status = "needs_review" =>
       Seat(a, {"needs_review"}) \/ \E x \in holding : x[1] = a
ImportSeats == \A i \in Importers :
  /\ i = "queue" /\ import[i].pc \in {"extract", "claim"} => Seat(import[i].a, Fetched)
  /\ i = "chosen" /\ import[i].pc \in {"extract", "claim"} => Seat(import[i].a, FileableFrom)
  /\ import[i].pc \in {"link", "place"} => Seat(import[i].a, {"importing"})

(* What is filed was fetched long ago, and is settled after its request. *)
Late == {"importing", "needs_review", "imported", "failed"}
Filable(a) == /\ att[a].status \in Late
              /\ import["queue"].pc \in {"extract", "claim"} => import["queue"].a # a
FilingLate == \A f \in Filers : filing[f].pc # "idle" => Filable(filing[f].a)
MarkClosed == \A f \in Filers : filing[f].pc = "mark" /\ Engaged(filing[f].a) =>
  req[att[filing[f].a].req] \in Closed

(* What is worked on is alive, or somebody closes its request.              *)
ImportLive == \A i \in Importers : import[i].pc # "idle" =>
  Live(import[i].a) \/ Given(att[import[i].a].req)
AddLive == \A p \in Passes : pass[p].pc = "add" /\ Holds(p) =>
  Live(pass[p].a) \/ Given(pass[p].r)

(* Only an attempt that is being sent is taken.                             *)
Taking == \A p \in Passes : pass[p].took => pass[p].pc = "add"

(* Who moves a request, ... *)
LEMMA ReqMovers ==
  ASSUME Next
  PROVE  \/ UNCHANGED req
         \/ \E r \in Requests : \/ Submit(r) \/ Approve(r) \/ Reject(r) \/ ReleaseStranded(r)
                                \/ AbandonSelfServe(r)
         \/ \E p \in Passes : \/ ClaimSearch(p) \/ SearchEnds(p) \/ ClaimForGrab(p)
                              \/ AddAnswered(p) \/ Rollback(p) \/ GiveUp(p)
         \/ \E a \in Attempts : PollMoves(a) \/ FailRequest(a)
         \/ \E a \in Attempts, from \in {"import", "verify"} : HoldRequest(a, from)
         \/ \E i \in Importers : ClaimRequest(i)
         \/ \E f \in Filers : Settle(f)
         \/ \E p \in Persons, r \in Requests : Cancel(p, r)
         \/ \E p \in Persons : \/ Reopen(p) \/ Close(p) \/ DiscardRequest(p) \/ DiscardAttempt(p)
                               \/ UndoRequest(p)
  <1>1. \A r \in Requests : ListForResearch(r) \/ FileHeld(r) => UNCHANGED req
    BY DEF ListForResearch, FileHeld, rows
  <1>2. \A p \in Passes : PassStep(p) \/ GrabByHand(p) =>
          \/ UNCHANGED req
          \/ ClaimSearch(p) \/ SearchEnds(p) \/ ClaimForGrab(p)
          \/ AddAnswered(p) \/ Rollback(p) \/ GiveUp(p)
    BY DEF PassStep, RunTodo, ReadForGrab, Resolve, ClientTakes, AddFails, Refuse, GrabByHand
  <1>3. \A a \in Attempts : PollStep(a) \/ ImportChosen(a) \/ Ingested(a) \/ Verify(a) 
                            \/ DockEmptied(a) \/ ClientEnds(a)
                            \/ WatchdogReads(a) \/ WatchdogActs(a)
          => UNCHANGED req \/ PollMoves(a)
    BY DEF PollStep, PollAsks, PollUnanswered, PollFails, PollReports, ResumeUnimported,
           ImportChosen, Ingested, Verify, DockEmptied, ClientEnds, WatchdogReads,
           WatchdogActs, rows
  <1>4. StartImport \/ (\E i \in Importers : ImportStep(i)) =>
          UNCHANGED req \/ \E i \in Importers : ClaimRequest(i)
    BY DEF StartImport, ImportStep, Extract, Link, Place, rows
  <1>5. \A f \in Filers : FilingStep(f) => UNCHANGED req \/ Settle(f)
    BY DEF FilingStep, FileIntoLibrary, MarkImported
  <1>6. \A p \in Persons, r \in Requests : Fulfil(p, r) \/ Discard(p, r) => UNCHANGED req
    BY DEF Fulfil, Discard, rows
  <1>7. \A p \in Persons, a \in Attempts : StopTransfer(p, a) => UNCHANGED req
    BY DEF StopTransfer, rows
  <1>8. \A p \in Persons : PersonStep(p) =>
          \/ UNCHANGED req
          \/ Reopen(p) \/ Close(p) \/ DiscardRequest(p) \/ DiscardAttempt(p) \/ UndoRequest(p)
    BY DEF PersonStep, Detach, FailAttempt, SweepAttempts, Empty, UndoAttempt, rows
  <1>9. ServerCrash => UNCHANGED req
    BY DEF ServerCrash, rows
  <1> QED
    BY <1>1, <1>2, <1>3, <1>4, <1>5, <1>6, <1>7, <1>8, <1>9 DEF Next

(* ... who moves an attempt, ... *)
LEMMA AttMovers ==
  ASSUME Next
  PROVE  \/ UNCHANGED att
         \/ \E p \in Passes : Resolve(p) \/ Refuse(p)
         \/ \E a \in Attempts : \/ PollFails(a) \/ PollReports(a) \/ ImportChosen(a) \/ Verify(a)
                                \/ DockEmptied(a) \/ WatchdogActs(a)
         \/ \E a \in Attempts, from \in {"import", "verify"} : HoldRequest(a, from)
         \/ \E i \in Importers : ImportStep(i)
         \/ \E f \in Filers : FileIntoLibrary(f) \/ MarkImported(f)
         \/ \E p \in Persons : \/ FailAttempt(p) \/ SweepAttempts(p) \/ DiscardAttempt(p)
                               \/ Empty(p) \/ UndoAttempt(p)
  <1>1. \A r \in Requests : \/ Submit(r) \/ Approve(r) \/ Reject(r) \/ ListForResearch(r)
                            \/ FileHeld(r) \/ ReleaseStranded(r) \/ AbandonSelfServe(r)
          => UNCHANGED att
    BY DEF Submit, Approve, Reject, ListForResearch, FileHeld, ReleaseStranded,
           AbandonSelfServe, rows
  <1>2. \A p \in Passes : PassStep(p) \/ GrabByHand(p) =>
          UNCHANGED att \/ Resolve(p) \/ Refuse(p)
    BY DEF PassStep, RunTodo, ClaimSearch, SearchEnds, ReadForGrab, ClaimForGrab, ClientTakes,
           AddAnswered, AddFails, Rollback, GiveUp, GrabByHand
  <1>3. \A a \in Attempts : PollStep(a) \/ FailRequest(a) \/ Ingested(a) \/ ClientEnds(a)
                            \/ WatchdogReads(a)
          => UNCHANGED att \/ PollFails(a) \/ PollReports(a)
    BY DEF PollStep, PollAsks, PollUnanswered, PollMoves, ResumeUnimported, FailRequest,
           Ingested, ClientEnds, WatchdogReads, rows
  <1>4. StartImport => UNCHANGED att
    BY DEF StartImport, rows
  <1>5. \A f \in Filers : Settle(f) => UNCHANGED att
    BY DEF Settle
  <1>6. \A p \in Persons, r \in Requests : Cancel(p, r) \/ Fulfil(p, r) \/ Discard(p, r)
          => UNCHANGED att
    BY DEF Cancel, Fulfil, Discard, rows
  <1>7. \A p \in Persons, a \in Attempts : StopTransfer(p, a) => UNCHANGED att
    BY DEF StopTransfer, rows
  <1>8. \A p \in Persons : Detach(p) \/ Reopen(p) \/ Close(p) \/ DiscardRequest(p)
                           \/ UndoRequest(p) => UNCHANGED att
    BY DEF Detach, Reopen, Close, DiscardRequest, UndoRequest, rows
  <1>9. ServerCrash => UNCHANGED att
    BY DEF ServerCrash, rows
  <1> QED
    BY <1>1, <1>2, <1>3, <1>4, <1>5, <1>6, <1>7, <1>8, <1>9 DEF Next, FilingStep, PersonStep

(* ... and who ends or begins a piece of work. *)
LEMMA WorkMovers ==
  ASSUME Next, ~ServerCrash
  PROVE  /\ \/ UNCHANGED person
            \/ \E p \in Persons : PersonStep(p)
            \/ \E p \in Persons, r \in Requests : Cancel(p, r) \/ Fulfil(p, r) \/ Discard(p, r)
            \/ \E p \in Persons, a \in Attempts : StopTransfer(p, a)
         /\ \/ UNCHANGED pass
            \/ \E p \in Passes : PassStep(p) \/ GrabByHand(p)
         /\ \/ UNCHANGED import
            \/ StartImport
            \/ \E a \in Attempts : ImportChosen(a)
            \/ \E i \in Importers : ImportStep(i)
         /\ \/ UNCHANGED filing
            \/ \E a \in Attempts : Ingested(a) \/ Verify(a)
            \/ \E f \in Filers : FilingStep(f)
            \/ \E r \in Requests : FileHeld(r)
         /\ \/ UNCHANGED failing
            \/ \E a \in Attempts : \/ PollFails(a) \/ Verify(a) \/ WatchdogActs(a)
                                   \/ FailRequest(a)
            \/ \E a \in Attempts, from \in {"import", "verify"} : HoldRequest(a, from)
            \/ \E i \in Importers : ImportStep(i)
         /\ \/ UNCHANGED holding
            \/ \E a \in Attempts : Verify(a)
            \/ \E a \in Attempts, from \in {"import", "verify"} : HoldRequest(a, from)
            \/ \E i \in Importers : Extract(i)
            \/ \E f \in Filers : FileIntoLibrary(f)
  <1>1. \A r \in Requests : \/ Submit(r) \/ Approve(r) \/ Reject(r) \/ ListForResearch(r)
                            \/ ReleaseStranded(r) \/ AbandonSelfServe(r)
          => UNCHANGED <<person, pass, import, filing, failing, holding>>
    BY DEF Submit, Approve, Reject, ListForResearch, ReleaseStranded, AbandonSelfServe, work
  <1>2. \A r \in Requests : FileHeld(r) => UNCHANGED <<person, pass, import, failing, holding>>
    BY DEF FileHeld, filingFrame
  <1>3. \A p \in Passes : PassStep(p) \/ GrabByHand(p) =>
          UNCHANGED <<person, import, filing, failing, holding>>
    BY DEF PassStep, RunTodo, ClaimSearch, SearchEnds, ReadForGrab, ClaimForGrab, Resolve,
           ClientTakes, AddAnswered, AddFails, Refuse, Rollback, GiveUp, GrabByHand,
           passFrame, work
  <1>4. \A a \in Attempts : PollStep(a) \/ DockEmptied(a) \/ ClientEnds(a) \/ WatchdogReads(a)
                            \/ WatchdogActs(a) \/ FailRequest(a)
          => UNCHANGED <<person, pass, import, filing, holding>>
             /\ (UNCHANGED failing \/ PollFails(a) \/ WatchdogActs(a) \/ FailRequest(a))
    BY DEF PollStep, PollAsks, PollUnanswered, PollReports, PollMoves, PollFails, FailRequest,
           ResumeUnimported, DockEmptied, ClientEnds, WatchdogReads, WatchdogActs, work
  <1>5. \A a \in Attempts : ImportChosen(a) =>
          UNCHANGED <<person, pass, filing, failing, holding>>
    BY DEF ImportChosen, importFrame
  <1>6. \A a \in Attempts : Ingested(a) =>
          UNCHANGED <<person, pass, import, failing, holding>>
    BY DEF Ingested, filingFrame
  <1>7. \A a \in Attempts : Verify(a) => UNCHANGED <<person, pass, import>>
    BY DEF Verify, filingFrame
  <1>8. \A a \in Attempts, from \in {"import", "verify"} : HoldRequest(a, from) =>
          UNCHANGED <<person, pass, import, filing>>
    BY DEF HoldRequest
  <1>9. StartImport => UNCHANGED <<person, pass, filing, failing, holding>>
    BY DEF StartImport, importFrame
  <1>10. \A i \in Importers : ImportStep(i) =>
           UNCHANGED <<person, pass, filing>> /\ (UNCHANGED holding \/ Extract(i))
    BY DEF ImportStep, Extract, ClaimRequest, Link, Place, importFrame
  <1>11. \A f \in Filers : FilingStep(f) =>
           UNCHANGED <<person, pass, import, failing>>
           /\ (UNCHANGED holding \/ FileIntoLibrary(f))
    BY DEF FilingStep, FileIntoLibrary, Settle, MarkImported, filingFrame
  <1>12. \A p \in Persons, r \in Requests : Cancel(p, r) \/ Fulfil(p, r) \/ Discard(p, r) =>
           UNCHANGED <<pass, import, filing, failing, holding>>
    BY DEF Cancel, Fulfil, Discard, personFrame
  <1>13. \A p \in Persons, a \in Attempts : StopTransfer(p, a) =>
           UNCHANGED <<pass, import, filing, failing, holding>>
    BY DEF StopTransfer, personFrame
  <1>14. \A p \in Persons : PersonStep(p) =>
           UNCHANGED <<pass, import, filing, failing, holding>>
    BY DEF PersonStep, Detach, FailAttempt, Reopen, Close, SweepAttempts, DiscardRequest,
           DiscardAttempt, Empty, UndoRequest, UndoAttempt, personFrame
  <1> DEFINE
    PersonMoves ==
      \/ UNCHANGED person
      \/ \E p \in Persons : PersonStep(p)
      \/ \E p \in Persons, r \in Requests : Cancel(p, r) \/ Fulfil(p, r) \/ Discard(p, r)
      \/ \E p \in Persons, a \in Attempts : StopTransfer(p, a)
    PassMoves ==
      \/ UNCHANGED pass
      \/ \E p \in Passes : PassStep(p) \/ GrabByHand(p)
    ImportMoves ==
      \/ UNCHANGED import
      \/ StartImport
      \/ \E a \in Attempts : ImportChosen(a)
      \/ \E i \in Importers : ImportStep(i)
    FilingMoves ==
      \/ UNCHANGED filing
      \/ \E a \in Attempts : Ingested(a) \/ Verify(a)
      \/ \E f \in Filers : FilingStep(f)
      \/ \E r \in Requests : FileHeld(r)
    FailingMoves ==
      \/ UNCHANGED failing
      \/ \E a \in Attempts : \/ PollFails(a) \/ Verify(a) \/ WatchdogActs(a) \/ FailRequest(a)
      \/ \E a \in Attempts, from \in {"import", "verify"} : HoldRequest(a, from)
      \/ \E i \in Importers : ImportStep(i)
    HoldingMoves ==
      \/ UNCHANGED holding
      \/ \E a \in Attempts : Verify(a)
      \/ \E a \in Attempts, from \in {"import", "verify"} : HoldRequest(a, from)
      \/ \E i \in Importers : Extract(i)
      \/ \E f \in Filers : FileIntoLibrary(f)
  <1>15. PersonMoves
    BY <1>1, <1>2, <1>3, <1>4, <1>5, <1>6, <1>7, <1>8, <1>9, <1>10, <1>11 DEF Next
  <1>16. PassMoves
    BY <1>1, <1>2, <1>4, <1>5, <1>6, <1>7, <1>8, <1>9, <1>10, <1>11, <1>12, <1>13, <1>14 DEF Next
  <1>17. ImportMoves
    BY <1>1, <1>2, <1>3, <1>4, <1>6, <1>7, <1>8, <1>11, <1>12, <1>13, <1>14 DEF Next
  <1>18. FilingMoves
    BY <1>1, <1>3, <1>4, <1>5, <1>8, <1>9, <1>10, <1>12, <1>13, <1>14 DEF Next
  <1>19. FailingMoves
    BY <1>1, <1>2, <1>3, <1>4, <1>5, <1>6, <1>9, <1>11, <1>12, <1>13, <1>14 DEF Next
  <1>20. HoldingMoves
    BY <1>1, <1>2, <1>3, <1>4, <1>5, <1>6, <1>9, <1>10, <1>11, <1>12, <1>13, <1>14 DEF Next
  <1> QED
    BY <1>15, <1>16, <1>17, <1>18, <1>19, <1>20

(* A decision stands, and no request is forgotten. *)
Stands ==
  \A r \in Requests : /\ req[r] \in Closed => req'[r] = req[r]
                      /\ req[r] # "absent" => req'[r] # "absent"

LEMMA EveryStands == ASSUME Inv, [Next]_vars PROVE Stands
  <1>1. Step /\ ReqOK
    BY EveryStep DEF Inv, TypeInv
  <1>2. CASE ReqQuiet
    BY <1>1, <1>2
    DEF ReqOK, ReqQuiet, Legal, Closed, Agreed, RequestStatus, ActiveRequest, Stands
  <1>3. CASE Answers
    BY <1>1, <1>3 DEF ReqOK, Answers, Closed, FileableFrom, Stands
  <1>4. CASE Fulfils
    BY <1>1, <1>4 DEF ReqOK, Fulfils, Closed, Fulfillable, ActiveRequest, Stands
  <1>5. CASE Arrives
    BY <1>5 DEF Arrives, Stands
  <1> QED
    BY <1>1, <1>2, <1>3, <1>4, <1>5 DEF Step, ReqStep, Quiet

Errand(p) ==
  /\ person[p].pc = "idle" => person[p].op = "none"
  /\ person[p].pc \in {"detach", "fail"} => person[p].op \in {"cancel", "fulfil"}
  /\ person[p].pc = "fail" => att[person[p].a].req = person[p].r
  /\ person[p].pc = "sweep" \/ person[p].op = "cancel" => req[person[p].r] \in Closed
  /\ person[p].op = "fulfil" => /\ person[p].pc \in {"detach", "fail", "close", "sweep"}
                                /\ req[person[p].r] # "absent"

LEMMA SameErrand ==
  ASSUME TypeInv, Errands, Grows, Stands, NEW p \in Persons, person'[p] = person[p]
  PROVE  Errand(p)'
  <1>1. person[p].pc = "fail" => person[p].a \in Made
    BY DEF TypeInv, PersonOK
  <1>2. person[p].pc # "idle" => person[p].r \in Requests
    BY DEF TypeInv, PersonOK
  <1>3. Errand(p)
    BY DEF Errands, Errand
  <1>4. /\ person[p].pc = "sweep" \/ person[p].op = "cancel" => req'[person[p].r] \in Closed
        /\ person[p].op = "fulfil" => req'[person[p].r] # "absent"
    BY <1>2, <1>3 DEF Errand, Stands
  <1>5. person[p].pc = "fail" => att'[person[p].a].req = person[p].r
    BY <1>1, <1>3 DEF Errand, Grows
  <1> QED
    BY <1>3, <1>4, <1>5 DEF Errand

LEMMA FreeEffect ==
  ASSUME TypeInv, NEW p \in Persons, Free(p)
  PROVE  person'[p] = IdlePerson /\ \A q \in Persons : q # p => person'[q] = person[q]
  BY DEF TypeInv, PersonOK, Free

LEMMA DoesEffect ==
  ASSUME TypeInv, NEW p \in Persons, NEW pc, Does(p, pc)
  PROVE  /\ person'[p].pc = pc /\ person'[p].op = person[p].op
         /\ person'[p].r = person[p].r /\ person'[p].a = person[p].a
         /\ \A q \in Persons : q # p => person'[q] = person[q]
  BY DEF TypeInv, PersonOK, Does, PersonRow

LEMMA DetachEffect ==
  ASSUME TypeInv, NEW p \in Persons, NEW a, person' = [person EXCEPT ![p].pc = "fail", ![p].a = a]
  PROVE  /\ person'[p].pc = "fail" /\ person'[p].op = person[p].op
         /\ person'[p].r = person[p].r /\ person'[p].a = a
         /\ \A q \in Persons : q # p => person'[q] = person[q]
  BY DEF TypeInv, PersonOK, PersonRow

LEMMA BeginsEffect ==
  ASSUME TypeInv, NEW p \in Persons, NEW pc, NEW op, NEW r, NEW a, NEW f,
         Begins(p, pc, op, r, a, f)
  PROVE  /\ person[p].pc = "idle" /\ person'[p].pc = pc /\ person'[p].op = op
         /\ person'[p].r = r /\ person'[p].a = a
         /\ \A q \in Persons : q # p => person'[q] = person[q]
  BY DEF TypeInv, PersonOK, Begins

LEMMA IdleErrand == ASSUME NEW p \in Persons, person'[p] = IdlePerson PROVE Errand(p)'
  BY DEF IdlePerson, Errand

(* An operation goes on, with its facts about the request. *)
LEMMA DoesErrand ==
  ASSUME TypeInv, Errands, Stands, NEW p \in Persons, person[p].pc # "idle",
         NEW pc, Does(p, pc), pc \notin {"detach", "fail", "idle"},
         pc = "sweep" => req'[person[p].r] \in Closed,
         person[p].op = "fulfil" => pc \in {"close", "sweep"}
  PROVE  Errand(p)'
  <1>1. /\ person'[p].pc = pc /\ person'[p].op = person[p].op
        /\ person'[p].r = person[p].r
    BY DoesEffect
  <1>2. person[p].r \in Requests /\ Errand(p)
    BY DEF TypeInv, PersonOK, Errands, Errand
  <1> QED
    BY <1>1, <1>2 DEF Errand, Stands

LEMMA ErrandsKeep ==
  ASSUME Orderly, Inv, TypeInv, Core, Errands, [Next]_vars, ~ServerCrash
  PROVE  Errands'
  <1>1. Stands /\ Grows
    BY EveryStands, EveryStep DEF Step
  <1> SUFFICES ASSUME NEW p \in Persons PROVE Errand(p)'
    BY DEF Errands, Errand
  <1>2. CASE person'[p] = person[p]
    BY <1>1, <1>2, SameErrand
  <1>3. ASSUME NEW q \in Persons, PersonStep(q), person'[p] # person[p]
        PROVE  Errand(p)'
    <2>1. person[q].pc # "idle" /\ person[q].op # "stop" /\ Errand(q)
          /\ person[q].pc \notin {"reopen", "undo", "restore"}
      BY <1>3 DEF PersonStep, Detach, FailAttempt, Reopen, Close, SweepAttempts,
         DiscardRequest, DiscardAttempt, Empty, UndoRequest, UndoAttempt, Core, Direct,
         Errands, Errand
    <2>2. ASSUME Free(q) PROVE Errand(p)'
      BY <1>3, <2>2, FreeEffect, IdleErrand
    <2>3. ASSUME NEW pc, Does(q, pc) PROVE q = p
      BY <1>3, <2>3, DoesEffect
    <2>4. CASE Detach(q)
      <3>2. CASE Does(q, "close")
        BY <1>1, <2>1, <2>3, <3>2, DoesErrand
      <3>3. ASSUME NEW a \in ToDetach(q), person' = [person EXCEPT ![q].pc = "fail", ![q].a = a]
            PROVE  Errand(p)'
        <4>0. q = p
          BY <1>3, <3>3, DetachEffect
        <4>1. q = p /\ person'[p].pc = "fail" /\ person'[p].op = person[p].op
              /\ person'[p].r = person[p].r /\ person'[p].a = a
          BY <3>3, <4>0, DetachEffect
        <4>2. att[a].req = person[p].r /\ UNCHANGED <<req, att>>
          BY <2>1, <2>4, <3>3, <4>1 DEF ToDetach, IsLatest, Detach, rows
        <4> QED
          BY <2>1, <2>4, <4>1, <4>2 DEF Errand, Detach
      <3> QED
        BY <2>2, <2>4, <3>2, <3>3 DEF Detach
    <2>5. CASE FailAttempt(q)
      <3>1. Free(q) \/ Does(q, "close")
        BY <2>1, <2>5 DEF FailAttempt
      <3> QED
        BY <1>1, <2>1, <2>2, <2>3, <3>1, DoesErrand
    <2>6. CASE Close(q)
      <3>1. ASSUME Does(q, "sweep") PROVE req'[person[q].r] \in Closed \/ Free(q)
        <4>1. person[q].r \in Requests
          BY <2>1 DEF TypeInv, PersonOK
        <4> QED
          BY <2>6, <4>1 DEF Close, MoveRequest, UpdateIf, TypeInv, ReqOK, Closed
      <3> QED
        BY <1>1, <2>1, <2>2, <2>3, <2>6, <3>1, DoesErrand DEF Close
    <2>7. CASE SweepAttempts(q)
      BY <2>2, <2>7 DEF SweepAttempts
    <2>8. CASE DiscardRequest(q) \/ DiscardAttempt(q) \/ Empty(q)
      <3>1. Free(q) \/ \E pc \in {"decline", "empty", "undo"} : Does(q, pc)
        BY <1>3, <2>8 DEF DiscardRequest, DiscardAttempt, Empty
      <3>2. person[q].op # "fulfil"
        BY <2>1, <2>8 DEF DiscardRequest, DiscardAttempt, Empty, Errand
      <3> QED
        BY <1>1, <2>1, <2>2, <2>3, <3>1, <3>2, DoesErrand
    <2> QED
      BY <1>3, <2>1, <2>4, <2>5, <2>6, <2>7, <2>8 DEF PersonStep, Reopen, UndoRequest, UndoAttempt
  <1>4. ASSUME NEW q \in Persons, NEW r \in Requests, Cancel(q, r) \/ Fulfil(q, r) \/ Discard(q, r),
               person'[p] # person[p]
        PROVE  Errand(p)'
    <2>1. CASE Cancel(q, r)
      <3>1. Begins(q, "detach", "cancel", r, None, None) /\ req'[r] \in Closed
        BY <2>1 DEF Cancel, MoveRequest, UpdateIf, TypeInv, ReqOK, Closed
      <3>0. q = p
        BY <1>4, <3>1, BeginsEffect
      <3>2. q = p /\ person'[p].pc = "detach" /\ person'[p].op = "cancel" /\ person'[p].r = r
        BY <3>0, <3>1, BeginsEffect
      <3> QED
        BY <3>1, <3>2 DEF Errand
    <2>2. CASE Fulfil(q, r)
      <3>1. Begins(q, "detach", "fulfil", r, None, None) /\ req'[r] # "absent"
        BY <2>2 DEF Fulfil, rows, Fulfillable, ActiveRequest
      <3>0. q = p
        BY <1>4, <3>1, BeginsEffect
      <3>2. q = p /\ person'[p].pc = "detach" /\ person'[p].op = "fulfil" /\ person'[p].r = r
        BY <3>0, <3>1, BeginsEffect
      <3> QED
        BY <3>1, <3>2 DEF Errand
    <2>3. CASE Discard(q, r)
      <3>1. PICK a, f : Begins(q, "discard", "discard", r, a, f)
        BY <2>3 DEF Discard
      <3>0. q = p
        BY <1>4, <3>1, BeginsEffect
      <3>2. q = p /\ person'[p].pc = "discard" /\ person'[p].op = "discard"
        BY <3>0, <3>1, BeginsEffect
      <3> QED
        BY <3>2 DEF Errand
    <2> QED
      BY <1>4, <2>1, <2>2, <2>3
  <1>5. \A q \in Persons, a \in Attempts : ~StopTransfer(q, a)
    BY DEF StopTransfer, Orderly, TypeInv, SpentOK
  <1>6. CASE UNCHANGED vars
    BY <1>1, <1>6, SameErrand DEF vars
  <1>7. CASE Next /\ person'[p] # person[p]
    BY <1>3, <1>4, <1>5, <1>7, WorkMovers
  <1> QED
    BY <1>2, <1>6, <1>7

(* Who closes a request by hand does not leave before it is closed. *)
LEMMA FulfilOn ==
  ASSUME Orderly, Inv, TypeInv, Core, Errands, [Next]_vars, ~ServerCrash,
         NEW p \in Persons, person[p].op = "fulfil"
  PROVE  \/ person'[p].op = "fulfil" /\ person'[p].r = person[p].r
         \/ req'[person[p].r] \in Closed
  <1>1. Stands
    BY EveryStands
  <1>2. Errand(p) /\ person[p].pc # "idle" /\ person[p].r \in Requests /\ req \in [Requests -> RequestStatus \cup {"absent"}]
    BY DEF Errands, Errand, TypeInv, PersonOK, ReqOK
  <1>3. CASE person'[p] = person[p]
    BY <1>3
  <1>4. ASSUME NEW q \in Persons, PersonStep(q), person'[p] # person[p]
        PROVE  \/ person'[p].op = "fulfil" /\ person'[p].r = person[p].r
               \/ req'[person[p].r] \in Closed
    <2>1. ASSUME NEW pc, Does(q, pc)
          PROVE  person'[p].op = "fulfil" /\ person'[p].r = person[p].r
      <3>1. q = p
        BY <1>4, <2>1, DoesEffect
      <3> QED
        BY <2>1, <3>1, DoesEffect
    <2>2. ASSUME NEW a, person' = [person EXCEPT ![q].pc = "fail", ![q].a = a]
          PROVE  person'[p].op = "fulfil" /\ person'[p].r = person[p].r
      <3>1. q = p
        BY <1>4, <2>2, DetachEffect
      <3> QED
        BY <2>2, <3>1, DetachEffect
    <2>3. Free(q) => q = p
      BY <1>4, FreeEffect
    <2>4. CASE Detach(q)
      BY <2>1, <2>2, <2>3, <2>4 DEF Detach
    <2>5. CASE FailAttempt(q)
      BY <2>1, <2>3, <2>5 DEF FailAttempt
    <2>6. CASE Close(q)
      <3>1. CASE req[person[q].r] \in Fulfillable
        BY <2>1, <2>6, <3>1 DEF Close
      <3>2. CASE req[person[q].r] \notin Fulfillable
        <4>1. q = p /\ UNCHANGED req
          BY <2>3, <2>6, <3>2 DEF Close
        <4>2. req[person[p].r] # "absent"
          BY <1>2 DEF Errand
        <4> QED
          BY <1>2, <3>2, <4>1, <4>2 DEF Closed, Fulfillable, RequestStatus
      <3> QED
        BY <3>1, <3>2
    <2>7. CASE SweepAttempts(q)
      BY <1>2, <2>3, <2>7 DEF SweepAttempts, Errand
    <2>8. ASSUME DiscardRequest(q) \/ DiscardAttempt(q) \/ Empty(q) PROVE FALSE
      <3>1. Free(q) \/ \E pc \in {"decline", "empty", "undo"} : Does(q, pc)
        BY <1>4, <2>8 DEF DiscardRequest, DiscardAttempt, Empty
      <3>2. q = p
        BY <1>4, <2>3, <3>1, DoesEffect
      <3> QED
        BY <1>2, <2>8, <3>2 DEF DiscardRequest, DiscardAttempt, Empty, Errand
    <2>9. ~Reopen(q) /\ ~UndoRequest(q) /\ ~UndoAttempt(q)
      BY DEF Core, Direct, Reopen, UndoRequest, UndoAttempt
    <2> QED
      BY <1>4, <2>4, <2>5, <2>6, <2>7, <2>8, <2>9 DEF PersonStep
  <1>5. ASSUME NEW q \in Persons, NEW r \in Requests, Cancel(q, r) \/ Fulfil(q, r) \/ Discard(q, r)
        PROVE  person'[p] = person[p]
    <2>1. \E pc, op, a, f : Begins(q, pc, op, r, a, f)
      BY <1>5 DEF Cancel, Fulfil, Discard
    <2> QED
      BY <1>2, <2>1, BeginsEffect
  <1>6. \A q \in Persons, a \in Attempts : ~StopTransfer(q, a)
    BY DEF StopTransfer, Orderly, TypeInv, SpentOK
  <1>7. CASE UNCHANGED vars
    BY <1>3, <1>7 DEF vars
  <1>8. CASE Next /\ person'[p] # person[p]
    BY <1>4, <1>5, <1>6, <1>8, WorkMovers
  <1> QED
    BY <1>3, <1>7, <1>8

GivenOn == \A r \in Requests : Given(r) => Given(r)'

LEMMA EveryGivenOn ==
  ASSUME Orderly, Inv, TypeInv, Core, Errands, [Next]_vars, ~ServerCrash
  PROVE  GivenOn
  <1> SUFFICES ASSUME NEW r \in Requests, Given(r) PROVE Given(r)'
    BY DEF GivenOn
  <1>1. CASE req[r] \in Closed
    BY <1>1, EveryStands DEF Stands, Given
  <1>2. ASSUME NEW p \in Persons, person[p].op = "fulfil", person[p].r = r PROVE Given(r)'
    BY <1>2, FulfilOn DEF Given
  <1> QED
    BY <1>1, <1>2 DEF Given

(* Nobody moves a request that is worked on, but to close it, to start its    *)
(* import, to begin to discard it, or to give it back.                      *)
LEMMA TakenMoves ==
  ASSUME Orderly, TypeInv, Core, Whole, Next,
         NEW r \in Requests, req[r] \in {"grabbed", "downloading", "importing", "needs_review"}
  PROVE  \/ req'[r] = req[r] \/ req'[r] \in Closed
         \/ \E i \in Importers : /\ import[i].pc = "claim" /\ att[import[i].a].req = r
                                 /\ req'[r] = "importing"
         \/ Declining(r)' /\ req[r] = "needs_review"
         \/ \E p \in Passes : Holds(p) /\ ~Sending(p) /\ pass[p].r = r
  <1> DEFINE Goal == \/ req'[r] = req[r] \/ req'[r] \in Closed
                     \/ \E i \in Importers : /\ import[i].pc = "claim" /\ att[import[i].a].req = r
                                             /\ req'[r] = "importing"
                     \/ Declining(r)' /\ req[r] = "needs_review"
                     \/ \E p \in Passes : Holds(p) /\ ~Sending(p) /\ pass[p].r = r
  <1>0. ReqOK
    BY DEF TypeInv
  <1>1. ASSUME NEW q, NEW e, NEW n, MoveRequest(q, e, n), req[r] \notin e \/ n \in Closed
        PROVE  Goal
    BY <1>0, <1>1 DEF ReqOK, MoveRequest, UpdateIf
  <1>2. ASSUME UNCHANGED req PROVE Goal
    BY <1>2
  <1>3. ASSUME NEW q \in Requests, Submit(q) \/ Approve(q) \/ Reject(q) \/ ReleaseStranded(q)
                                   \/ AbandonSelfServe(q)
        PROVE  Goal
    <2>1. CASE Submit(q)
      BY <1>0, <2>1 DEF Submit, ReqOK
    <2>2. CASE ~Submit(q)
      BY <1>1, <1>3, <2>2 DEF Approve, Reject, ReleaseStranded, AbandonSelfServe, Abandonable
    <2> QED
      BY <2>1, <2>2
  <1>4. ASSUME NEW p \in Passes, \/ ClaimSearch(p) \/ SearchEnds(p) \/ ClaimForGrab(p)
                                 \/ AddAnswered(p) \/ Rollback(p) \/ GiveUp(p)
        PROVE  Goal
    <2>1. CASE ClaimSearch(p)
      <3>1. pass[p].prev \in Grabbable
        BY <2>1 DEF ClaimSearch, TypeInv, PassOK, Remembers
      <3> QED
        BY <1>1, <1>2, <2>1, <3>1 DEF ClaimSearch, Grabbable
    <2>2. CASE SearchEnds(p) \/ GiveUp(p)
      BY <1>1, <1>2, <2>2 DEF SearchEnds, GiveUp
    <2>3. CASE ClaimForGrab(p)
      BY <1>1, <1>2, <2>3 DEF ClaimForGrab, Grabbable
    <2>4. CASE AddAnswered(p)
      BY <1>0, <2>4 DEF AddAnswered, ReqOK, MoveRequest, UpdateIf
    <2>5. CASE Rollback(p)
      <3>1. Holds(p) /\ ~Sending(p)
        BY <2>5 DEF Rollback, Holds, Sending
      <3>2. CASE pass[p].r = r
        BY <3>1, <3>2
      <3>3. CASE pass[p].r # r
        BY <1>0, <2>5, <3>3 DEF Rollback, ReqOK, MoveRequest
      <3> QED
        BY <3>2, <3>3
    <2> QED
      BY <1>4, <2>1, <2>2, <2>3, <2>4, <2>5
  <1>5. ASSUME NEW i \in Importers, ClaimRequest(i) PROVE Goal
    <2>1. UNCHANGED req \/ MoveRequest(att[import[i].a].req, WorkerWritable, "importing")
      BY <1>5 DEF ClaimRequest
    <2>2. CASE att[import[i].a].req = r
      BY <1>0, <1>2, <1>5, <2>1, <2>2 DEF ReqOK, MoveRequest, UpdateIf, ClaimRequest
    <2>3. CASE att[import[i].a].req # r
      BY <1>0, <1>2, <2>1, <2>3 DEF ReqOK, MoveRequest
    <2> QED
      BY <2>2, <2>3
  <1>6. ASSUME NEW f \in Filers, Settle(f) PROVE Goal
    BY <1>1, <1>6 DEF Settle, Closed
  <1>7. ASSUME NEW p \in Persons, NEW q \in Requests, Cancel(p, q) PROVE Goal
    BY <1>1, <1>7 DEF Cancel, Closed
  <1>8. ASSUME NEW p \in Persons, Close(p) PROVE Goal
    BY <1>1, <1>2, <1>8 DEF Close, Closed
  <1>9. ASSUME NEW p \in Persons, DiscardRequest(p) PROVE Goal
    <2>1. CASE person[p].r = r /\ req[r] = "needs_review"
      <3>1. Does(p, "decline")
        BY <1>9, <2>1 DEF DiscardRequest
      <3>2. person'[p].pc = "decline" /\ person'[p].r = r
        BY <2>1, <3>1, DoesEffect
      <3> QED
        BY <2>1, <3>2 DEF Declining
    <2>2. CASE person[p].r # r \/ req[r] # "needs_review"
      BY <1>0, <1>9, <2>2 DEF DiscardRequest, ReqOK, MoveRequest, UpdateIf
    <2> QED
      BY <2>1, <2>2
  <1>10. \A a \in Attempts, from \in {"import", "verify"} :
           ~PollMoves(a) /\ ~FailRequest(a) /\ ~HoldRequest(a, from)
    BY DEF Whole, PollMoves, FailRequest, HoldRequest
  <1>11. \A p \in Persons : ~Reopen(p) /\ ~DiscardAttempt(p) /\ ~UndoRequest(p)
    BY DEF Whole, Core, Direct, Reopen, DiscardAttempt, UndoRequest
  <1> HIDE DEF Goal
  <1>12. Goal
    BY <1>3, <1>4, <1>5, <1>6, <1>7, <1>8, <1>9, <1>10, <1>11, ReqMovers, <1>2
  <1> QED
    BY <1>12 DEF Goal

Places == {Fetched, FileableFrom, {"needs_review"}, {"importing"}}

LEMMA WholeSeat ==
  ASSUME Orderly, TypeInv, Core, Whole, Next, Stands,
         NEW a \in Made, Engaged(a), att'[a].req = att[a].req,
         NEW S \in Places, Seat(a, S), Importing(a) => "importing" \in S
  PROVE  Seat(a, S)'
  <1>1. PICK r \in Requests : r = att[a].req /\ req[r] \in S \cup Closed
    <2>1. ~Declining(att[a].req)
      BY DEF Whole, Declining
    <2> QED
      BY <2>1 DEF TypeInv, AttOK, Made, Seat
  <1>2. CASE req[r] \in Closed
    BY <1>1, <1>2 DEF Stands, Seat
  <1>3. CASE req[r] \in S
    <2>1. req[r] \in {"grabbed", "downloading", "importing", "needs_review"}
      BY <1>3 DEF Places, Fetched, FileableFrom
    <2>2. ASSUME NEW i \in Importers, import[i].pc = "claim", att[import[i].a].req = r
          PROVE  "importing" \in S
      <3>1. Importing(import[i].a) /\ import[i].a \in Made
        BY <2>2 DEF Importing, TypeInv, ImportOK
      <3>2. import[i].a = a
        BY <1>1, <2>2, <3>1 DEF Core, OneEngaged, Engaged
      <3> QED
        BY <3>1, <3>2
    <2>3. ASSUME NEW p \in Passes, Holds(p), ~Sending(p), pass[p].r = r PROVE FALSE
      BY <1>1, <2>3 DEF Core, HoldsAlone
    <2>4. \/ req'[r] \in S \cup Closed
          \/ "needs_review" \in S /\ Declining(r)'
      BY <1>3, <2>1, <2>2, <2>3, TakenMoves
    <2> QED
      BY <1>1, <2>4 DEF Seat
  <1> QED
    BY <1>1, <1>2, <1>3

LEMMA FailRequestSeat ==
  ASSUME TypeInv, Core, Stands, NEW a \in Made, Engaged(a), Engaged(a)',
         att'[a].req = att[a].req, NEW S, Seat(a, S), NEW x \in Attempts, FailRequest(x)
  PROVE  Seat(a, S)'
  <1>1. x \in failing /\ x \in Made /\ Engaged(x) /\ att[x].status = "failed" /\ ~Importing(x)
        /\ failing' = failing \ {x} /\ UNCHANGED <<att, import, person>>
    BY DEF FailRequest, TypeInv, FailingOK, Engaged, Core, Pending
  <1>2. a # x
    <2>1. ~Engaged(x)'
      BY <1>1 DEF Engaged, Importing, Unsettled, InFlight, ActiveAttempt
    <2> QED
      BY <2>1
  <1>3. att[a].req # att[x].req
    BY <1>1, <1>2 DEF Core, OneEngaged
  <1>4. req'[att[a].req] = req[att[a].req]
    BY <1>3 DEF FailRequest, MoveRequest, TypeInv, ReqOK
  <1> QED
    BY <1>1, <1>4 DEF Seat, Declining

LEMMA PollMovesSeat ==
  ASSUME TypeInv, Core, Stands, NEW a \in Made,
         att'[a].req = att[a].req, NEW S \in Places, Seat(a, S), NEW x \in Attempts, PollMoves(x)
  PROVE  Seat(a, S)'
  <1>1. att[a].req \in Requests /\ ReqOK /\ UNCHANGED person
    BY DEF TypeInv, AttOK, Made, PollMoves
  <1>2. \/ req'[att[a].req] = req[att[a].req]
        \/ req[att[a].req] \in DownloadingFrom /\ req'[att[a].req] = "downloading"
    BY <1>1 DEF PollMoves, MoveRequest, UpdateIf, ReqOK
  <1>3. Declining(att[a].req) => Declining(att[a].req)'
    BY <1>1 DEF Declining
  <1>4. req[att[a].req] \in S \cap DownloadingFrom => "downloading" \in S
    BY DEF Places, Fetched, FileableFrom, DownloadingFrom
  <1>5. DownloadingFrom \cap Closed = {}
    BY DEF DownloadingFrom, Closed
  <1> QED
    BY <1>2, <1>3, <1>4, <1>5 DEF Seat

LEMMA HoldRequestSeat ==
  ASSUME TypeInv, Core, Stands, NEW a \in Made, Engaged(a),
         att'[a].req = att[a].req, NEW S, Seat(a, S),
         att[a].status = "needs_review" => "needs_review" \in S,
         NEW x \in Attempts, NEW from, HoldRequest(x, from)
  PROVE  Seat(a, S)'
  <1>1. x \in Made /\ Engaged(x) /\ att[x].status = "needs_review" /\ UNCHANGED person
    BY DEF HoldRequest, TypeInv, HoldingOK, Engaged, Core, Pending, Unsettled
  <1>2. ~Declining(att[a].req)
    BY DEF HoldRequest, Core, OneHalf, Declining
  <1>3. CASE a = x
    <2>1. att[a].req \in Requests /\ ReqOK
      BY DEF TypeInv, AttOK, Made
    <2>2. req'[att[a].req] \in {req[att[a].req], "needs_review"}
      BY <1>3, <2>1 DEF HoldRequest, MoveRequest, UpdateIf, ReqOK
    <2> QED
      BY <1>1, <1>2, <1>3, <2>2 DEF Seat
  <1>4. CASE a # x
    <2>1. att[a].req # att[x].req
      BY <1>1, <1>4 DEF Core, OneEngaged
    <2>2. att[a].req \in Requests /\ ReqOK
      BY DEF TypeInv, AttOK, Made
    <2>3. UNCHANGED req \/ MoveRequest(att[x].req, WorkerWritable, "needs_review")
      BY DEF HoldRequest
    <2>4. req'[att[a].req] = req[att[a].req]
      BY <2>1, <2>2, <2>3 DEF MoveRequest, ReqOK
    <2> QED
      BY <1>2, <2>4 DEF Seat
  <1> QED
    BY <1>3, <1>4

LEMMA DiscardAttemptSeat ==
  ASSUME TypeInv, Core, Discards, Stands, NEW a \in Made, Engaged(a), Engaged(a)',
         att'[a].req = att[a].req, NEW S \in Places, Seat(a, S),
         NEW p \in Persons, DiscardAttempt(p)
  PROVE  Seat(a, S)'
  <1>1. PICK x \in Made, r \in Requests :
          /\ x = person[p].a /\ r = person[p].r /\ att[x].req = r
    BY DEF DiscardAttempt, TypeInv, PersonOK, Discards
  <1>2. /\ req[r] = "failed" /\ failing = {} /\ holding = {}
        /\ \A q \in Requests : BookOf[q] = BookOf[r] => req[q] \notin ActiveRequest
        /\ person[p].pc = "decline" /\ ReqOK
    BY <1>1 DEF DiscardAttempt, Core, OneHalf, TypeInv
  <1>3. ~Clash(r, "needs_review")
    BY <1>2 DEF Clash
  <1>4. req' = req \/ req' = [req EXCEPT ![r] = "needs_review"]
    BY <1>1, <1>2, <1>3 DEF DiscardAttempt, ReviewAgain, MoveRequest, UpdateIf
  <1>5. Does(p, "empty") \/ Free(p)
    BY DEF DiscardAttempt
  <1>6. \A q \in Persons : q # p => person'[q] = person[q]
    BY <1>5, DoesEffect, FreeEffect
  <1>7. CASE att[a].req # r
    <2>0. att[a].req \in Requests
      BY DEF TypeInv, AttOK, Made
    <2>1. req'[att[a].req] = req[att[a].req]
      BY <1>2, <1>4, <1>7, <2>0 DEF ReqOK
    <2>2. Declining(att[a].req) => Declining(att[a].req)'
      BY <1>1, <1>6, <1>7 DEF Declining
    <2> QED
      BY <2>1, <2>2 DEF Seat
  <1>8. CASE att[a].req = r
    <2>1. "needs_review" \in S
      BY <1>2, <1>8 DEF Seat, Places, Fetched, FileableFrom, Closed
    <2>2. CASE att[x].status = "needs_review"
      <3>1. a = x /\ a \in Attempts
        BY <1>1, <1>8, <2>2 DEF Core, OneEngaged, Engaged, Unsettled, Made
      <3>2. att'[a].status = "failed"
        BY <1>1, <2>2, <3>1 DEF DiscardAttempt, MoveAttempt, UpdateIf, TypeInv, AttOK, AttemptRow
      <3>3. ~Importing(a)
        BY <2>2, <3>1 DEF Core, ImportsFit, Importing
      <3>4. UNCHANGED <<failing, import>>
        BY DEF DiscardAttempt, personFrame
      <3>5. ~Engaged(a)'
        BY <1>2, <3>2, <3>3, <3>4 DEF Engaged, Importing, Unsettled, InFlight, ActiveAttempt
      <3> QED
        BY <3>5
    <2>3. CASE att[x].status # "needs_review"
      <3>1. req' = [req EXCEPT ![r] = "needs_review"]
        BY <1>1, <1>2, <1>3, <2>3 DEF DiscardAttempt, ReviewAgain, MoveRequest, UpdateIf
      <3> QED
        BY <1>2, <1>8, <2>1, <3>1 DEF Seat, ReqOK
    <2> QED
      BY <2>2, <2>3
  <1> QED
    BY <1>7, <1>8

(* An attempt in hand keeps its seat. *)
LEMMA SeatOn ==
  ASSUME Orderly, TypeInv, Core, Discards, Stands, Next, Prompt, ~ServerCrash,
         NEW a \in Made, Engaged(a), Engaged(a)', att'[a].req = att[a].req,
         NEW S \in Places, Seat(a, S), Importing(a) => "importing" \in S,
         att[a].status = "needs_review" => "needs_review" \in S
  PROVE  Seat(a, S)'
  <1>1. CASE ~Halfway
    BY <1>1, NotHalfway, WholeSeat
  <1>2. CASE Halfway
    <2>1. \A p \in Persons : ~UndoRequest(p) /\ ~UndoAttempt(p)
      BY DEF Core, Direct, UndoRequest, UndoAttempt
    <2>2. ASSUME NEW x \in Attempts, FailRequest(x) \/ PollMoves(x) PROVE Seat(a, S)'
      BY <2>2, FailRequestSeat, PollMovesSeat
    <2>3. ASSUME NEW x \in Attempts, NEW from \in {"import", "verify"}, HoldRequest(x, from)
          PROVE  Seat(a, S)'
      BY <2>3, HoldRequestSeat
    <2>4. ASSUME NEW p \in Persons, DiscardAttempt(p) PROVE Seat(a, S)'
      BY <2>4, DiscardAttemptSeat
    <2> QED
      BY <1>2, <2>1, <2>2, <2>3, <2>4 DEF Prompt, Completes
  <1> QED
    BY <1>1, <1>2

(* Nobody relies any longer on an attempt that is over. *)
Released(a, r) ==
  /\ ~Importing(a)'
  /\ \A p \in Passes : pass'[p].pc = "add" /\ Holds(p)' => pass'[p].a # a
  /\ BackedBy(r)' \/ ~InWork(r)'

(* How a step may move an attempt. *)
Shift(a, r) ==
  \/ att'[a].status = att[a].status /\ (a \in failing => a \in failing')
  \/ a \in failing /\ att'[a].status = "failed" /\ Released(a, r)
  \/ att[a].status \in ActiveAttempt /\ att'[a].status \in ActiveAttempt \cup {"completed"}
  \/ att'[a].status = "importing" /\ \E i \in Importers : import[i].pc = "link" /\ import[i].a = a
  \/ att'[a].status = "importing" /\ ImportChosen(a)
  \/ att'[a].status = "needs_review" /\ \E x \in holding' : x[1] = a
  \/ /\ att'[a].status \in {"failed", "imported"}
     /\ a \in failing' \/ Given(r)' \/ Released(a, r)
Shifts == \A a \in Made, r \in Requests : att[a].req = r => Shift(a, r)

LEMMA SameShifts ==
  ASSUME \A a \in Attempts : att'[a].status = att[a].status, failing \subseteq failing'
  PROVE  Shifts
  BY DEF Shifts, Shift, Made

LEMMA FailShifts ==
  ASSUME failing = {}, NEW x,
         \A b \in Attempts : b # x => att'[b].status = att[b].status,
         att'[x].status = att[x].status \/ (att'[x].status = "failed" /\ x \in failing')
  PROVE  Shifts
  BY DEF Shifts, Shift, Made

LEMMA HoldShifts ==
  ASSUME TypeInv, failing = {}, holding = {}, NEW a \in Attempts, NEW units, NEW from,
         HoldForReview(a, units, from)
  PROVE  Shifts
  <1>1. AttOK
    BY DEF TypeInv
  <1>2. /\ \A b \in Attempts : b # a => att'[b] = att[b]
        /\ \/ UNCHANGED att
           \/ att'[a].status = "needs_review" /\ holding' = {<<a, from>>}
    BY <1>1, HoldEffect
  <1>3. <<a, from>>[1] = a
    OBVIOUS
  <1>4. CASE att'[a].status = "needs_review" /\ holding' = {<<a, from>>}
    <2>1. \E x \in holding' : x[1] = a
      BY <1>3, <1>4
    <2> QED
      BY <1>2, <1>4, <2>1 DEF Shifts, Shift, Made
  <1> QED
    BY <1>2, <1>4 DEF Shifts, Shift, Made

(* An attempt is settled whose request is as good as closed. *)
LEMMA GivenShifts ==
  ASSUME failing = {}, NEW x, NEW q,
         \A b \in Attempts : b # x => att'[b].status = att[b].status,
         \/ att'[x].status = att[x].status
         \/ att'[x].status \in {"failed", "imported"} /\ att[x].req = q /\ Given(q)'
  PROVE  Shifts
  BY DEF Shifts, Shift, Made

LEMMA PollShifts ==
  ASSUME TypeInv, Core, Whole, NEW a \in Attempts,
         PollFails(a) \/ PollReports(a) \/ WatchdogActs(a) \/ DockEmptied(a)
  PROVE  Shifts
  <1>0. AttOK /\ failing = {}
    BY DEF TypeInv, Whole
  <1>1. CASE PollFails(a) \/ WatchdogActs(a)
    <2>1. FailDownload(a) /\ a \in Made
      BY <1>1 DEF PollFails, WatchdogActs, TypeInv, PollOK, StaleOK
    <2>2. /\ \A b \in Attempts \ {a} : att'[b].status = att[b].status
          /\ \/ att'[a].status = att[a].status /\ failing' = {}
             \/ att[a].status \in Unsettled /\ att'[a].status = "failed" /\ failing' = {a}
      BY <1>0, <2>1, FailDownloadEffect
    <2> QED
      BY <1>0, <2>2, FailShifts
  <1>2. CASE PollReports(a)
    <2>1. PICK s \in ActiveAttempt \cup {"completed"} : MoveAttempt(a, ActiveAttempt, s)
      BY <1>2 DEF PollReports, Reported
    <2>2. /\ \A b \in Attempts \ {a} : att'[b] = att[b]
          /\ att[a].status \in ActiveAttempt => att'[a].status = s
          /\ att[a].status \notin ActiveAttempt => att'[a].status = att[a].status
      BY <1>0, <2>1, MoveEffect
    <2> QED
      BY <1>0, <2>2 DEF Shifts, Shift, Made
  <1>3. CASE DockEmptied(a)
    BY <1>0, <1>3, WithoutEffect, SameShifts DEF DockEmptied
  <1> QED
    BY <1>1, <1>2, <1>3

LEMMA ImportShifts ==
  ASSUME TypeInv, Core, Inv, Stands, Whole, ImportSeats,
         \/ \E a \in Attempts : ImportChosen(a)
         \/ \E i \in Importers : ImportStep(i)
  PROVE  Shifts
  <1>0. AttOK /\ failing = {} /\ holding = {}
    BY DEF TypeInv, Whole
  <1>1. ASSUME NEW a \in Attempts, ImportChosen(a) PROVE Shifts
    <2>1. /\ \A b \in Attempts \ {a} : att'[b] = att[b]
          /\ att'[a].status = "importing"
      BY <1>0, <1>1, MoveEffect DEF ImportChosen
    <2> QED
      BY <1>0, <1>1, <2>1 DEF Shifts, Shift, Made
  <1>2. ASSUME NEW i \in Importers, ImportStep(i) PROVE Shifts
    <2>1. import[i].pc # "idle"
      BY <1>2 DEF ImportStep, Extract, ClaimRequest, Link, Place
    <2>2. PICK a \in Made, r \in Requests : a = import[i].a /\ r = att[a].req
      BY <2>1 DEF TypeInv, ImportOK, AttOK, Made
    <2>3. a \in Attempts /\ req[r] # "absent" /\ req[r] \in RequestStatus \cup {"absent"}
      BY <2>2 DEF Made, Inv, Undertaken, Early, TypeInv, ReqOK
    <2>4. ASSUME NEW table \in [Attempts -> AttemptRow],
                 \A b \in Attempts : /\ table[b].req = att[b].req /\ table[b].status = att[b].status
                                     /\ table[b].units = att[b].units,
                 FailIn(table, a)
          PROVE  Shifts
      <3>1. /\ \A b \in Attempts \ {a} : att'[b].status = att[b].status
            /\ \/ att'[a].status = att[a].status /\ failing' = {}
               \/ att[a].status \in Unsettled /\ att'[a].status = "failed" /\ failing' = {a}
        BY <1>0, <2>4, FailEffect
      <3> QED
        BY <1>0, <3>1, FailShifts
    <2>5. CASE FailDownload(a)
      BY <1>0, <2>4, <2>5 DEF FailDownload, AttOK
    <2>6. ASSUME NEW units, HoldForReview(a, units, "import") PROVE Shifts
      BY <1>0, <2>3, <2>6, HoldShifts
    <2>7. CASE UNCHANGED <<att, failing>>
      BY <2>7, SameShifts
    <2>8. CASE Extract(i)
      BY <2>2, <2>5, <2>6, <2>7, <2>8 DEF Extract
    <2>9. CASE ClaimRequest(i)
      <3>1. CASE MoveAttempt(a, Unsettled, "failed") /\ req[r] \notin WorkerWritable /\ UNCHANGED req
        <4>1. Given(r)'
          BY <2>3, <3>1 DEF Given, WorkerWritable, RequestStatus, Closed
        <4> QED
          BY <1>0, <2>2, <2>3, <3>1, <4>1, MoveEffect, GivenShifts
      <3> QED
        BY <2>2, <2>5, <2>7, <2>9, <3>1 DEF ClaimRequest
    <2>10. CASE Link(i)
      <3>1. \A b \in Attempts : b # a => att'[b].status = att[b].status
        BY <1>0, <2>2, <2>10 DEF Link, AttOK, AttemptRow
      <3>2. att'[a].status = "importing"
        BY <1>0, <2>2, <2>3, <2>10 DEF Link, AttOK, AttemptRow
      <3> QED
        BY <1>0, <2>2, <2>10, <3>1, <3>2 DEF Shifts, Shift, Made, Link
    <2>11. CASE Place(i)
      <3>0. /\ AttemptsWithout(a) \in [Attempts -> AttemptRow]
            /\ \A b \in Attempts : /\ AttemptsWithout(a)[b].req = att[b].req
                                   /\ AttemptsWithout(a)[b].status = att[b].status
                                   /\ AttemptsWithout(a)[b].units = att[b].units
        BY <1>0, <2>3, WithoutEffect
      <3>1. CASE FailIn(AttemptsWithout(a), a)
        BY <2>4, <3>0, <3>1
      <3>2. CASE /\ req[r] # "importing" /\ UNCHANGED req
                 /\ att' = [AttemptsWithout(a) EXCEPT ![a].status = UpdateIf(@, Unsettled, "failed")]
        <4>1. Given(r)'
          <5>1. Seat(a, {"importing"})
            BY <2>2, <2>11 DEF ImportSeats, Place
          <5> QED
            BY <2>2, <3>2, <5>1 DEF Seat, Given
        <4>2. \A b \in Attempts : b # a => att'[b].status = att[b].status
          BY <3>0, <3>2 DEF AttemptRow
        <4>3. att'[a].status \in {att[a].status, "failed"}
          BY <2>3, <3>0, <3>2 DEF AttemptRow, UpdateIf
        <4> QED
          BY <1>0, <2>2, <4>1, <4>2, <4>3, GivenShifts
      <3> QED
        BY <2>2, <2>7, <2>11, <3>1, <3>2 DEF Place
    <2> QED
      BY <1>2, <2>8, <2>9, <2>10, <2>11 DEF ImportStep
  <1> QED
    BY <1>1, <1>2

LEMMA FilingShifts ==
  ASSUME TypeInv, Core, Stands, Whole, MarkClosed,
         \/ \E a \in Attempts : Verify(a)
         \/ \E f \in Filers : FileIntoLibrary(f) \/ MarkImported(f)
  PROVE  Shifts
  <1>0. AttOK /\ failing = {} /\ holding = {}
    BY DEF TypeInv, Whole
  <1>1. ASSUME NEW a \in Attempts, Verify(a) PROVE Shifts
    <2>1. a \in Made
      BY <1>1 DEF Verify, Core, Entries, TypeInv, FilingOK, Filers
    <2>2. CASE FailDownload(a)
      BY <1>0, <2>1, <2>2, FailDownloadEffect, FailShifts
    <2>3. CASE HoldForReview(a, FALSE, "verify")
      BY <1>0, <2>3, HoldShifts
    <2> QED
      BY <1>1, <2>2, <2>3, SameShifts DEF Verify
  <1>2. ASSUME NEW f \in Filers, FileIntoLibrary(f) PROVE Shifts
    <2>1. filing[f].a \in Attempts /\ filing[f].file \in Attempts /\ UNCHANGED failing
      BY <1>2 DEF FileIntoLibrary, TypeInv, FilingOK, Made, filingFrame
    <2>2. CASE HoldForReview(filing[f].a, FALSE, "verify")
      BY <1>0, <2>1, <2>2, HoldShifts
    <2>3. CASE att' = AttemptsWithout(filing[f].file)
      BY <1>0, <2>1, <2>3, WithoutEffect, SameShifts
    <2> QED
      BY <1>2, <2>1, <2>2, <2>3, SameShifts DEF FileIntoLibrary
  <1>3. ASSUME NEW f \in Filers, MarkImported(f) PROVE Shifts
    <2>1. PICK a \in Made, r \in Requests : a = filing[f].a /\ att[a].req = r
      BY <1>3 DEF MarkImported, TypeInv, FilingOK, AttOK, Made
    <2>2. a \in Attempts /\ MoveAttempt(a, Unsettled, "imported")
      BY <1>3, <2>1 DEF MarkImported, Made
    <2>3. /\ \A b \in Attempts : b # a => att'[b] = att[b]
          /\ att[a].status \in Unsettled => att'[a].status = "imported"
          /\ att[a].status \notin Unsettled => att'[a].status = att[a].status
      BY <1>0, <2>2, MoveEffect
    <2>4. att[a].status \in Unsettled => Given(r)'
      BY <1>3, <2>1 DEF MarkImported, MarkClosed, Engaged, Stands, Given
    <2> QED
      BY <1>0, <2>1, <2>3, <2>4, GivenShifts
  <1> QED
    BY <1>1, <1>2, <1>3

LEMMA PersonShifts ==
  ASSUME Orderly, TypeInv, Core, Whole, Errands, GivenOn, NEW p \in Persons,
         FailAttempt(p) \/ SweepAttempts(p) \/ Empty(p)
  PROVE  Shifts
  <1>0. AttOK /\ failing = {} /\ Errand(p)
    BY DEF TypeInv, Whole, Errands, Errand
  <1>1. CASE FailAttempt(p)
    <2>1. PICK a \in Made, r \in Requests : a = person[p].a /\ r = person[p].r /\ att[a].req = r
      BY <1>0, <1>1 DEF FailAttempt, TypeInv, PersonOK, Errand
    <2>2. Given(r)
      BY <1>0, <1>1, <2>1 DEF FailAttempt, Errand, Given
    <2>3. a \in Attempts /\ MoveAttempt(a, InFlight, "failed")
      BY <1>1, <2>1 DEF FailAttempt, Made
    <2>4. /\ \A b \in Attempts : b # a => att'[b] = att[b]
          /\ att'[a].status \in {att[a].status, "failed"}
      BY <1>0, <2>3, MoveEffect
    <2> QED
      BY <1>0, <2>1, <2>2, <2>4, GivenShifts DEF GivenOn
  <1>2. CASE SweepAttempts(p)
    <2>1. Given(person[p].r)
      BY <1>0, <1>2 DEF SweepAttempts, Errand, Given
    <2>2. \A a \in Attempts : \/ att'[a].status = att[a].status
                              \/ att'[a].status = "failed" /\ att[a].req = person[p].r
      BY <1>0, <1>2 DEF SweepAttempts, AttOK, AttemptRow, UpdateIf
    <2> QED
      BY <1>0, <2>1, <2>2 DEF Shifts, Shift, Made, GivenOn
  <1>3. CASE Empty(p)
    <2>1. CASE UNCHANGED att
      BY <1>0, <2>1, SameShifts
    <2>2. CASE att' = AttemptsWithout(person[p].file) /\ person[p].file # None
      <3>1. person[p].file \in Attempts
        BY <1>3, <2>2 DEF TypeInv, PersonOK, PersonRow
      <3> QED
        BY <1>0, <2>2, <3>1, WithoutEffect, SameShifts
    <2> QED
      BY <1>3, <2>1, <2>2 DEF Empty
  <1> QED
    BY <1>1, <1>2, <1>3

LEMMA PassShifts ==
  ASSUME TypeInv, Core, Whole, NEW p \in Passes, Refuse(p) \/ Resolve(p)
  PROVE  Shifts
  <1>0. AttOK /\ failing = {} /\ UNCHANGED <<import, failing>>
    BY DEF TypeInv, Whole, Refuse, Resolve, passFrame, work
  <1>1. CASE Resolve(p)
    <2>1. UNCHANGED att \/ \E a \in Attempts : NextFree(a) /\ \A b \in Attempts : b # a => att'[b] = att[b]
      BY <1>0, <1>1 DEF Resolve, NewAttempt, AttOK
    <2>2. \A a \in Made : att'[a] = att[a]
      BY <2>1 DEF NextFree, Made
    <2> QED
      BY <1>0, <2>2 DEF Shifts, Shift
  <1>2. CASE Refuse(p)
    <2>1. PICK a \in Made, r \in Requests :
            a = pass[p].a /\ r = pass[p].r /\ att[a].req = r /\ Sending(p) /\ Holds(p)
      BY <1>2 DEF Refuse, TypeInv, PassOK, Sending, Holds, Core, Added
    <2>2. ~Importing(a)
      BY <2>1 DEF Core, Added
    <2>3. pass'[p].pc = "rollback" /\ pass'[p].r = r /\ \A q \in Passes : q # p => pass'[q] = pass[q]
      BY <1>2, <2>1 DEF Refuse, Goto, TypeInv, PassOK, PassRow
    <2>4. \A q \in Passes : pass'[q].pc = "add" => pass'[q].a # a
      BY <2>1, <2>3 DEF Core, Added, Sending
    <2>5. BackedBy(r)'
      BY <2>3 DEF BackedBy, Holds
    <2>6. Released(a, r)
      BY <1>0, <2>2, <2>4, <2>5 DEF Released, Importing
    <2>7. \A b \in Attempts : b # a => att'[b] = att[b]
      BY <1>0, <1>2, <2>1 DEF Refuse, AttOK
    <2>8. att'[a].status = "failed"
      BY <1>0, <1>2, <2>1 DEF Refuse, AttOK, AttemptRow, Made
    <2> QED
      BY <1>0, <2>1, <2>6, <2>7, <2>8 DEF Shifts, Shift, Made
  <1> QED
    BY <1>1, <1>2

LEMMA FailRequestShifts ==
  ASSUME TypeInv, Core, NEW x \in Attempts, FailRequest(x)
  PROVE  Shifts
  <1>1. PICK r \in Requests : r = att[x].req
    BY DEF FailRequest, TypeInv, FailingOK, AttOK, Made
  <1>2. x \in failing /\ ~Importing(x) /\ failing' = failing \ {x} /\ UNCHANGED <<att, import, pass>>
    BY DEF FailRequest, Core, Pending
  <1>3. ~InWork(r)'
    <2>1. req'[r] = "failed" \/ req'[r] \notin WorkerWritable
      BY <1>1 DEF FailRequest, MoveRequest, UpdateIf, TypeInv, ReqOK
    <2> QED
      BY <2>1 DEF InWork, WorkerWritable, ActiveRequest
  <1>4. \A p \in Passes : pass[p].pc = "add" /\ Holds(p) => pass[p].a # x
    BY <1>2 DEF Core, Added, Sending
  <1>5. Released(x, r)
    BY <1>2, <1>3, <1>4 DEF Released, Importing, Holds
  <1> QED
    BY <1>1, <1>2, <1>5 DEF Shifts, Shift, Made, Core, Pending

LEMMA HoldRequestShifts ==
  ASSUME TypeInv, Core, NEW x \in Attempts, NEW from, HoldRequest(x, from)
  PROVE  Shifts
  <1>1. x \in Made /\ failing = {} /\ AttOK
    BY DEF HoldRequest, TypeInv, HoldingOK, Core, OneHalf
  <1>2. CASE FailDownload(x)
    BY <1>1, <1>2, FailDownloadEffect, FailShifts
  <1> QED
    BY <1>2, SameShifts DEF HoldRequest

LEMMA DiscardAttemptShifts ==
  ASSUME TypeInv, Core, Discards, NEW p \in Persons, DiscardAttempt(p)
  PROVE  Shifts
  <1>1. PICK x \in Made, r \in Requests :
          /\ x = person[p].a /\ r = person[p].r /\ att[x].req = r
    BY DEF DiscardAttempt, TypeInv, PersonOK, Discards
  <1>2. /\ req[r] = "failed" /\ failing = {} /\ x \in Attempts /\ AttOK /\ ReqOK
        /\ UNCHANGED <<failing, import, pass>>
    BY <1>1 DEF DiscardAttempt, Core, OneHalf, TypeInv, Made, personFrame
  <1>3. /\ \A b \in Attempts : b # x => att'[b] = att[b]
        /\ att[x].status = "needs_review" => att'[x].status = "failed"
        /\ att[x].status # "needs_review" => att'[x].status = att[x].status
    BY <1>1, <1>2, MoveEffect DEF DiscardAttempt
  <1>4. ~InWork(r)'
    <2>1. req' = req \/ MoveRequest(r, {"failed"}, "needs_review")
      BY <1>1 DEF DiscardAttempt, ReviewAgain
    <2> QED
      BY <1>2, <2>1 DEF InWork, MoveRequest, UpdateIf, ReqOK
  <1>5. CASE att[x].status = "needs_review"
    <2>1. ~Importing(x)
      BY <1>5 DEF Core, ImportsFit, Importing
    <2>2. \A q \in Passes : pass[q].pc = "add" /\ Holds(q) => pass[q].a # x
      BY <1>5 DEF Core, Added, Sending
    <2>3. Released(x, r)
      BY <1>2, <1>4, <2>1, <2>2 DEF Released, Importing, Holds
    <2> QED
      BY <1>1, <1>2, <1>3, <1>5, <2>3 DEF Shifts, Shift, Made
  <1>6. CASE att[x].status # "needs_review"
    BY <1>2, <1>3, <1>6, SameShifts
  <1> QED
    BY <1>5, <1>6

LEMMA EveryShifts ==
  ASSUME Orderly, Inv, TypeInv, Core, Discards, Stands, GivenOn, Errands, ImportSeats, MarkClosed,
         Next, Prompt, ~ServerCrash
  PROVE  Shifts
  <1>1. \A p \in Persons : ~UndoRequest(p) /\ ~UndoAttempt(p)
    BY DEF Core, Direct, UndoRequest, UndoAttempt
  <1>2. CASE Halfway
    <2>1. \A x \in Attempts : FailRequest(x) => Shifts
      BY FailRequestShifts
    <2>2. \A x \in Attempts : PollMoves(x) => Shifts
      BY SameShifts DEF PollMoves
    <2>3. \A x \in Attempts, from \in {"import", "verify"} : HoldRequest(x, from) => Shifts
      BY HoldRequestShifts
    <2>4. \A p \in Persons : DiscardAttempt(p) => Shifts
      BY DiscardAttemptShifts
    <2> QED
      BY <1>1, <1>2, <2>1, <2>2, <2>3, <2>4 DEF Prompt, Completes
  <1>3. CASE ~Halfway
    <2>1. Whole
      BY <1>3, NotHalfway
    <2>2. \A x \in Attempts, from \in {"import", "verify"} : ~HoldRequest(x, from)
      BY <2>1 DEF Whole, HoldRequest
    <2>3. \A p \in Persons : ~DiscardAttempt(p)
      BY <2>1 DEF Whole, DiscardAttempt
    <2>4. failing = {}
      BY <2>1 DEF Whole
    <2>5. CASE UNCHANGED att
      BY <2>4, <2>5, SameShifts
    <2> QED
      BY <1>1, <2>1, <2>2, <2>3, <2>5, AttMovers, PollShifts, ImportShifts, FilingShifts,
         PersonShifts, PassShifts
  <1> QED
    BY <1>2, <1>3

LEMMA LiveOn ==
  ASSUME Shifts, NEW a \in Made, NEW r \in Requests, att[a].req = r, Live(a)
  PROVE  Live(a)' \/ Given(r)' \/ Released(a, r)
  <1>1. Shift(a, r)
    BY DEF Shifts
  <1> QED
    BY <1>1 DEF Shift, Live, Unsettled, InFlight, ActiveAttempt

(* No attempt that was made becomes engaged. *)
CalmMade == \A a \in Made : Engaged(a)' => Engaged(a)

LEMMA EveryCalm ==
  ASSUME Orderly, TypeInv, Core, Discards, Next, Prompt
  PROVE  CalmMade
  <1>1. CASE Halfway
    BY <1>1, HalfwayCalm DEF Prompt, Calmer, CalmMade
  <1>2. ASSUME NEW p \in Passes, Resolve(p) PROVE CalmMade
    <2>1. UNCHANGED att \/ \E a \in Attempts : NextFree(a) /\ \A b \in Attempts : b # a => att'[b] = att[b]
      BY <1>2 DEF Resolve, NewAttempt, TypeInv, AttOK
    <2>2. \A a \in Made : att'[a] = att[a]
      BY <2>1 DEF NextFree, Made
    <2> QED
      BY <1>2, <2>2 DEF CalmMade, Engaged, Importing, Resolve, passFrame, work
  <1>3. CASE ~Halfway /\ \A p \in Passes : ~Resolve(p)
    BY <1>3, NotHalfway, WholeCalm DEF Calmer, CalmMade
  <1> QED
    BY <1>1, <1>2, <1>3

(* How an import begins and goes on. *)
ImportGoes(i, a) ==
  \/ import'[i] = import[i]
  \/ i = "queue" /\ import'[i].pc = "extract" /\ att[a].status = "completed"
  \/ i = "chosen" /\ import'[i].pc = "extract" /\ ImportChosen(a)
  \/ /\ import[i].a = a
     /\ \/ import[i].pc = "extract" /\ import'[i].pc = "claim"
        \/ /\ import[i].pc = "claim" /\ import'[i].pc = "link"
           /\ req'[att[a].req] = "importing"
        \/ import[i].pc = "link" /\ import'[i].pc = "place"

LEMMA EveryImportGoes ==
  ASSUME TypeInv, Next, ~ServerCrash, NEW i \in Importers, import'[i].pc # "idle"
  PROVE  \E a \in Made : a = import'[i].a /\ ImportGoes(i, a)
  <1>1. CASE import'[i] = import[i]
    BY <1>1 DEF TypeInv, ImportOK, ImportGoes
  <1>2. ASSUME StartImport, import'[i] # import[i] PROVE \E a \in Made : a = import'[i].a /\ ImportGoes(i, a)
    <2>1. PICK a \in Made : a = Head(queue)
      BY <1>2 DEF StartImport, TypeInv, QueueOK
    <2>2. Reread(a) /\ Imports("queue", "extract", a)
      BY <1>2, <2>1 DEF StartImport
    <2>3. i = "queue" /\ import'[i].pc = "extract" /\ import'[i].a = a
      BY <1>2, <2>2, ImportsEffect DEF Importers
    <2> QED
      BY <2>1, <2>2, <2>3 DEF Reread, ImportGoes
  <1>3. ASSUME NEW a \in Attempts, ImportChosen(a), import'[i] # import[i]
        PROVE  \E b \in Made : b = import'[i].a /\ ImportGoes(i, b)
    <2>1. a \in Made /\ Imports("chosen", "extract", a)
      BY <1>3 DEF ImportChosen, Made
    <2>2. i = "chosen" /\ import'[i].pc = "extract" /\ import'[i].a = a
      BY <1>3, <2>1, ImportsEffect DEF Importers
    <2> QED
      BY <1>3, <2>1, <2>2 DEF ImportGoes
  <1>4. ASSUME NEW j \in Importers, ImportStep(j), import'[i] # import[i]
        PROVE  \E a \in Made : a = import'[i].a /\ ImportGoes(i, a)
    <2>1. import[j].pc # "idle"
      BY <1>4 DEF ImportStep, Extract, ClaimRequest, Link, Place
    <2>2. PICK a \in Made, r \in Requests : a = import[j].a /\ r = att[a].req
      BY <2>1 DEF TypeInv, ImportOK, AttOK, Made
    <2>3. ~Imported(j)
      BY <1>4, ImportedEffect
    <2>4. CASE Extract(j)
      <3>1. Imports(j, "claim", a) /\ import[j].pc = "extract"
        BY <2>2, <2>3, <2>4 DEF Extract
      <3>2. i = j
        BY <1>4, <3>1, ImportsEffect
      <3>3. import'[i].pc = "claim" /\ import'[i].a = a
        BY <3>1, <3>2, ImportsEffect
      <3> QED
        BY <2>2, <3>1, <3>2, <3>3 DEF ImportGoes
    <2>5. CASE ClaimRequest(j)
      <3>1. Imports(j, "link", a) /\ import[j].pc = "claim" /\ req[r] \in WorkerWritable
            /\ MoveRequest(r, WorkerWritable, "importing")
        BY <2>2, <2>3, <2>5 DEF ClaimRequest
      <3>2. i = j
        BY <1>4, <3>1, ImportsEffect
      <3>3. import'[i].pc = "link" /\ import'[i].a = a
        BY <3>1, <3>2, ImportsEffect
      <3>4. req'[r] = "importing"
        BY <3>1 DEF MoveRequest, UpdateIf, TypeInv, ReqOK
      <3> QED
        BY <2>2, <3>1, <3>2, <3>3, <3>4 DEF ImportGoes
    <2>6. CASE Link(j)
      <3>1. Imports(j, "place", a) /\ import[j].pc = "link"
        BY <2>2, <2>6 DEF Link
      <3>2. i = j
        BY <1>4, <3>1, ImportsEffect
      <3>3. import'[i].pc = "place" /\ import'[i].a = a
        BY <3>1, <3>2, ImportsEffect
      <3> QED
        BY <2>2, <3>1, <3>2, <3>3 DEF ImportGoes
    <2>7. ~Place(j)
      BY <2>3 DEF Place
    <2> QED
      BY <1>4, <2>4, <2>5, <2>6, <2>7 DEF ImportStep
  <1> QED
    BY <1>1, <1>2, <1>3, <1>4, WorkMovers

LEMMA ImportLiveOn ==
  ASSUME TypeInv, Inv, Shifts, Grows, GivenOn, ImportLive, Next, ~ServerCrash
  PROVE  ImportLive'
  <1> SUFFICES ASSUME NEW i \in Importers, import'[i].pc # "idle",
                      NEW a, a = import'[i].a
               PROVE  Live(a)' \/ Given(att[a].req)'
    BY DEF ImportLive
  <1>1. a \in Made /\ ImportGoes(i, a)
    BY EveryImportGoes
  <1>2. PICK r \in Requests : att[a].req = r /\ att'[a].req = r
    BY <1>1 DEF Grows, TypeInv, AttOK, Made
  <1>3. Live(a) \/ Given(r)
    BY <1>1, <1>2 DEF ImportGoes, ImportLive, ImportChosen, Live, Unsettled, InFlight
  <1>4. ~Released(a, r)
    BY DEF Released, Importing
  <1>5. Live(a)' \/ Given(r)'
    BY <1>1, <1>2, <1>3, <1>4, LiveOn DEF GivenOn
  <1> QED
    BY <1>2, <1>5 DEF Given

(* A grab that is about to send an attempt was, or has just made it. *)
LEMMA AddGoes ==
  ASSUME TypeInv, Core, Next, ~ServerCrash,
         NEW p \in Passes, pass'[p].pc = "add", Holds(p)'
  PROVE  \/ pass'[p] = pass[p]
         \/ \E a \in Attempts : /\ pass'[p].a = a /\ att'[a].status = "queued"
  <1>1. ASSUME NEW q \in Passes, PassStep(q) \/ GrabByHand(q), q # p
        PROVE  pass'[p] = pass[p]
    BY <1>1 DEF PassStep, RunTodo, StartPass, ClaimSearch, SearchEnds, ReadForGrab, ClaimForGrab,
         Resolve, ClientTakes, AddAnswered, AddFails, Refuse, Rollback, GiveUp, GrabByHand,
         NotStarted, Become, Goto, Leave, TypeInv, PassOK
  <1>2. ASSUME PassStep(p) \/ GrabByHand(p), pass'[p] # pass[p]
        PROVE  \E a \in Attempts : pass'[p].a = a /\ att'[a].status = "queued"
    <2>0. pass \in [Passes -> PassRow] /\ pass[p] \in PassRow
      BY DEF TypeInv, PassOK
    <2>1. ASSUME NEW record, Become(p, record) PROVE pass'[p] = record
      BY <2>0, <2>1 DEF Become
    <2>2. ASSUME NEW pc, Goto(p, pc) PROVE pass'[p].pc = pc
      BY <2>0, <2>2 DEF Goto, PassRow
    <2>3. ~Leave(p) /\ \A another : ~NotStarted(p, another)
      BY <2>1, <2>2 DEF Leave, NotStarted, IdlePass
    <2>4. ~RunTodo(p) /\ ~GrabByHand(p)
      BY <1>2, <2>1 DEF RunTodo, StartPass, GrabByHand, IdlePass
    <2>5. ~ClaimSearch(p) /\ ~SearchEnds(p) /\ ~GiveUp(p) /\ ~AddAnswered(p)
      BY <2>2, <2>3 DEF ClaimSearch, SearchEnds, GiveUp, AddAnswered
    <2>6. ~ReadForGrab(p) /\ ~ClaimForGrab(p) /\ ~Rollback(p) /\ ~Refuse(p)
      BY <2>0, <2>1, <2>2, <2>3 DEF ReadForGrab, ClaimForGrab, Rollback, Refuse, PassRow
    <2>7. ~ClientTakes(p) /\ ~AddFails(p)
      <3>1. ~pass'[p].took
        BY DEF Holds
      <3>2. ~ClientTakes(p)
        BY <2>0, <3>1 DEF ClientTakes, PassRow
      <3>3. ~AddFails(p)
        <4>1. ASSUME NEW halt \in BOOLEAN,
                     pass' = [pass EXCEPT ![p].pc = "refuse", ![p].halt = halt, ![p].took = FALSE]
              PROVE  pass'[p].pc = "refuse"
          BY <2>0, <4>1 DEF PassRow
        <4> QED
          BY <4>1 DEF AddFails
      <3> QED
        BY <3>2, <3>3
    <2>8. CASE Resolve(p)
      <3>1. PICK a \in Attempts : /\ NewAttempt(p, a, "queued")
                                  /\ Become(p, [pass[p] EXCEPT !.pc = "add", !.a = a])
        BY <2>0, <2>1, <2>8 DEF Resolve, PassRow
      <3>2. pass'[p].a = a
        BY <2>0, <2>1, <3>1 DEF PassRow
      <3>3. att'[a].status = "queued"
        BY <3>1 DEF NewAttempt, NoAttempt, TypeInv, AttOK
      <3> QED
        BY <3>2, <3>3
    <2> QED
      BY <1>2, <2>4, <2>5, <2>6, <2>7, <2>8 DEF PassStep
  <1> QED
    BY <1>1, <1>2, WorkMovers

LEMMA AddLiveOn ==
  ASSUME TypeInv, Core, Shifts, Grows, GivenOn, AddLive, Next, ~ServerCrash
  PROVE  AddLive'
  <1> SUFFICES ASSUME NEW p \in Passes, pass'[p].pc = "add", Holds(p)',
                      NEW a, a = pass'[p].a, NEW r, r = pass'[p].r
               PROVE  Live(a)' \/ Given(r)'
    BY DEF AddLive
  <1>1. CASE pass'[p] = pass[p]
    <2>1. a \in Made /\ r \in Requests /\ att[a].req = r /\ pass[p].pc = "add" /\ Holds(p)
      BY <1>1 DEF TypeInv, PassOK, Core, Added, Sending, Holds
    <2>2. Live(a) \/ Given(r)
      BY <1>1, <2>1 DEF AddLive
    <2>3. ~Released(a, r)
      BY DEF Released
    <2> QED
      BY <2>1, <2>2, <2>3, LiveOn DEF GivenOn
  <1>2. CASE att'[a].status = "queued"
    BY <1>2 DEF Live, Unsettled, InFlight, ActiveAttempt
  <1> QED
    BY <1>1, <1>2, AddGoes

(* Only what is being sent is taken. *)
LEMMA TakingOn ==
  ASSUME TypeInv, Taking, Next, ~ServerCrash
  PROVE  Taking'
  <1>0. pass \in [Passes -> PassRow]
    BY DEF TypeInv, PassOK
  <1>1. ASSUME NEW p \in Passes, NEW record, record.took => record.pc = "add", Become(p, record)
        PROVE  Taking'
    BY <1>0, <1>1 DEF Become, Taking
  <1>2. ASSUME NEW p \in Passes, NEW pc, pass[p].pc # "add", Goto(p, pc)
        PROVE  Taking'
    BY <1>0, <1>2 DEF Goto, Taking, PassRow
  <1>3. \A p \in Passes : Leave(p) => Taking'
    BY <1>1 DEF Leave, IdlePass
  <1>4. ASSUME NEW p \in Passes, NEW another, pass[p].pc # "add", NotStarted(p, another)
        PROVE  Taking'
    BY <1>2, <1>3, <1>4 DEF NotStarted
  <1>5. ASSUME UNCHANGED pass PROVE Taking'
    BY <1>5 DEF Taking
  <1>6. ASSUME NEW p \in Passes, PassStep(p) \/ GrabByHand(p) PROVE Taking'
    <2>1. CASE RunTodo(p) \/ GrabByHand(p)
      BY <1>1, <1>5, <2>1 DEF RunTodo, StartPass, GrabByHand, IdlePass
    <2>2. CASE ClaimSearch(p) \/ SearchEnds(p) \/ GiveUp(p)
      BY <1>2, <1>3, <2>2 DEF ClaimSearch, SearchEnds, GiveUp
    <2>3. CASE ClaimForGrab(p) \/ Rollback(p) \/ Refuse(p)
      BY <1>2, <1>4, <2>3 DEF ClaimForGrab, Rollback, Refuse
    <2>4. CASE ReadForGrab(p)
      <3>1. CASE Become(p, [pass[p] EXCEPT !.pc = "claim", !.prev = req[pass[p].r],
                                           !.spent = @ + 1])
        <4>1. ~pass[p].took
          BY <2>4 DEF ReadForGrab, Taking
        <4>2. pass'[p].took = pass[p].took /\ \A q \in Passes : q # p => pass'[q] = pass[q]
          BY <1>0, <3>1 DEF Become, PassRow
        <4> QED
          BY <4>1, <4>2 DEF Taking
      <3> QED
        BY <1>4, <2>4, <3>1 DEF ReadForGrab
    <2>5. CASE Resolve(p)
      <3>1. \/ \E a \in Attempts : Become(p, [pass[p] EXCEPT !.pc = "add", !.a = a])
            \/ \E halt \in BOOLEAN : Become(p, [pass[p] EXCEPT !.pc = "rollback", !.halt = halt])
        BY <2>5 DEF Resolve
      <3>2. ~pass[p].took /\ pass[p] \in PassRow
        BY <1>0, <2>5 DEF Resolve, Taking
      <3>3. ASSUME NEW a, Become(p, [pass[p] EXCEPT !.pc = "add", !.a = a]) PROVE Taking'
        BY <1>1, <3>2, <3>3 DEF PassRow
      <3>4. ASSUME NEW halt, Become(p, [pass[p] EXCEPT !.pc = "rollback", !.halt = halt])
            PROVE  Taking'
        BY <1>1, <3>2, <3>4 DEF PassRow
      <3> QED
        BY <3>1, <3>3, <3>4
    <2>6. CASE ClientTakes(p)
      BY <1>0, <2>6 DEF ClientTakes, Taking, PassRow
    <2>7. CASE AddAnswered(p)
      BY <1>3, <2>7 DEF AddAnswered
    <2>8. CASE AddFails(p)
      BY <1>0, <2>8 DEF AddFails, Taking, PassRow
    <2> QED
      BY <1>6, <2>1, <2>2, <2>3, <2>4, <2>5, <2>6, <2>7, <2>8 DEF PassStep
  <1> QED
    BY <1>5, <1>6, WorkMovers

(* A grab lets go of its request when the client has the attempt, or when it  *)
(* gives the request back.                                                  *)
LEMMA HoldsGoes ==
  ASSUME TypeInv, Core, Taking, Next, ~ServerCrash, NEW p \in Passes, Holds(p)
  PROVE  \/ Holds(p)' /\ pass'[p].r = pass[p].r
         \/ ClientTakes(p) \/ Rollback(p)
  <1>0. pass \in [Passes -> PassRow] /\ pass[p] \in PassRow /\ pass[p].pc \notin {"idle", "grab"}
    BY DEF TypeInv, PassOK, Holds
  <1>1. ASSUME NEW q \in Passes, PassStep(q) \/ GrabByHand(q), q # p
        PROVE  pass'[p] = pass[p]
    BY <1>0, <1>1 DEF PassStep, RunTodo, StartPass, ClaimSearch, SearchEnds, ReadForGrab, ClaimForGrab,
         Resolve, ClientTakes, AddAnswered, AddFails, Refuse, Rollback, GiveUp, GrabByHand,
         NotStarted, Become, Goto, Leave
  <1>2. CASE pass'[p] = pass[p]
    BY <1>2 DEF Holds
  <1>3. CASE Resolve(p)
    <2>1. \/ \E a \in Attempts : Become(p, [pass[p] EXCEPT !.pc = "add", !.a = a])
          \/ \E halt \in BOOLEAN : Become(p, [pass[p] EXCEPT !.pc = "rollback", !.halt = halt])
      BY <1>3 DEF Resolve
    <2>2. ASSUME NEW a, Become(p, [pass[p] EXCEPT !.pc = "add", !.a = a])
          PROVE  pass'[p].pc = "add" /\ pass'[p].r = pass[p].r /\ pass'[p].took = pass[p].took
      BY <1>0, <2>2 DEF Become, PassRow
    <2>3. ASSUME NEW halt, Become(p, [pass[p] EXCEPT !.pc = "rollback", !.halt = halt])
          PROVE  pass'[p].pc = "rollback" /\ pass'[p].r = pass[p].r
      BY <1>0, <2>3 DEF Become, PassRow
    <2>4. ~pass[p].took
      BY <1>3 DEF Resolve, Taking
    <2> QED
      BY <2>1, <2>2, <2>3, <2>4 DEF Holds
  <1>4. CASE AddFails(p)
    BY <1>0, <1>4 DEF AddFails, Holds, PassRow
  <1>5. CASE Refuse(p)
    BY <1>0, <1>5 DEF Refuse, Goto, Holds, PassRow
  <1>6. ASSUME PassStep(p) \/ GrabByHand(p)
        PROVE  Resolve(p) \/ AddFails(p) \/ Refuse(p) \/ ClientTakes(p) \/ Rollback(p)
    BY <1>6, <1>0 DEF PassStep, RunTodo, ClaimSearch, SearchEnds, ReadForGrab, ClaimForGrab,
       AddAnswered, GiveUp, GrabByHand, Holds
  <1> QED
    BY <1>1, <1>2, <1>3, <1>4, <1>5, <1>6, WorkMovers

(* A request comes into work when a grab claims it, or an import does. *)
LEMMA NewInWork ==
  ASSUME TypeInv, Core, Next, NEW r \in Requests, InWork(r)', ~InWork(r)
  PROVE  \/ \E p \in Passes : Holds(p)' /\ pass'[p].r = r
         \/ \E i \in Importers : /\ import[i].pc = "claim" /\ att[import[i].a].req = r
                                 /\ UNCHANGED <<att, failing>>
  <1>0. ReqOK
    BY DEF TypeInv
  <1>1. ~UNCHANGED req
    BY DEF InWork
  <1>2. ASSUME NEW q, NEW e, NEW n, MoveRequest(q, e, n)
        PROVE  q = r /\ req[r] \in e /\ n \in {"grabbed", "downloading", "importing"}
    BY <1>0, <1>2 DEF ReqOK, MoveRequest, UpdateIf, InWork
  <1>3. ~ \E q \in Requests : \/ Submit(q) \/ Approve(q) \/ Reject(q) \/ ReleaseStranded(q)
                              \/ AbandonSelfServe(q)
    <2>1. \A q \in Requests : ~Submit(q)
      BY <1>0 DEF Submit, ReqOK, InWork
    <2> QED
      BY <1>2, <2>1 DEF Approve, Reject, ReleaseStranded, AbandonSelfServe
  <1>4. ASSUME NEW p \in Passes,
               \/ ClaimSearch(p) \/ SearchEnds(p) \/ AddAnswered(p) \/ Rollback(p) \/ GiveUp(p)
        PROVE  FALSE
    <2>1. ~ClaimSearch(p)
      BY <1>1, <1>2 DEF ClaimSearch
    <2>2. ~SearchEnds(p) /\ ~GiveUp(p)
      BY <1>1, <1>2 DEF SearchEnds, GiveUp
    <2>3. ~AddAnswered(p)
      BY <1>2 DEF AddAnswered, InWork
    <2>4. ~Rollback(p)
      BY <1>2 DEF Rollback, TypeInv, PassOK, Remembers, Grabbable
    <2> QED
      BY <1>4, <2>1, <2>2, <2>3, <2>4
  <1>5. ASSUME NEW p \in Passes, ClaimForGrab(p)
        PROVE  \E q \in Passes : Holds(q)' /\ pass'[q].r = r
    <2>1. MoveRequest(pass[p].r, Grabbable, "grabbed") /\ Goto(p, "resolve")
      BY <1>1, <1>5 DEF ClaimForGrab
    <2>2. pass[p].r = r
      BY <1>2, <2>1
    <2>3. pass'[p].pc = "resolve" /\ pass'[p].r = r
      BY <2>1, <2>2 DEF Goto, TypeInv, PassOK, PassRow
    <2> QED
      BY <2>3 DEF Holds
  <1>6. ASSUME NEW a \in Attempts, PollMoves(a) \/ FailRequest(a) PROVE FALSE
    BY <1>2, <1>6 DEF PollMoves, FailRequest, DownloadingFrom, InWork
  <1>7. ASSUME NEW a \in Attempts, NEW from \in {"import", "verify"}, HoldRequest(a, from)
        PROVE  FALSE
    BY <1>1, <1>2, <1>7 DEF HoldRequest
  <1>8. ASSUME NEW i \in Importers, ClaimRequest(i)
        PROVE  /\ import[i].pc = "claim" /\ att[import[i].a].req = r
               /\ UNCHANGED <<att, failing>>
    <2>1. /\ MoveRequest(att[import[i].a].req, WorkerWritable, "importing")
          /\ UNCHANGED <<att, failing>> /\ import[i].pc = "claim"
      BY <1>1, <1>8 DEF ClaimRequest
    <2> QED
      BY <1>2, <2>1
  <1>9. ASSUME NEW f \in Filers, Settle(f) PROVE FALSE
    BY <1>2, <1>9 DEF Settle
  <1>10. ASSUME NEW p \in Persons, NEW q \in Requests, Cancel(p, q) PROVE FALSE
    BY <1>2, <1>10 DEF Cancel
  <1>11. ASSUME NEW p \in Persons, \/ Reopen(p) \/ Close(p) \/ DiscardRequest(p)
                                   \/ DiscardAttempt(p) \/ UndoRequest(p)
         PROVE  FALSE
    <2>1. \A q : ~ReviewAgain(q)
      BY <1>1, <1>2 DEF ReviewAgain
    <2> QED
      BY <1>1, <1>2, <1>11, <2>1 DEF Reopen, Close, DiscardRequest, DiscardAttempt, UndoRequest
  <1> QED
    BY <1>1, <1>3, <1>4, <1>5, <1>6, <1>7, <1>8, <1>9, <1>10, <1>11, ReqMovers

LEMMA SupportedOn ==
  ASSUME TypeInv, Core, Stands, Grows, Shifts, GivenOn, Taking, ImportLive, AddLive,
         Supported, Next, ~ServerCrash
  PROVE  Supported'
  <1> SUFFICES ASSUME NEW r \in Requests, InWork(r)' PROVE BackedBy(r)'
    BY DEF Supported
  <1>1. ASSUME NEW a \in Made, att[a].req = r, Live(a)' PROVE BackedBy(r)'
    <2>1. a \in Made' /\ att'[a].req = r
      BY <1>1 DEF Grows
    <2> QED
      BY <1>1, <2>1 DEF BackedBy
  <1>2. ASSUME Given(r) PROVE BackedBy(r)'
    BY <1>2 DEF GivenOn, BackedBy
  <1>3. ASSUME NEW a \in Made, att[a].req = r, Live(a), UNCHANGED <<att, failing>> PROVE BackedBy(r)'
    BY <1>1, <1>3 DEF Live
  <1>4. CASE InWork(r)
    <2>1. ASSUME NEW a \in Made, att[a].req = r, Live(a) PROVE BackedBy(r)'
      <3>1. Live(a)' \/ Given(r)' \/ Released(a, r)
        BY <2>1, LiveOn
      <3> QED
        BY <1>1, <2>1, <3>1 DEF Released, BackedBy
    <2>2. ASSUME NEW p \in Passes, Holds(p), pass[p].r = r PROVE BackedBy(r)'
      <3>1. CASE Holds(p)' /\ pass'[p].r = r
        BY <3>1 DEF BackedBy
      <3>2. CASE ClientTakes(p)
        <4>1. pass[p].pc = "add" /\ UNCHANGED <<att, failing>>
          BY <3>2 DEF ClientTakes, passFrame, work
        <4>2. pass[p].a \in Made /\ att[pass[p].a].req = r
          BY <2>2, <4>1 DEF TypeInv, PassOK, Core, Added, Sending
        <4>3. Live(pass[p].a) \/ Given(r)
          BY <2>2, <4>1 DEF AddLive
        <4> QED
          BY <1>2, <1>3, <4>1, <4>2, <4>3
      <3>3. CASE Rollback(p)
        <4>1. req[r] = "grabbed"
          BY <1>4, <2>2 DEF Core, HoldsClaim, InWork, Closed
        <4>2. req'[r] = pass[p].prev /\ pass[p].prev \in Grabbable
          BY <2>2, <3>3, <4>1
          DEF Rollback, MoveRequest, UpdateIf, TypeInv, ReqOK, PassOK, Remembers
        <4> QED
          BY <4>2 DEF InWork, Grabbable
      <3> QED
        BY <2>2, <3>1, <3>2, <3>3, HoldsGoes
    <2> QED
      BY <1>2, <1>4, <2>1, <2>2 DEF Supported, BackedBy
  <1>5. CASE ~InWork(r)
    <2>1. ASSUME NEW p \in Passes, Holds(p)', pass'[p].r = r PROVE BackedBy(r)'
      BY <2>1 DEF BackedBy
    <2>2. ASSUME NEW i \in Importers, import[i].pc = "claim", att[import[i].a].req = r,
                 UNCHANGED <<att, failing>>
          PROVE  BackedBy(r)'
      <3>1. import[i].a \in Made
        BY <2>2 DEF TypeInv, ImportOK
      <3>2. Live(import[i].a) \/ Given(r)
        BY <2>2 DEF ImportLive
      <3> QED
        BY <1>2, <1>3, <2>2, <3>1, <3>2
    <2> QED
      BY <1>5, <2>1, <2>2, NewInWork
  <1> QED
    BY <1>4, <1>5

(* An attempt is made queued, or refused by its source.                      *)
LEMMA NewMade ==
  ASSUME Orderly, TypeInv, Core, Discards, Next, Prompt, NEW a \in Made', a \notin Made
  PROVE  att'[a].status \in {"queued", "failed"}
  <1>1. CASE Halfway
    <2>1. Keeps
      BY <1>1, HalfwayCalm DEF Prompt, Calmer
    <2> QED
      BY <2>1, KeepsGrows
  <1>2. ASSUME NEW p \in Passes, Resolve(p) PROVE att'[a].status \in {"queued", "failed"}
    <2>1. a \in Attempts /\ att[a].status = "absent" /\ att'[a].status # "absent" /\ AttOK
      BY DEF Made, TypeInv, Attempts
    <2>2. PICK b \in Attempts, s \in {"queued", "failed"} : NewAttempt(p, b, s)
      BY <1>2, <2>1 DEF Resolve
    <2>3. att' = [att EXCEPT ![b] = [NoAttempt EXCEPT !.req = pass[p].r, !.status = s,
                                                     !.auto = pass[p].why # "hand"]]
      BY <2>2 DEF NewAttempt
    <2>4. a = b
      BY <2>1, <2>3 DEF AttOK
    <2> QED
      BY <2>1, <2>3, <2>4 DEF AttOK, NoAttempt
  <1>3. CASE ~Halfway /\ \A p \in Passes : ~Resolve(p)
    <2>1. Keeps
      BY <1>3, NotHalfway, WholeCalm DEF Calmer
    <2> QED
      BY <2>1, KeepsGrows
  <1> QED
    BY <1>1, <1>2, <1>3

(* What is held stays so until its request is.                              *)
LEMMA HeldOn ==
  ASSUME TypeInv, Core, Next, ~ServerCrash, NEW a \in Made, att'[a].status = "needs_review",
         att[a].status = "needs_review", NEW x \in holding, x[1] = a
  PROVE  x \in holding' \/ req'[att[a].req] \in {"needs_review"} \cup Closed
  <1>1. ASSUME NEW b, NEW units, NEW from, HoldForReview(b, units, from) PROVE x \in holding'
    BY <1>1 DEF HoldForReview
  <1>2. ASSUME NEW b \in Attempts, Verify(b) PROVE x \in holding'
    BY <1>1, <1>2 DEF Verify
  <1>3. ASSUME NEW i \in Importers, Extract(i) PROVE x \in holding'
    BY <1>1, <1>3 DEF Extract
  <1>4. ASSUME NEW f \in Filers, FileIntoLibrary(f) PROVE x \in holding'
    BY <1>1, <1>4 DEF FileIntoLibrary
  <1>5. ASSUME NEW b \in Attempts, NEW from \in {"import", "verify"}, HoldRequest(b, from)
        PROVE  x \in holding' \/ req'[att[a].req] \in {"needs_review"} \cup Closed
    <2>1. <<b, from>> = x
      BY <1>5 DEF HoldRequest, Core, OneHalf
    <2>2. a = b
      BY <2>1
    <2>3. PICK r \in Requests : r = att[a].req /\ req[r] \in RequestStatus \cup {"absent"}
      BY DEF Made, TypeInv, AttOK, ReqOK
    <2>4. req[r] \in Taken
      <3>1. ~Declining(r)
        BY DEF Core, OneHalf, Declining
      <3> QED
        BY <2>3, <3>1 DEF Core, Claims, Engaged, Unsettled
    <2>5. CASE Clash(r, "needs_review")
      <3>1. ~FailDownload(a)
        <4>1. AttOK /\ a \in Attempts
          BY DEF TypeInv, Made
        <4>2. FailDownload(a) => att'[a].status = "failed"
          BY <4>1 DEF FailDownload, FailIn, UpdateIf, Unsettled, AttOK, AttemptRow
        <4> QED
          BY <4>2
      <3>2. UNCHANGED req
        BY <1>5, <2>2, <2>3, <2>5 DEF HoldRequest
      <3>3. req[r] \notin ActiveRequest
        BY <2>5 DEF Clash
      <3> QED
        BY <2>3, <2>4, <3>2, <3>3 DEF Taken, ActiveRequest, Closed
    <2>6. CASE ~Clash(r, "needs_review")
      <3>1. MoveRequest(r, WorkerWritable, "needs_review")
        BY <1>5, <2>2, <2>3, <2>6 DEF HoldRequest
      <3>2. req'[r] = UpdateIf(req[r], WorkerWritable, "needs_review")
        BY <3>1 DEF MoveRequest, TypeInv, ReqOK
      <3> QED
        BY <2>3, <2>4, <3>2 DEF UpdateIf, Taken, WorkerWritable, ActiveRequest, Closed
    <2> QED
      BY <2>5, <2>6
  <1> QED
    BY <1>2, <1>3, <1>4, <1>5, WorkMovers

(* Nobody picks a book from a release between two updates.                  *)
LEMMA ChosenWhole ==
  ASSUME TypeInv, Core, Prompt, ~ServerCrash, NEW a \in Attempts, ImportChosen(a)
  PROVE  Whole
  <1>1. import' # import
    BY DEF ImportChosen, Imports, TypeInv, ImportOK, Importers, ImportRow
  <1>2. ~Completes
    BY <1>1 DEF Completes, FailRequest, PollMoves, HoldRequest, DiscardAttempt, UndoRequest,
                UndoAttempt, personFrame
  <1> QED
    BY <1>2, NotHalfway DEF Prompt

LEMMA SeatsOn ==
  ASSUME Orderly, TypeInv, Core, Discards, Stands, Grows, Shifts, Seats, ImportSeats,
         Next, Prompt, ~ServerCrash
  PROVE  Seats'
  <1> DEFINE Sits(a) ==
        /\ att[a].status = "completed" => Seat(a, Fetched)
        /\ att[a].status = "importing" => Seat(a, FileableFrom)
        /\ att[a].status = "needs_review" =>
             Seat(a, {"needs_review"}) \/ \E x \in holding : x[1] = a
  <1>1. ASSUME NEW a \in Made', a \notin Made PROVE Sits(a)'
    BY <1>1, NewMade
  <1>2. ASSUME NEW a \in Made, att'[a].status \in {"completed", "importing", "needs_review"}
        PROVE  Sits(a)'
    <2>0. PICK r \in Requests : att[a].req = r /\ att'[a].req = r
      BY <1>2 DEF Grows, TypeInv, AttOK, Made
    <2>1. Engaged(a)' /\ Sits(a) /\ Shift(a, r)
      BY <1>2, <2>0 DEF Engaged, Unsettled, InFlight, Seats, Shifts
    <2>2. "importing" \in Fetched /\ "importing" \in FileableFrom
      BY DEF Fetched, FileableFrom
    <2>3. att[a].status = "needs_review" => ~Importing(a)
      BY DEF Core, ImportsFit, Importing
    <2>4. CASE att'[a].status = att[a].status
      <3>1. Engaged(a)
        BY <1>2, <2>4 DEF Engaged, Unsettled, InFlight
      <3>2. CASE att[a].status = "completed"
        BY <2>0, <2>1, <2>2, <2>4, <3>1, <3>2, SeatOn DEF Places
      <3>3. CASE att[a].status = "importing"
        BY <2>0, <2>1, <2>2, <2>4, <3>1, <3>3, SeatOn DEF Places
      <3>4. CASE att[a].status = "needs_review" /\ Seat(a, {"needs_review"})
        <4>1. Seat(a, {"needs_review"})'
          BY <2>0, <2>1, <2>3, <3>1, <3>4, SeatOn DEF Places
        <4> QED
          BY <2>4, <3>4, <4>1
      <3>5. ASSUME att[a].status = "needs_review", NEW x \in holding, x[1] = a
            PROVE  Sits(a)'
        <4>1. x \in holding' \/ req'[r] \in {"needs_review"} \cup Closed
          BY <2>0, <2>4, <3>5, HeldOn
        <4> QED
          BY <2>0, <2>4, <3>5, <4>1 DEF Seat
      <3> QED
        BY <1>2, <2>1, <2>4, <3>2, <3>3, <3>4, <3>5
    <2>5. CASE att[a].status \in ActiveAttempt /\ att'[a].status = "completed"
      <3>1. Engaged(a) /\ req[r] \in ActiveTransferRequest \cup Closed
        BY <2>0, <2>5 DEF Core, Claims, Engaged, Unsettled, InFlight, ActiveAttempt
      <3>2. Seat(a, Fetched)
        BY <2>0, <3>1 DEF Seat, Fetched, ActiveTransferRequest
      <3>3. Seat(a, Fetched)'
        BY <2>0, <2>1, <2>2, <2>5, <3>1, <3>2, SeatOn DEF Places, ActiveAttempt
      <3> QED
        BY <2>5, <3>3
    <2>6. ASSUME NEW i \in Importers, import[i].pc = "link", import[i].a = a,
                 att'[a].status = "importing"
          PROVE  Sits(a)'
      <3>1. Importing(a) /\ Seat(a, {"importing"})
        BY <2>6 DEF Importing, ImportSeats
      <3>2. Seat(a, {"importing"})'
        BY <2>0, <2>1, <2>3, <3>1, SeatOn DEF Places, Engaged
      <3> QED
        BY <2>6, <3>2 DEF Seat, FileableFrom
    <2>7. CASE ImportChosen(a) /\ att'[a].status = "importing"
      <3>1. att[a].status = "needs_review" /\ holding = {} /\ UNCHANGED <<req, person>>
        BY <2>7, ChosenWhole DEF ImportChosen, Whole, importFrame, Made
      <3>2. ~Declining(r)
        BY <2>7, ChosenWhole DEF Whole, Declining, Made
      <3>3. req[r] \in {"needs_review"} \cup Closed
        BY <2>0, <2>1, <3>1, <3>2 DEF Seat
      <3> QED
        BY <2>0, <2>7, <3>1, <3>3 DEF Seat, FileableFrom
    <2>8. CASE att'[a].status = "needs_review" /\ \E x \in holding' : x[1] = a
      BY <2>8
    <2> HIDE DEF Sits
    <2> QED
      BY <1>2, <2>1, <2>4, <2>5, <2>6, <2>7, <2>8 DEF Shift, ActiveAttempt
  <1>3. \A a \in Made' : Sits(a)'
    <2> SUFFICES ASSUME NEW a \in Made' PROVE Sits(a)'
      OBVIOUS
    <2>1. CASE a \in Made /\ att'[a].status \notin {"completed", "importing", "needs_review"}
      BY <2>1
    <2> QED
      BY <1>1, <1>2, <2>1
  <1> QED
    BY <1>3 DEF Seats

LEMMA ImportSeatsOn ==
  ASSUME Orderly, TypeInv, Core, Discards, Stands, Grows, Seats, ImportSeats,
         Next, Prompt, ~ServerCrash
  PROVE  ImportSeats'
  <1> DEFINE Sits(i) ==
        /\ i = "queue" /\ import[i].pc \in {"extract", "claim"} => Seat(import[i].a, Fetched)
        /\ i = "chosen" /\ import[i].pc \in {"extract", "claim"} => Seat(import[i].a, FileableFrom)
        /\ import[i].pc \in {"link", "place"} => Seat(import[i].a, {"importing"})
  <1>1. ASSUME NEW i \in Importers, import'[i].pc # "idle" PROVE Sits(i)'
    <2>1. PICK a \in Made : a = import'[i].a /\ ImportGoes(i, a)
      BY <1>1, EveryImportGoes
    <2>2. PICK r \in Requests : att[a].req = r /\ att'[a].req = r
      BY DEF Grows, TypeInv, AttOK, Made
    <2>3. Engaged(a)' /\ Sits(i)
      BY <1>1, <2>1 DEF Engaged, Importing, ImportSeats
    <2>4. ASSUME NEW S \in {Fetched, FileableFrom, {"importing"}}, Seat(a, S), Engaged(a),
                 att[a].status # "needs_review"
          PROVE  Seat(a, S)'
      <3>1. S \in Places /\ "importing" \in S
        BY DEF Places, Fetched, FileableFrom
      <3> QED
        BY <2>2, <2>3, <2>4, <3>1, SeatOn
    <2>5. ASSUME import[i].a = a, import[i].pc # "idle"
          PROVE  Engaged(a) /\ att[a].status # "needs_review"
      BY <2>5 DEF Engaged, Importing, Core, ImportsFit
    <2>6. CASE import'[i] = import[i]
      <3>1. import[i].a = a /\ Engaged(a) /\ att[a].status # "needs_review"
        BY <1>1, <2>1, <2>5, <2>6
      <3> QED
        BY <2>1, <2>3, <2>4, <2>6, <3>1
    <2>7. CASE i = "queue" /\ import'[i].pc = "extract" /\ att[a].status = "completed"
      <3>1. Engaged(a) /\ Seat(a, Fetched)
        BY <2>7 DEF Engaged, Unsettled, InFlight, Seats
      <3> QED
        BY <2>1, <2>4, <2>7, <3>1
    <2>8. CASE i = "chosen" /\ import'[i].pc = "extract" /\ ImportChosen(a)
      <3>1. att[a].status = "needs_review" /\ holding = {} /\ UNCHANGED <<req, person>>
        BY <2>8, ChosenWhole DEF ImportChosen, Whole, importFrame, Made
      <3>2. ~Declining(r)
        BY <2>8, ChosenWhole DEF Whole, Declining, Made
      <3>3. req[r] \in {"needs_review"} \cup Closed
        BY <2>2, <3>1, <3>2 DEF Seats, Seat
      <3>4. Seat(a, FileableFrom)'
        BY <2>2, <3>1, <3>3 DEF Seat, FileableFrom
      <3> QED
        BY <2>1, <2>8, <3>4
    <2>9. CASE import[i].a = a /\ import[i].pc = "extract" /\ import'[i].pc = "claim"
      BY <2>1, <2>3, <2>4, <2>5, <2>9
    <2>10. CASE import'[i].pc = "link" /\ req'[att[a].req] = "importing"
      <3>1. Seat(a, {"importing"})'
        BY <2>2, <2>10 DEF Seat
      <3> QED
        BY <2>1, <2>10, <3>1
    <2>11. CASE import[i].a = a /\ import[i].pc = "link" /\ import'[i].pc = "place"
      BY <2>1, <2>3, <2>4, <2>5, <2>11
    <2> HIDE DEF Sits
    <2> QED
      BY <2>1, <2>6, <2>7, <2>8, <2>9, <2>10, <2>11 DEF ImportGoes
  <1>2. \A i \in Importers : Sits(i)'
    <2> SUFFICES ASSUME NEW i \in Importers PROVE Sits(i)'
      OBVIOUS
    <2>1. CASE import'[i].pc = "idle"
      BY <2>1
    <2> QED
      BY <1>1, <2>1
  <1> QED
    BY <1>2 DEF ImportSeats

(* How a filing begins and goes on. *)
FilingGoes(f, a) ==
  \/ /\ filing[f].pc # "idle" /\ filing[f].a = a
     /\ filing'[f].pc = "mark" => filing[f].pc = "mark" \/ Settle(f)
  \/ filing'[f].pc # "mark" /\ Ingested(a)
  \/ filing'[f].pc # "mark" /\ req[att[a].req] = "needs_review"

LEMMA EveryFilingGoes ==
  ASSUME TypeInv, Next, ~ServerCrash, NEW f \in Filers, filing'[f].pc # "idle"
  PROVE  \E a \in Made : a = filing'[f].a /\ FilingGoes(f, a)
  <1> DEFINE Goal == \E a \in Made : a = filing'[f].a /\ FilingGoes(f, a)
  <1>1. ASSUME filing'[f] = filing[f] PROVE Goal
    BY <1>1 DEF TypeInv, FilingOK, FilingGoes
  <1>2. ASSUME NEW g \in Filers, NEW pc, Files(g, pc), filing[g].pc # "idle",
               pc = "mark" => Settle(g)
        PROVE  Goal
    <2>1. g = f \/ filing'[f] = filing[f]
      BY <1>2, FilesEffect
    <2>2. CASE g = f
      <3>1. filing'[f].pc = pc /\ filing'[f].a = filing[f].a /\ filing[f].a \in Made
        BY <1>2, <2>2, FilesEffect DEF TypeInv, FilingOK
      <3> QED
        BY <1>2, <2>2, <3>1 DEF FilingGoes
    <2> QED
      BY <1>1, <2>1, <2>2
  <1>3. ASSUME NEW g \in Filers, Filed(g) PROVE Goal
    <2>1. g # f /\ filing'[f] = filing[f]
      BY <1>3, FiledEffect DEF IdleFiling
    <2> QED
      BY <1>1, <2>1
  <1>4. ASSUME NEW a \in Attempts, Ingested(a) PROVE Goal
    <2>1. a \in Filers /\ a \in Made /\ filing \in [Filers -> FilingRow]
      BY <1>4 DEF Filers, Ingested, Made, TypeInv, FilingOK
    <2>2. /\ filing'[a] = [pc |-> "verify", file |-> a, a |-> a]
          /\ \A g \in Filers : g # a => filing'[g] = filing[g]
      BY <1>4, <2>1 DEF Ingested
    <2>3. CASE f = a
      BY <1>4, <2>1, <2>2, <2>3 DEF FilingGoes
    <2> QED
      BY <1>1, <2>2, <2>3
  <1>5. ASSUME NEW r \in Requests, FileHeld(r) PROVE Goal
    <2>1. Moderator \in Filers /\ filing \in [Filers -> FilingRow]
      BY DEF Filers, TypeInv, FilingOK
    <2>2. PICK a \in Attempts :
            /\ att[a].req = r
            /\ filing' = [filing EXCEPT ![Moderator] =
                            [pc |-> "file", file |-> HeldFile(r, a), a |-> a]]
      BY <1>5 DEF FileHeld, IsLatest
    <2>3. a \in Made
      BY <2>2, RequestsAssumption DEF TypeInv, AttOK, Made
    <2>4. /\ filing'[Moderator].pc = "file" /\ filing'[Moderator].a = a
          /\ \A g \in Filers : g # Moderator => filing'[g] = filing[g]
      BY <2>1, <2>2
    <2>5. CASE f = Moderator
      BY <1>5, <2>2, <2>3, <2>4, <2>5 DEF FilingGoes, FileHeld
    <2> QED
      BY <1>1, <2>4, <2>5
  <1> HIDE DEF Goal
  <1>6. ASSUME NEW a \in Attempts, Verify(a) PROVE Goal
    <2>1. a \in Filers
      BY DEF Filers
    <2> QED
      BY <1>2, <1>3, <1>6, <2>1 DEF Verify
  <1>7. ASSUME NEW g \in Filers, FilingStep(g) PROVE Goal
    <2>1. FileIntoLibrary(g) => Goal
      BY <1>2, <1>3 DEF FileIntoLibrary
    <2>2. Settle(g) => Goal
      BY <1>2 DEF Settle
    <2>3. MarkImported(g) => Goal
      BY <1>3 DEF MarkImported
    <2> QED
      BY <1>7, <2>1, <2>2, <2>3 DEF FilingStep
  <1>8. Goal
    BY <1>1, <1>4, <1>5, <1>6, <1>7, WorkMovers
  <1> QED
    BY <1>8 DEF Goal

(* What may be filed stays so. *)
LEMMA FilableOn ==
  ASSUME TypeInv, Shifts, Next, ~ServerCrash, NEW a \in Made, Filable(a)
  PROVE  Filable(a)'
  <1>1. PICK r \in Requests : att[a].req = r
    BY DEF TypeInv, AttOK, Made
  <1>2. att'[a].status \in Late
    BY <1>1 DEF Shifts, Shift, Filable, Late, ActiveAttempt
  <1>3. ASSUME import'["queue"].pc \in {"extract", "claim"}, import'["queue"].a = a PROVE FALSE
    <2>1. ImportGoes("queue", a)
      BY <1>3, EveryImportGoes DEF Importers
    <2> QED
      BY <1>3, <2>1 DEF ImportGoes, Filable, Late
  <1> QED
    BY <1>2, <1>3 DEF Filable

LEMMA FilingLateOn ==
  ASSUME TypeInv, Core, Shifts, Seats, ImportSeats, FilingLate, Next, ~ServerCrash
  PROVE  FilingLate'
  <1> SUFFICES ASSUME NEW f \in Filers, filing'[f].pc # "idle",
                      NEW a, a = filing'[f].a
               PROVE  Filable(a)'
    BY DEF FilingLate
  <1>1. a \in Made /\ FilingGoes(f, a)
    BY EveryFilingGoes
  <1>2. CASE filing[f].pc # "idle" /\ filing[f].a = a
    BY <1>1, <1>2, FilableOn DEF FilingLate
  <1>3. CASE Ingested(a)
    <2>1. att[a].status = "importing" /\ dock[a] = "placed"
      BY <1>3 DEF Ingested
    <2>2. Filable(a)
      BY <2>1 DEF Filable, Late, Core, ImportsFit, Unplaced, Importers
    <2> QED
      BY <1>1, <2>2, FilableOn
  <1>4. CASE req[att[a].req] = "needs_review"
    <2>1. ~Seat(a, Fetched)
      BY <1>4 DEF Seat, Fetched, Closed
    <2>2. att[a].status \notin ActiveAttempt
      BY <1>1, <1>4 DEF Core, Claims, ActiveTransferRequest, Closed
    <2>3. att[a].status \in AttemptStatus
      BY <1>1 DEF TypeInv, AttOK, AttemptRow, Made
    <2>4. att[a].status \in Late
      BY <1>1, <2>1, <2>2, <2>3 DEF Seats, Late, AttemptStatus, Unsettled, InFlight
    <2>5. Filable(a)
      BY <2>1, <2>4 DEF Filable, ImportSeats, Importers
    <2> QED
      BY <1>1, <2>5, FilableOn
  <1> QED
    BY <1>1, <1>2, <1>3, <1>4 DEF FilingGoes

(* Nobody settles an import between two updates.                            *)
LEMMA SettleWhole ==
  ASSUME TypeInv, Prompt, ~ServerCrash, NEW f \in Filers, Settle(f)
  PROVE  Whole
  <1>1. filing' # filing
    BY DEF Settle, Files, TypeInv, FilingOK, FilingRow
  <1>2. ~Completes
    BY <1>1 DEF Completes, FailRequest, PollMoves, HoldRequest, DiscardAttempt, UndoRequest,
                UndoAttempt, personFrame
  <1> QED
    BY <1>2, NotHalfway DEF Prompt

LEMMA MarkClosedOn ==
  ASSUME Orderly, TypeInv, Core, Discards, Stands, Grows, Seats, ImportSeats, FilingLate,
         MarkClosed, Next, Prompt, ~ServerCrash
  PROVE  MarkClosed'
  <1> SUFFICES ASSUME NEW f \in Filers, filing'[f].pc = "mark",
                      NEW a, a = filing'[f].a, Engaged(a)'
               PROVE  (req[att[a].req] \in Closed)'
    BY DEF MarkClosed
  <1>1. a \in Made /\ FilingGoes(f, a)
    BY EveryFilingGoes
  <1>2. PICK r \in Requests : att[a].req = r /\ att'[a].req = r
    BY <1>1 DEF Grows, TypeInv, AttOK, Made
  <1>3. Engaged(a)
    BY <1>1, EveryCalm DEF CalmMade
  <1>4. CASE filing[f].pc = "mark" /\ filing[f].a = a
    BY <1>2, <1>3, <1>4 DEF MarkClosed, Stands
  <1>5. CASE Settle(f) /\ filing[f].pc # "idle" /\ filing[f].a = a
    <2>1. Whole /\ Filable(a)
      BY <1>5, SettleWhole DEF FilingLate
    <2>2. ~Declining(r) /\ failing = {} /\ holding = {}
      BY <2>1 DEF Whole, Declining
    <2>3. ASSUME att[a].status \in {"importing", "needs_review"}
          PROVE  req[r] \in FileableFrom \cup Closed
      BY <1>1, <1>2, <2>2, <2>3 DEF Seats, Seat, FileableFrom
    <2>4. ASSUME att[a].status \in {"imported", "failed"}
          PROVE  req[r] \in FileableFrom \cup Closed
      <3>1. PICK i \in Importers : import[i].pc # "idle" /\ import[i].a = a
        BY <1>3, <2>2, <2>4 DEF Engaged, Importing, Unsettled, InFlight, ActiveAttempt
      <3>2. import[i].pc \in {"extract", "claim", "link", "place"}
        BY <3>1 DEF TypeInv, ImportOK, ImportRow
      <3>3. Seat(a, FileableFrom) \/ Seat(a, {"importing"})
        BY <2>1, <3>1, <3>2 DEF ImportSeats, Filable, Importers
      <3> QED
        BY <1>2, <2>2, <3>3 DEF Seat, FileableFrom
    <2>5. req[r] \in FileableFrom \cup Closed
      BY <2>1, <2>3, <2>4 DEF Filable, Late
    <2>6. req'[r] = UpdateIf(req[r], FileableFrom, "available")
      BY <1>2, <1>5 DEF Settle, MoveRequest, TypeInv, ReqOK
    <2> QED
      BY <1>2, <2>5, <2>6 DEF UpdateIf, Closed
  <1> QED
    BY <1>1, <1>4, <1>5 DEF FilingGoes

(* Who works on what, and how far the requests are meanwhile.               *)
Manned ==
  /\ Supported /\ Errands /\ Taking /\ Seats /\ ImportSeats
  /\ FilingLate /\ MarkClosed /\ ImportLive /\ AddLive

LEMMA InitManned == Init => Manned
  <1> SUFFICES ASSUME Init PROVE Manned
    OBVIOUS
  <1>1. Made = {} /\ failing = {} /\ holding = {}
    BY DEF Init, Made, NoAttempt
  <1>2. /\ \A r \in Requests : req[r] = "absent"
        /\ \A p \in Persons : person[p] = IdlePerson
        /\ \A p \in Passes : pass[p] = IdlePass
        /\ \A i \in Importers : import[i].pc = "idle"
        /\ \A f \in Filers : filing[f].pc = "idle"
    BY DEF Init, IdleImport, IdleFiling
  <1>3. Supported
    BY <1>2 DEF Supported, InWork
  <1>4. Errands /\ Taking /\ AddLive
    BY <1>2 DEF Errands, Taking, AddLive, IdlePerson, IdlePass
  <1>5. Seats /\ ImportSeats /\ FilingLate /\ MarkClosed /\ ImportLive
    BY <1>1, <1>2 DEF Seats, ImportSeats, FilingLate, MarkClosed, ImportLive
  <1> QED
    BY <1>3, <1>4, <1>5 DEF Manned

LEMMA SameManned == ASSUME Manned, UNCHANGED vars PROVE Manned'
  <1>1. UNCHANGED <<req, att, pass, person, import, filing, failing, holding>>
    BY DEF vars, rows, work
  <1>2. Supported' /\ Errands' /\ Taking'
    BY <1>1 DEF Manned, Supported, InWork, BackedBy, Given, Live, Holds, Made, Errands, Taking
  <1>3. Seats' /\ ImportSeats'
    BY <1>1 DEF Manned, Seats, ImportSeats, Seat, Declining, Made
  <1>4. FilingLate' /\ MarkClosed'
    BY <1>1 DEF Manned, FilingLate, MarkClosed, Filable, Engaged, Importing
  <1>5. ImportLive' /\ AddLive'
    BY <1>1 DEF Manned, ImportLive, AddLive, Live, Given, Holds
  <1> QED
    BY <1>2, <1>3, <1>4, <1>5 DEF Manned

Backs == Ordered /\ Inv /\ MaxCrashes = 0 /\ Manned

LEMMA NextBacks == Backs /\ [Next]_vars /\ [Prompt]_vars => Backs'
  <1> SUFFICES ASSUME Backs, [Next]_vars, [Prompt]_vars PROVE Backs'
    OBVIOUS
  <1>1. Ordered' /\ Inv' /\ MaxCrashes' = 0
    BY NextOrdered, NextInv DEF Backs
  <1>2. CASE UNCHANGED vars
    BY <1>1, <1>2, SameManned DEF Backs
  <1>3. CASE Next /\ Prompt
    <2>1. Orderly /\ TypeInv /\ Core /\ Discards /\ Inv
      BY DEF Backs, Ordered, Order
    <2>2. ~ServerCrash
      BY <2>1 DEF Backs, ServerCrash, TypeInv, SpentOK
    <2>3. /\ Supported /\ Errands /\ Taking /\ Seats /\ ImportSeats
          /\ FilingLate /\ MarkClosed /\ ImportLive /\ AddLive
      BY DEF Backs, Manned
    <2>4. Stands /\ Grows /\ GivenOn
      BY <2>1, <2>2, <2>3, EveryStands, EveryStep, EveryGivenOn DEF Step
    <2>5. Shifts
      BY <1>3, <2>1, <2>2, <2>3, <2>4, EveryShifts
    <2>6. Errands' /\ Taking'
      BY <1>3, <2>1, <2>2, <2>3, ErrandsKeep, TakingOn
    <2>7. Supported'
      BY <1>3, <2>1, <2>2, <2>3, <2>4, <2>5, SupportedOn
    <2>8. Seats' /\ ImportSeats'
      BY <1>3, <2>1, <2>2, <2>3, <2>4, <2>5, SeatsOn, ImportSeatsOn
    <2>9. FilingLate' /\ MarkClosed'
      BY <1>3, <2>1, <2>2, <2>3, <2>4, <2>5, FilingLateOn, MarkClosedOn
    <2>10. ImportLive' /\ AddLive'
      BY <1>3, <2>1, <2>2, <2>3, <2>4, <2>5, ImportLiveOn, AddLiveOn
    <2> QED
      BY <1>1, <2>6, <2>7, <2>8, <2>9, <2>10 DEF Backs, Manned
  <1> QED
    BY <1>2, <1>3

LEMMA BacksWorker == Backs => WorkerBacked
  <1> SUFFICES ASSUME Backs, NEW r \in Requests, InWork(r) PROVE Working(r)
    BY DEF WorkerBacked, InWork
  <1>1. BackedBy(r)
    BY DEF Backs, Manned, Supported
  <1> QED
    BY <1>1 DEF BackedBy, Given, Live, Working, InWork, Closed, Made

(* As long as the server is not restarted, nobody waits for a worker that   *)
(* is gone: a request that is grabbed, downloading or importing has an      *)
(* attempt, a grab or a person who will move it on.                         *)
THEOREM WorkerBackedCorrect ==
  Orderly /\ MaxCrashes = 0 /\ Spec /\ [][Prompt]_vars => []WorkerBacked
  <1>1. Orderly /\ MaxCrashes = 0 /\ Init => Backs
    BY InitOrdered, InitInv, InitManned DEF Backs
  <1> QED
    BY <1>1, NextBacks, BacksWorker, PTL DEF Spec

-----------------------------------------------------------------------------
(* One request, one copy.                                                    *)
(*                                                                          *)
(* Besides what WorkerBacked needs, a person who discards does so alone     *)
(* ([]Alone).  An attempt is tied to its request while it is engaged or its *)
(* entry is in the Book Dock to stay, or was filed: there is one of them for *)
(* a request, the latest, and no grab beside it.                             *)

(* The Book Dock is told to empty an entry.                                  *)
Emptying(a) == \E p \in Persons : person[p].pc = "empty" /\ person[p].file = a
Placed(a) == dock[a] = "filed" \/ (dock[a] = "placed" /\ ~Emptying(a))
Tied(a) == Engaged(a) \/ Placed(a)

(* Attempts are numbered as they are made.                                   *)
Dense == \A a, b \in Attempts : b < a /\ a \in Made => b \in Made
OneTied == \A a, b \in Made : Tied(a) /\ Tied(b) /\ att[a].req = att[b].req => a = b
HoldsUntied == \A p \in Passes, a \in Made : Holds(p) /\ Placed(a) => att[a].req # pass[p].r
TiedLatest == \A a, b \in Made : Tied(a) /\ att[a].req = att[b].req => b <= a

(* Where the request of an attempt is, once its entry is made.               *)
AtStage(a, pcs) == \E i \in Importers : import[i].pc \in pcs /\ import[i].a = a
PlacedSeat == \A a \in Made : Placed(a) => Seat(a, FileableFrom)
ImportingSeat == \A a \in Made : att[a].status = "importing" =>
  Seat(a, {"importing"}) \/ (import["chosen"].pc \in {"extract", "claim"} /\ import["chosen"].a = a)
FilingSeat == \A a \in Attempts : filing[a].pc \in {"verify", "file"} /\ dock[a] = "placed" =>
  Seat(a, {"importing"})

(* What fails has no entry yet, and a hold from an import neither.           *)
FailingUnplaced == \A a \in failing : Unplaced(a)
HeldUnplaced == \A x \in holding : x[2] = "import" => Unplaced(x[1])

(* Attempt and request point at the entry while it is there.                 *)
Linked == \A a \in Made :
  att[a].dock <=> (dock[a] = "placed" \/ AtStage(a, {"place"}))
Pointed == \A r \in Requests : pointer[r] # None =>
  /\ pointer[r] \in Made /\ att[pointer[r]].req = r
  /\ dock[pointer[r]] = "placed" \/ AtStage(pointer[r], {"link", "place"})
Points == \A a \in Made :
  (dock[a] = "placed" /\ ~Emptying(a)) \/ AtStage(a, {"link", "place"}) =>
     pointer[att[a].req] \in {None, a}

(* Who files an attempt files its own entry, and records it.                 *)
OwnFile == \A f \in Filers : filing[f].pc # "idle" =>
  /\ filing[f].file = filing[f].a
  /\ filing[f].pc \in {"settle", "mark"} => dock[filing[f].a] = "filed"
Recorded == \A a \in Made : dock[a] = "filed" /\ att[a].status \in Unsettled =>
  \E f \in Filers : filing[f].pc \in {"settle", "mark"} /\ filing[f].a = a

(* What a person has taken in hand, nobody else works on.                    *)
Resting == {"needs_review", "failed", "imported"}
AtRest(a) == att[a].status \in Resting /\ ~Importing(a)
ModeratorHeld == filing[Moderator].pc # "idle" =>
  /\ AtRest(filing[Moderator].a)
  /\ att[filing[Moderator].a].status = "needs_review" => ~att[filing[Moderator].a].units
InDiscard == {"discard", "decline", "empty"}
Discarded == \A p \in Persons :
  /\ person[p].op = "discard" <=> person[p].pc \in InDiscard
  /\ person[p].pc \in InDiscard => \A a \in {person[p].a, person[p].file} \cap Attempts :
       /\ a \in Made /\ AtRest(a)
       /\ dock[a] = "placed" => filing[a].pc = "idle"
  /\ person[p].pc \in {"discard", "decline"} =>
       (dock[person[p].a] = "placed" /\ ~Emptying(person[p].a) =>
          person[p].file = person[p].a)

Single == \A r \in Requests :
  /\ library[r] <= 1
  /\ library[r] = 1 => \E a \in Made : att[a].req = r /\ dock[a] = "filed"

(* What the theorems so far say of a step. *)
Steps ==
  /\ Orderly /\ Inv /\ TypeInv /\ Core /\ Discards /\ Manned
  /\ Next /\ Prompt /\ ~ServerCrash
  /\ Stands /\ Grows /\ Shifts /\ CalmMade

(* Between two updates nobody touches an entry. *)
LEMMA WholeOrFrame ==
  ASSUME Prompt, ~ServerCrash
  PROVE  Whole \/ UNCHANGED <<dock, pointer, library, import, filing, pass, client>>
  <1>1. CASE ~Halfway
    BY <1>1, NotHalfway
  <1>2. CASE Halfway
    <2>1. ASSUME NEW a \in Attempts, FailRequest(a) \/ PollMoves(a)
          PROVE  UNCHANGED <<dock, pointer, library, import, filing, pass, client>>
      BY <2>1 DEF FailRequest, PollMoves, outside
    <2>2. ASSUME NEW a \in Attempts, NEW from, HoldRequest(a, from)
          PROVE  UNCHANGED <<dock, pointer, library, import, filing, pass, client>>
      BY <2>2 DEF HoldRequest, outside
    <2>3. ASSUME NEW p \in Persons, DiscardAttempt(p) \/ UndoRequest(p) \/ UndoAttempt(p)
          PROVE  UNCHANGED <<dock, pointer, library, import, filing, pass, client>>
      BY <2>3 DEF DiscardAttempt, UndoRequest, UndoAttempt, personFrame
    <2> QED
      BY <1>2, <2>1, <2>2, <2>3 DEF Prompt, Completes
  <1> QED
    BY <1>1, <1>2

(* Who touches an entry, a pointer to one or the library. *)
LEMMA EntryMovers ==
  ASSUME Next
  PROVE  \/ UNCHANGED <<dock, pointer, library>>
         \/ \E i \in Importers : Extract(i) \/ ClaimRequest(i) \/ Place(i)
         \/ \E f \in Filers : FileIntoLibrary(f) \/ Settle(f)
         \/ \E p \in Persons : Close(p) \/ Empty(p)
         \/ \E a \in Attempts : DockEmptied(a)
  <1>1. \A r \in Requests : \/ Submit(r) \/ Approve(r) \/ Reject(r) \/ ListForResearch(r)
                            \/ ReleaseStranded(r) \/ AbandonSelfServe(r) \/ FileHeld(r)
          => UNCHANGED <<dock, pointer, library>>
    BY DEF Submit, Approve, Reject, ListForResearch, ReleaseStranded, AbandonSelfServe, FileHeld,
           rows, outside
  <1>2. \A p \in Passes : PassStep(p) \/ GrabByHand(p) => UNCHANGED <<dock, pointer, library>>
    BY DEF PassStep, RunTodo, ClaimSearch, SearchEnds, ReadForGrab, ClaimForGrab, Resolve,
           ClientTakes, AddAnswered, AddFails, Refuse, Rollback, GiveUp, GrabByHand, passFrame
  <1>3. \A a \in Attempts : PollStep(a) \/ FailRequest(a) \/ WatchdogReads(a) \/ WatchdogActs(a)
                            \/ ClientEnds(a)
          => UNCHANGED <<dock, pointer, library>>
    BY DEF PollStep, PollAsks, PollUnanswered, PollReports, PollMoves, PollFails, FailRequest,
           ResumeUnimported, ClientEnds, WatchdogReads, WatchdogActs, rows, outside
  <1>4. \A a \in Attempts : Verify(a) \/ Ingested(a) \/ ImportChosen(a)
          => UNCHANGED <<dock, pointer, library>>
    BY DEF Verify, Ingested, ImportChosen, rows, importFrame
  <1>5. \A a \in Attempts, from \in {"import", "verify"} : HoldRequest(a, from)
          => UNCHANGED <<dock, pointer, library>>
    BY DEF HoldRequest, outside
  <1>6. StartImport \/ (\E i \in Importers : Link(i)) \/ (\E f \in Filers : MarkImported(f))
          => UNCHANGED <<dock, pointer, library>>
    BY DEF StartImport, Link, MarkImported, rows, importFrame
  <1>7. \A p \in Persons, r \in Requests : Cancel(p, r) \/ Fulfil(p, r) \/ Discard(p, r)
          => UNCHANGED <<dock, pointer, library>>
    BY DEF Cancel, Fulfil, Discard, rows, personFrame
  <1>8. \A p \in Persons, a \in Attempts : StopTransfer(p, a)
          => UNCHANGED <<dock, pointer, library>>
    BY DEF StopTransfer, rows, personFrame
  <1>9. \A p \in Persons : Detach(p) \/ FailAttempt(p) \/ Reopen(p) \/ SweepAttempts(p)
                           \/ DiscardRequest(p) \/ DiscardAttempt(p) \/ UndoRequest(p)
                           \/ UndoAttempt(p)
          => UNCHANGED <<dock, pointer, library>>
    BY DEF Detach, FailAttempt, Reopen, SweepAttempts, DiscardRequest, DiscardAttempt,
           UndoRequest, UndoAttempt, rows, personFrame
  <1>10. ServerCrash => UNCHANGED <<dock, pointer, library>>
    BY DEF ServerCrash, rows, outside
  <1> QED
    BY <1>1, <1>2, <1>3, <1>4, <1>5, <1>6, <1>7, <1>8, <1>9, <1>10
       DEF Next, ImportStep, FilingStep, PersonStep

(* What becomes of the entry of an attempt. *)
DockGoes(a) ==
  \/ dock'[a] = dock[a]
  \/ Unplaced(a)' /\ dock[a] # "filed"
  \/ /\ \E i \in Importers : Place(i) /\ import[i].a = a
     /\ dock'[a] = "placed" /\ UNCHANGED <<req, pointer, att, failing>>
  \/ /\ \E f \in Filers : FileIntoLibrary(f) /\ filing[f].file = a
     /\ dock[a] = "placed" /\ dock'[a] = "filed"

LEMMA EveryDockGoes ==
  ASSUME TypeInv, Core, Next, NEW a \in Attempts
  PROVE  DockGoes(a)
  <1>1. dock \in [Attempts -> {"none", "reserved", "placed", "filed"}]
    BY DEF TypeInv, DockOK
  <1>2. ASSUME NEW i \in Importers, Extract(i) \/ ClaimRequest(i) \/ Place(i)
        PROVE  DockGoes(a)
    <2>1. PICK x \in Made : x = import[i].a /\ Unplaced(x)
      BY <1>2, ImportAttempt DEF Extract, ClaimRequest, Place
    <2>2. \/ dock' = [dock EXCEPT ![x] = "none"]
          \/ dock' = [dock EXCEPT ![x] = "reserved"]
          \/ /\ Place(i) /\ dock' = [dock EXCEPT ![x] = "placed"]
             /\ UNCHANGED <<req, pointer, att, failing>>
          \/ dock' = dock
      BY <1>2, <2>1 DEF Extract, ClaimRequest, Place
    <2>3. CASE a # x
      BY <1>1, <2>2, <2>3 DEF DockGoes
    <2>4. CASE a = x
      BY <1>1, <2>1, <2>2, <2>4 DEF DockGoes, Unplaced
    <2> QED
      BY <2>3, <2>4
  <1>3. ASSUME NEW f \in Filers, FileIntoLibrary(f) PROVE DockGoes(a)
    <2>1. PICK x \in Attempts : x = filing[f].file
      BY <1>3 DEF FileIntoLibrary, TypeInv, FilingOK
    <2>2. \/ dock' = dock
          \/ dock[x] = "placed" /\ dock' = [dock EXCEPT ![x] = "filed"]
      BY <1>3, <2>1 DEF FileIntoLibrary
    <2> QED
      BY <1>1, <1>3, <2>1, <2>2 DEF DockGoes
  <1>4. ASSUME NEW p \in Persons, Empty(p) PROVE DockGoes(a)
    <2>1. \/ dock' = dock
          \/ dock[person[p].file] # "filed" /\ dock' = [dock EXCEPT ![person[p].file] = "none"]
      BY <1>4 DEF Empty
    <2> QED
      BY <1>1, <2>1 DEF DockGoes, Unplaced
  <1>5. ASSUME NEW x \in Attempts, DockEmptied(x) PROVE DockGoes(a)
    BY <1>1, <1>5 DEF DockGoes, Unplaced, DockEmptied
  <1>6. ASSUME NEW f \in Filers, Settle(f) PROVE DockGoes(a)
    BY <1>6 DEF DockGoes, Settle
  <1>7. ASSUME NEW p \in Persons, Close(p) PROVE DockGoes(a)
    BY <1>7 DEF DockGoes, Close
  <1>8. CASE UNCHANGED dock
    BY <1>8 DEF DockGoes
  <1> QED
    BY <1>2, <1>3, <1>4, <1>5, <1>6, <1>7, <1>8, EntryMovers

(* How a person's operation goes on. *)
LEMMA PersonGoes ==
  ASSUME Steps, NEW p \in Persons
  PROVE  \/ person'[p] = person[p]
         \/ PersonStep(p) /\ person[p].pc # "idle"
         \/ person[p].pc = "idle" /\ \E r \in Requests : Cancel(p, r) \/ Fulfil(p, r) \/ Discard(p, r)
  <1> USE DEF Steps
  <1>1. ASSUME NEW q \in Persons, PersonStep(q)
        PROVE  person'[p] = person[p] \/ (PersonStep(p) /\ person[p].pc # "idle")
    <2>1. person[q].pc # "idle"
      BY <1>1 DEF PersonStep, Detach, FailAttempt, Reopen, Close, SweepAttempts, DiscardRequest,
                  DiscardAttempt, Empty, UndoRequest, UndoAttempt
    <2>2. \/ Free(q) \/ \E pc : Does(q, pc)
          \/ \E a : person' = [person EXCEPT ![q].pc = "fail", ![q].a = a]
      BY <1>1 DEF PersonStep, Detach, FailAttempt, Reopen, Close, SweepAttempts, DiscardRequest,
                  DiscardAttempt, Empty, UndoRequest, UndoAttempt
    <2>3. p # q => person'[p] = person[p]
      BY <2>2, FreeEffect, DoesEffect, DetachEffect
    <2>4. CASE p = q
      BY <1>1, <2>1, <2>4
    <2> QED
      BY <2>3, <2>4
  <1>2. ASSUME NEW q \in Persons, NEW r \in Requests, Cancel(q, r) \/ Fulfil(q, r) \/ Discard(q, r)
        PROVE  \/ person'[p] = person[p]
               \/ person[p].pc = "idle" /\ \E s \in Requests : Cancel(p, s) \/ Fulfil(p, s) \/ Discard(p, s)
    <2>1. PICK pc, op, a, f : Begins(q, pc, op, r, a, f)
      BY <1>2 DEF Cancel, Fulfil, Discard
    <2>2. person[q].pc = "idle" /\ (p # q => person'[p] = person[p])
      BY <2>1, BeginsEffect
    <2> QED
      BY <1>2, <2>2
  <1>3. ~\E q \in Persons, a \in Attempts : StopTransfer(q, a)
    BY DEF StopTransfer, Orderly, TypeInv, SpentOK
  <1> QED
    BY <1>1, <1>2, <1>3, WorkMovers

(* Somebody who empties an entry does so until it is gone. *)
LEMMA EmptyGoes ==
  ASSUME Steps, NEW p \in Persons, person[p].pc = "empty"
  PROVE  \/ person'[p] = person[p]
         \/ Empty(p) /\ Free(p) /\ \/ dock[person[p].file] = "filed"
                                   \/ person[p].file \in Attempts /\ dock'[person[p].file] = "none"
                                   \/ person[p].file = None
  <1> USE DEF Steps
  <1>1. person'[p] = person[p] \/ Empty(p)
    BY PersonGoes DEF PersonStep, Detach, FailAttempt, Reopen, Close, SweepAttempts,
                      DiscardRequest, DiscardAttempt, UndoRequest, UndoAttempt
  <1>2. ASSUME Empty(p)
        PROVE  Free(p) /\ \/ dock[person[p].file] = "filed"
                          \/ person[p].file \in Attempts /\ dock'[person[p].file] = "none"
                          \/ person[p].file = None
    <2>1. person[p].file \in Attempts \cup {None}
      BY DEF TypeInv, PersonOK, PersonRow
    <2>2. ~(spent.undone < MaxUndone)
      BY DEF Orderly, TypeInv, SpentOK
    <2> QED
      BY <1>2, <2>1, <2>2 DEF Empty, TypeInv, DockOK
  <1> QED
    BY <1>1, <1>2

LEMMA EmptyingOn ==
  ASSUME Steps, NEW a \in Attempts, dock[a] = "placed", dock'[a] = "placed", Emptying(a)
  PROVE  Emptying(a)'
  <1>1. PICK p \in Persons : person[p].pc = "empty" /\ person[p].file = a
    BY DEF Emptying
  <1>2. a # None
    BY DEF Attempts, None
  <1>3. person'[p] = person[p]
    BY <1>1, <1>2, EmptyGoes
  <1> QED
    BY <1>1, <1>3 DEF Emptying

(* Nobody files what is being discarded. *)
LEMMA FiledStays ==
  ASSUME TypeInv, Core, OwnFile, Discarded, Alone, NEW f \in Filers, FileIntoLibrary(f),
         NEW a \in Attempts, filing[f].file = a, dock[a] = "placed"
  PROVE  filing[f].a = a /\ a \in Made /\ ~Emptying(a)
  <1>1. filing[f].pc = "file" /\ filing[f].a = a /\ a \in Made
    BY DEF FileIntoLibrary, OwnFile, TypeInv, FilingOK
  <1>2. ASSUME NEW p \in Persons, person[p].pc = "empty", person[p].file = a PROVE FALSE
    <2>1. person[p].op = "discard" /\ filing[a].pc = "idle"
      BY <1>2 DEF Discarded, InDiscard
    <2>2. f = Moderator
      BY <1>1, <2>1 DEF Filers, Core, Entries
    <2> QED
      BY <1>1, <1>2, <2>1, <2>2 DEF Alone
  <1> QED
    BY <1>1, <1>2 DEF Emptying

(* No attempt that was made comes to be tied. *)
CalmPlaced == \A a \in Made : Placed(a)' =>
  \/ Placed(a)
  \/ \E i \in Importers : /\ Place(i) /\ import[i].a = a /\ dock'[a] = "placed"
                          /\ UNCHANGED <<req, pointer, att, failing>>
CalmTied == \A a \in Made : Tied(a)' => Tied(a)

LEMMA PlacedCalm ==
  ASSUME Steps, OwnFile, Discarded, Alone
  PROVE  CalmPlaced
  <1> USE DEF Steps
  <1> SUFFICES ASSUME NEW a \in Made, Placed(a)', ~Placed(a)
               PROVE  \E i \in Importers : /\ Place(i) /\ import[i].a = a /\ dock'[a] = "placed"
                                           /\ UNCHANGED <<req, pointer, att, failing>>
    BY DEF CalmPlaced
  <1>1. a \in Attempts /\ DockGoes(a)
    BY EveryDockGoes DEF Made
  <1>2. ASSUME dock'[a] = dock[a] PROVE FALSE
    BY <1>1, <1>2, EmptyingOn DEF Placed
  <1>3. ~Unplaced(a)'
    BY DEF Placed, Unplaced
  <1>4. ASSUME NEW f \in Filers, FileIntoLibrary(f), filing[f].file = a, dock[a] = "placed"
        PROVE  FALSE
    BY <1>1, <1>4, FiledStays DEF Placed
  <1> QED
    BY <1>1, <1>2, <1>3, <1>4 DEF DockGoes

LEMMA TiedCalm ==
  ASSUME Steps, OwnFile, Discarded, Alone
  PROVE  CalmTied
  <1>1. \A a \in Made : Placed(a)' => Tied(a)
    <2> SUFFICES ASSUME NEW a \in Made, Placed(a)', ~Placed(a) PROVE Engaged(a)
      BY DEF Tied
    <2>1. PICK i \in Importers : Place(i) /\ import[i].a = a
      BY PlacedCalm DEF CalmPlaced
    <2> QED
      BY <2>1 DEF Place, Engaged, Importing
  <1> QED
    BY <1>1 DEF CalmTied, Tied, Steps, CalmMade

(* A grab comes to hold its request by claiming it. *)
LEMMA HoldsComes ==
  ASSUME Steps, NEW p \in Passes, Holds(p)'
  PROVE  /\ pass'[p].r = pass[p].r
         /\ Holds(p) \/ (ClaimForGrab(p) /\ pass[p].pc = "claim" /\ req[pass[p].r] \in Grabbable)
  <1> USE DEF Steps
  <1> DEFINE Goal == /\ pass'[p].r = pass[p].r
                     /\ Holds(p) \/ (ClaimForGrab(p) /\ pass[p].pc = "claim" /\ req[pass[p].r] \in Grabbable)
  <1>0. pass \in [Passes -> PassRow] /\ pass[p] \in PassRow
    BY DEF TypeInv, PassOK
  <1>1. ASSUME NEW q \in Passes, PassStep(q) \/ GrabByHand(q), q # p
        PROVE  pass'[p] = pass[p]
    BY <1>0, <1>1 DEF PassStep, RunTodo, StartPass, ClaimSearch, SearchEnds, ReadForGrab, ClaimForGrab,
         Resolve, ClientTakes, AddAnswered, AddFails, Refuse, Rollback, GiveUp, GrabByHand,
         NotStarted, Become, Goto, Leave
  <1>2. ASSUME pass'[p] = pass[p] PROVE Goal
    BY <1>2 DEF Holds
  <1>3. ASSUME NEW pc \in {"search", "grab", "giveup"}, Leave(p) \/ Goto(p, pc) PROVE FALSE
    BY <1>3, LooseGoto
  <1>4. ASSUME NEW another, NotStarted(p, another) PROVE FALSE
    BY <1>4, LooseEnd
  <1>5. ASSUME NEW record, Become(p, record), record.pc \in {"idle", "read", "search", "grab", "claim", "giveup"}
        PROVE  FALSE
    BY <1>5, LooseOn
  <1>6. ASSUME RunTodo(p) \/ GrabByHand(p), pass'[p] # pass[p] PROVE FALSE
    BY <1>5, <1>6 DEF RunTodo, StartPass, GrabByHand, IdlePass
  <1>7. ~ClaimSearch(p) /\ ~SearchEnds(p) /\ ~GiveUp(p) /\ ~AddAnswered(p) /\ ~Rollback(p)
    BY <1>3, <1>4 DEF ClaimSearch, SearchEnds, GiveUp, AddAnswered, Rollback
  <1>8. ~ReadForGrab(p)
    <2>1. [pass[p] EXCEPT !.pc = "claim", !.prev = req[pass[p].r], !.spent = @ + 1].pc = "claim"
      BY <1>0 DEF PassRow
    <2> QED
      BY <1>4, <1>5, <2>1 DEF ReadForGrab
  <1>9. ASSUME ClaimForGrab(p) PROVE Goal
    <2>1. pass[p].pc = "claim" /\ req[pass[p].r] \in Grabbable /\ Goto(p, "resolve")
      BY <1>4, <1>9 DEF ClaimForGrab
    <2>2. pass'[p].r = pass[p].r
      BY <1>0, <2>1 DEF Goto, PassRow
    <2> QED
      BY <1>9, <2>1, <2>2
  <1>10. ASSUME Resolve(p) PROVE Goal
    <2>1. Holds(p)
      BY <1>10 DEF Resolve, Holds
    <2>2. \/ \E a \in Attempts : Become(p, [pass[p] EXCEPT !.pc = "add", !.a = a])
          \/ \E halt \in BOOLEAN : Become(p, [pass[p] EXCEPT !.pc = "rollback", !.halt = halt])
      BY <1>10 DEF Resolve
    <2>3. pass'[p].r = pass[p].r
      BY <1>0, <2>2 DEF Become, PassRow
    <2> QED
      BY <2>1, <2>3
  <1>11. ASSUME ClientTakes(p) PROVE Goal
    BY <1>0, <1>11 DEF ClientTakes, Holds, PassRow
  <1>12. ASSUME AddFails(p) PROVE Goal
    <2>1. Holds(p)
      BY <1>12 DEF AddFails, Holds, Orderly, TypeInv, SpentOK
    <2>2. pass'[p].r = pass[p].r
      <3>1. ASSUME NEW halt \in BOOLEAN,
                   pass' = [pass EXCEPT ![p].pc = "refuse", ![p].halt = halt, ![p].took = FALSE]
            PROVE  pass'[p].r = pass[p].r
        BY <1>0, <3>1 DEF PassRow
      <3> QED
        BY <1>12, <3>1 DEF AddFails
    <2> QED
      BY <2>1, <2>2
  <1>13. ASSUME Refuse(p) PROVE Goal
    BY <1>0, <1>13 DEF Refuse, Goto, Holds, PassRow
  <1> HIDE DEF Goal
  <1>14. Goal
    BY <1>1, <1>2, <1>6, <1>7, <1>8, <1>9, <1>10, <1>11, <1>12, <1>13, WorkMovers DEF PassStep
  <1> QED
    BY <1>14 DEF Goal

(* A new attempt is the next one, of a request nothing is tied to. *)
LEMMA NewComes ==
  ASSUME Steps, HoldsUntied, NEW c \in Made', c \notin Made
  PROVE  \E r \in Requests :
           /\ att'[c].req = r /\ NextFree(c) /\ Made' = Made \cup {c} /\ Unplaced(c)'
           /\ att'[c].dock = FALSE
           /\ \A b \in Made : Tied(b) => att[b].req # r
  <1> USE DEF Steps
  <1>1. \E p \in Passes : Resolve(p)
    <2> SUFFICES ASSUME \A p \in Passes : ~Resolve(p) PROVE FALSE
      OBVIOUS
    <2>1. CASE Halfway
      <3>1. Keeps
        BY <2>1, HalfwayCalm DEF Prompt, Calmer
      <3> QED
        BY <3>1, KeepsGrows
    <2>2. CASE ~Halfway
      <3>1. Keeps
        BY <2>2, NotHalfway, WholeCalm DEF Calmer
      <3> QED
        BY <3>1, KeepsGrows
    <2> QED
      BY <2>1, <2>2
  <1>2. PICK p \in Passes : Resolve(p)
    BY <1>1
  <1>3. PICK r \in Requests : r = pass[p].r /\ Holds(p) /\ ~Sending(p)
    BY <1>2 DEF Resolve, Holds, Sending, TypeInv, PassOK
  <1>4. c \in Attempts /\ att[c].status = "absent" /\ att'[c].status # "absent"
    BY DEF Made, Attempts
  <1>5. PICK b \in Attempts, s \in {"queued", "failed"} : NewAttempt(p, b, s)
    BY <1>2, <1>4 DEF Resolve
  <1>6. Made' = Made \cup {b} /\ b \notin Made /\ att'[b].req = r
    BY <1>3, <1>5, NewAttemptOK
  <1>7. b = c
    BY <1>6
  <1>8. NextFree(c)
    BY <1>5, <1>7 DEF NewAttempt
  <1>9. Unplaced(c)'
    BY <1>2, <1>4 DEF Core, Entries, Unplaced, Resolve, passFrame
  <1>10. ASSUME NEW d \in Made, Tied(d), att[d].req = r PROVE FALSE
    BY <1>3, <1>10 DEF Tied, Core, HoldsAlone, HoldsUntied
  <1>11. att'[c].dock = FALSE
    BY <1>5, <1>7 DEF NewAttempt, NoAttempt, TypeInv, AttOK
  <1> QED
    BY <1>6, <1>7, <1>8, <1>9, <1>10, <1>11

LEMMA OneTiedOn ==
  ASSUME Steps, CalmTied, HoldsUntied, OneTied
  PROVE  OneTied'
  <1> USE DEF Steps
  <1> SUFFICES ASSUME NEW a \in Made', NEW b \in Made', Tied(a)', Tied(b)', att'[a].req = att'[b].req
               PROVE  a = b
    BY DEF OneTied
  <1>1. ASSUME NEW x \in Made', NEW y \in Made, x \notin Made, Tied(y)', att'[x].req = att'[y].req
        PROVE  FALSE
    BY <1>1, NewComes DEF CalmTied, Grows
  <1>2. CASE a \in Made /\ b \in Made
    BY <1>2 DEF CalmTied, OneTied, Grows
  <1>3. CASE a \notin Made /\ b \notin Made
    BY <1>3, NewComes
  <1> QED
    BY <1>1, <1>2, <1>3

LEMMA DenseOn ==
  ASSUME Steps, HoldsUntied, Dense
  PROVE  Dense'
  <1> USE DEF Steps
  <1> SUFFICES ASSUME NEW a \in Attempts, NEW b \in Attempts, b < a, a \in Made' PROVE b \in Made'
    BY DEF Dense, Attempts
  <1>1. CASE a \in Made
    BY <1>1 DEF Dense, Grows
  <1>2. CASE a \notin Made
    <2>1. NextFree(a)
      BY <1>2, NewComes
    <2>2. b \in 1..(a - 1)
      BY BoundsAssumption DEF Attempts
    <2>3. b \in Made
      BY <2>1, <2>2 DEF NextFree, Made
    <2> QED
      BY <2>3 DEF Grows
  <1> QED
    BY <1>1, <1>2

LEMMA TiedLatestOn ==
  ASSUME Steps, CalmTied, HoldsUntied, Dense, TiedLatest
  PROVE  TiedLatest'
  <1> USE DEF Steps
  <1> SUFFICES ASSUME NEW a \in Made', NEW b \in Made', Tied(a)', att'[a].req = att'[b].req
               PROVE  b <= a
    BY DEF TiedLatest
  <1>0. a \in Nat /\ b \in Nat /\ a \in Attempts /\ b \in Attempts
    BY BoundsAssumption DEF Made, Attempts
  <1>1. CASE a \in Made /\ b \in Made
    BY <1>1 DEF CalmTied, TiedLatest, Grows
  <1>2. CASE a \in Made /\ b \notin Made
    BY <1>2, NewComes DEF CalmTied, Grows
  <1>3. CASE a \notin Made /\ b \in Made
    <2>1. ~(a < b)
      BY <1>0, <1>3 DEF Dense
    <2> QED
      BY <1>0, <2>1
  <1>4. CASE a \notin Made /\ b \notin Made
    <2>1. a = b
      BY <1>4, NewComes
    <2> QED
      BY <1>0, <2>1
  <1> QED
    BY <1>1, <1>2, <1>3, <1>4

LEMMA HoldsUntiedOn ==
  ASSUME Steps, CalmPlaced, PlacedSeat, HoldsUntied
  PROVE  HoldsUntied'
  <1> USE DEF Steps
  <1> SUFFICES ASSUME NEW p \in Passes, NEW a \in Made', Holds(p)', Placed(a)'
               PROVE  att'[a].req # pass'[p].r
    BY DEF HoldsUntied
  <1>1. a \in Made
    BY NewComes DEF Placed, Unplaced
  <1>2. PICK r \in Requests : att[a].req = r /\ att'[a].req = r
    BY <1>1 DEF Grows, TypeInv, AttOK, Made
  <1>3. CASE Placed(a)
    <2>1. ASSUME ClaimForGrab(p), pass[p].r = r, req[r] \in Grabbable PROVE FALSE
      <3>1. pass' # pass
        BY <2>1 DEF ClaimForGrab, NotStarted, Goto, Leave, Become, IdlePass, TypeInv, PassOK, PassRow
      <3>2. Whole
        BY <3>1, WholeOrFrame
      <3>3. ~Declining(r)
        BY <3>2 DEF Whole, Declining
      <3> QED
        BY <1>1, <1>2, <1>3, <2>1, <3>3 DEF PlacedSeat, Seat, FileableFrom, Closed, Grabbable
    <2> QED
      BY <1>1, <1>2, <1>3, <2>1, HoldsComes DEF HoldsUntied
  <1>4. CASE \E i \in Importers : Place(i) /\ import[i].a = a
    <2>1. Importing(a) /\ Engaged(a)
      BY <1>4 DEF Place, Engaged, Importing
    <2>2. ~\E q \in Passes : ClaimForGrab(q)
      <3>1. PICK i \in Importers : import[i].pc = "place" /\ Imported(i)
        BY <1>4 DEF Place
      <3>2. import'[i].pc = "idle"
        BY <3>1, ImportedEffect
      <3> QED
        BY <3>1, <3>2 DEF ClaimForGrab, passFrame, work
    <2>3. Holds(p) /\ pass'[p].r = pass[p].r
      BY <2>2, HoldsComes
    <2>4. ASSUME pass[p].r = r PROVE FALSE
      <3>1. Sending(p) /\ pass[p].a = a
        BY <1>1, <1>2, <2>1, <2>3, <2>4 DEF Core, HoldsAlone
      <3> QED
        BY <2>1, <2>3, <3>1 DEF Core, Added
    <2> QED
      BY <1>2, <2>3, <2>4
  <1> QED
    BY <1>1, <1>3, <1>4 DEF CalmPlaced

LEMMA DoesFile ==
  ASSUME TypeInv, NEW p \in Persons, NEW pc, Does(p, pc)
  PROVE  person'[p].file = person[p].file
  BY DEF Does, TypeInv, PersonOK, PersonRow

(* What is discarded is not placed for long. *)
LEMMA DiscardUnplaces ==
  ASSUME Steps, Recorded, Discarded, Alone, NEW p \in Persons, DiscardAttempt(p),
         NEW a \in Made, a = person[p].a, att[a].status = "needs_review", Placed(a)
  PROVE  ~Placed(a)'
  <1> USE DEF Steps
  <1>1. person[p].pc = "decline" /\ UNCHANGED dock /\ Does(p, "empty")
    BY DEF DiscardAttempt
  <1>2. person[p].op = "discard"
    BY <1>1 DEF Discarded, InDiscard
  <1>3. dock[a] # "filed"
    <2> SUFFICES ASSUME dock[a] = "filed" PROVE FALSE
      OBVIOUS
    <2>1. PICK f \in Filers : filing[f].pc \in {"settle", "mark"} /\ filing[f].a = a
      BY DEF Recorded, Unsettled
    <2>2. f # Moderator
      BY <1>2, <2>1 DEF Alone
    <2>3. f \in Attempts
      BY <2>2 DEF Filers
    <2> QED
      BY <2>1, <2>3 DEF Core, Entries
  <1>4. dock[a] = "placed" /\ ~Emptying(a)
    BY <1>3 DEF Placed
  <1>5. person[p].file = a
    BY <1>1, <1>4 DEF Discarded
  <1>6. person'[p].pc = "empty" /\ person'[p].file = a
    BY <1>1, <1>5, DoesEffect, DoesFile
  <1>7. Emptying(a)'
    BY <1>6 DEF Emptying
  <1> QED
    BY <1>1, <1>4, <1>7 DEF Placed

(* The request of an entry that stays keeps its seat. *)
LEMMA TiedSeatOn ==
  ASSUME Steps, OneTied, HoldsUntied, FailingUnplaced, Recorded, Discarded, Alone,
         NEW a \in Made, Placed(a), Placed(a)',
         NEW S \in {FileableFrom, {"importing"}}, Seat(a, S),
         att[a].status = "needs_review" => "needs_review" \in S
  PROVE  Seat(a, S)'
  <1> USE DEF Steps
  <1>0. PICK r \in Requests : att[a].req = r /\ att'[a].req = r
    BY DEF Grows, TypeInv, AttOK, Made
  <1>1. ASSUME NEW x \in Made, Engaged(x), att[x].req = r PROVE x = a
    BY <1>0, <1>1 DEF OneTied, Tied
  <1>2. CASE req[r] \in Closed
    BY <1>0, <1>2 DEF Stands, Seat
  <1>3. CASE ~Halfway /\ req[r] \in S
    <2>1. Whole
      BY <1>3, NotHalfway
    <2>2. req[r] \in {"grabbed", "downloading", "importing", "needs_review"}
      BY <1>3 DEF FileableFrom
    <2>3. ASSUME NEW i \in Importers, import[i].pc = "claim", att[import[i].a].req = r
          PROVE  FALSE
      <3>1. Engaged(import[i].a) /\ import[i].a \in Made
        BY <2>3 DEF Importing, Engaged, TypeInv, ImportOK
      <3>2. import[i].a = a
        BY <1>1, <2>3, <3>1
      <3> QED
        BY <2>3, <3>2 DEF Core, ImportsFit, Unplaced, Placed
    <2>4. ASSUME NEW p \in Passes, Holds(p), pass[p].r = r PROVE FALSE
      BY <1>0, <2>4 DEF HoldsUntied
    <2>5. \/ req'[r] \in S \cup Closed
          \/ "needs_review" \in S /\ Declining(r)'
      BY <1>3, <2>1, <2>2, <2>3, <2>4, TakenMoves
    <2> QED
      BY <1>0, <2>5 DEF Seat
  <1>4. CASE ~Halfway /\ Declining(r)
    BY <1>4, NotHalfway DEF Whole, Declining
  <1>5. ASSUME NEW x \in Attempts, FailRequest(x) PROVE Seat(a, S)'
    <2>1. x \in failing /\ x \in Made /\ Engaged(x) /\ UNCHANGED person /\ ReqOK
      BY <1>5 DEF FailRequest, TypeInv, FailingOK, Engaged
    <2>2. a # x
      BY <2>1 DEF FailingUnplaced, Unplaced, Placed
    <2>3. att[x].req # r
      BY <1>1, <2>1, <2>2
    <2>4. req'[r] = req[r]
      BY <1>5, <2>1, <2>3 DEF FailRequest, MoveRequest, ReqOK
    <2> QED
      BY <1>0, <2>1, <2>4 DEF Seat, Declining
  <1>6. ASSUME NEW x \in Attempts, PollMoves(x) PROVE Seat(a, S)'
    <2>1. S \in Places
      BY DEF Places
    <2> QED
      BY <1>0, <1>6, <2>1, PollMovesSeat
  <1>7. ASSUME NEW x \in Attempts, NEW from \in {"import", "verify"}, HoldRequest(x, from)
        PROVE  Seat(a, S)'
    <2>1. x \in Made /\ Engaged(x) /\ att[x].status = "needs_review" /\ UNCHANGED person /\ ReqOK
      BY <1>7 DEF HoldRequest, TypeInv, HoldingOK, Engaged, Core, Pending, Unsettled
    <2>2. ~Declining(r)
      BY <1>7 DEF HoldRequest, Core, OneHalf, Declining
    <2>3. UNCHANGED req \/ MoveRequest(att[x].req, WorkerWritable, "needs_review")
      BY <1>7 DEF HoldRequest
    <2>4. CASE a = x
      <3>1. req'[r] \in {req[r], "needs_review"}
        BY <1>0, <2>1, <2>3, <2>4 DEF MoveRequest, UpdateIf, ReqOK
      <3> QED
        BY <1>0, <2>1, <2>2, <2>4, <3>1 DEF Seat
    <2>5. CASE a # x
      <3>1. att[x].req # r
        BY <1>1, <2>1, <2>5
      <3>2. req'[r] = req[r]
        BY <2>1, <2>3, <3>1 DEF MoveRequest, ReqOK
      <3> QED
        BY <1>0, <2>2, <3>2 DEF Seat
    <2> QED
      BY <2>4, <2>5
  <1>8. ASSUME NEW p \in Persons, DiscardAttempt(p) PROVE Seat(a, S)'
    <2>1. PICK x \in Made, q \in Requests :
            /\ x = person[p].a /\ q = person[p].r /\ att[x].req = q
      BY <1>8 DEF DiscardAttempt, TypeInv, PersonOK, Discards
    <2>2. /\ req[q] = "failed"
          /\ \A s \in Requests : BookOf[s] = BookOf[q] => req[s] \notin ActiveRequest
          /\ person[p].pc = "decline" /\ ReqOK
      BY <1>8, <2>1 DEF DiscardAttempt, Core, OneHalf, TypeInv
    <2>3. ~Clash(q, "needs_review")
      BY <2>2 DEF Clash
    <2>4. req' = req \/ req' = [req EXCEPT ![q] = "needs_review"]
      BY <1>8, <2>1, <2>2, <2>3 DEF DiscardAttempt, ReviewAgain, MoveRequest, UpdateIf
    <2>5. Does(p, "empty") \/ Free(p)
      BY <1>8 DEF DiscardAttempt
    <2>6. \A s \in Persons : s # p => person'[s] = person[s]
      BY <2>5, DoesEffect, FreeEffect
    <2>7. CASE q # r
      <3>1. req'[r] = req[r]
        BY <2>2, <2>4, <2>7 DEF ReqOK
      <3>2. Declining(r) => Declining(r)'
        BY <2>1, <2>6, <2>7 DEF Declining
      <3> QED
        BY <1>0, <3>1, <3>2 DEF Seat
    <2>8. CASE q = r
      <3>1. "needs_review" \in S
        BY <1>0, <2>2, <2>8 DEF Seat, FileableFrom, Closed
      <3>2. att[x].status # "needs_review"
        <4> SUFFICES ASSUME att[x].status = "needs_review" PROVE FALSE
          OBVIOUS
        <4>1. x = a
          BY <1>1, <2>1, <2>8 DEF Engaged, Unsettled
        <4> QED
          BY <1>8, <2>1, <4>1, DiscardUnplaces
      <3>3. req' = [req EXCEPT ![q] = "needs_review"]
        BY <1>8, <2>1, <2>2, <2>3, <3>2 DEF DiscardAttempt, ReviewAgain, MoveRequest, UpdateIf
      <3> QED
        BY <1>0, <2>2, <2>8, <3>1, <3>3 DEF Seat, ReqOK
    <2> QED
      BY <2>7, <2>8
  <1>9. \A p \in Persons : ~UndoRequest(p) /\ ~UndoAttempt(p)
    BY DEF Core, Direct, UndoRequest, UndoAttempt
  <1>10. CASE Halfway
    BY <1>5, <1>6, <1>7, <1>8, <1>9, <1>10 DEF Prompt, Completes
  <1>11. CASE ~Halfway
    BY <1>0, <1>2, <1>3, <1>4, <1>11 DEF Seat
  <1> QED
    BY <1>10, <1>11

(* A request whose import is placed or filed is importing, held or closed. *)
LEMMA PlacedSeatOn ==
  ASSUME Steps, CalmPlaced, OneTied, HoldsUntied, FailingUnplaced, Recorded, Discarded, Alone,
         HoldsUntied, PlacedSeat
  PROVE  PlacedSeat'
  <1> USE DEF Steps
  <1> SUFFICES ASSUME NEW a \in Made', Placed(a)' PROVE Seat(a, FileableFrom)'
    BY DEF PlacedSeat
  <1>1. a \in Made
    BY NewComes DEF Placed, Unplaced
  <1>2. CASE Placed(a)
    <2>1. FileableFrom \in {FileableFrom, {"importing"}} /\ "needs_review" \in FileableFrom
      BY DEF FileableFrom
    <2> QED
      BY <1>1, <1>2, <2>1, TiedSeatOn DEF PlacedSeat
  <1>3. CASE \E i \in Importers : Place(i) /\ import[i].a = a /\ UNCHANGED <<req, att>>
    <2>1. PICK i \in Importers : Place(i) /\ import[i].a = a
      BY <1>3
    <2>2. import[i].pc = "place"
      BY <2>1 DEF Place
    <2>3. Seat(a, {"importing"})
      BY <2>1, <2>2 DEF Manned, ImportSeats
    <2>4. req[att[a].req] \in {"importing"} \cup Closed
      BY <2>3 DEF Seat
    <2> QED
      BY <1>3, <2>4 DEF Seat, FileableFrom
  <1> QED
    BY <1>1, <1>2, <1>3 DEF CalmPlaced

(* How a filing goes on: the entry of an attempt is verified and filed, and *)
(* its request and the attempt are settled.                                 *)
FilerGoes(f) ==
  \/ filing'[f] = filing[f]
  \/ filing'[f].pc = "idle"
  \/ f \in Attempts /\ Ingested(f) /\ filing'[f] = [pc |-> "verify", file |-> f, a |-> f]
  \/ f = Moderator /\ \E r \in Requests : FileHeld(r)
  \/ /\ filing'[f].a = filing[f].a /\ filing'[f].file = filing[f].file
     /\ \/ filing[f].pc = "verify" /\ filing'[f].pc = "file"
        \/ /\ filing[f].pc = "file" /\ filing'[f].pc = "settle" /\ FileIntoLibrary(f)
           /\ dock' = [dock EXCEPT ![filing[f].file] = "filed"]
        \/ filing[f].pc = "settle" /\ filing'[f].pc = "mark"

LEMMA EveryFilerGoes ==
  ASSUME Steps, NEW f \in Filers
  PROVE  FilerGoes(f)
  <1> USE DEF Steps
  <1>1. ASSUME filing'[f] = filing[f] PROVE FilerGoes(f)
    BY <1>1 DEF FilerGoes
  <1>2. ASSUME NEW g \in Filers, Filed(g) PROVE FilerGoes(f)
    BY <1>2, FiledEffect DEF FilerGoes
  <1>3. ASSUME NEW g \in Filers, NEW pc, Files(g, pc), g # f PROVE FilerGoes(f)
    BY <1>1, <1>3, FilesEffect
  <1>4. ASSUME NEW a \in Attempts, Ingested(a) PROVE FilerGoes(f)
    <2>1. a \in Filers /\ filing \in [Filers -> FilingRow]
      BY <1>4 DEF Filers, TypeInv, FilingOK
    <2>2. /\ filing'[a] = [pc |-> "verify", file |-> a, a |-> a]
          /\ \A g \in Filers : g # a => filing'[g] = filing[g]
      BY <1>4, <2>1 DEF Ingested
    <2> QED
      BY <1>4, <2>1, <2>2 DEF FilerGoes
  <1>5. ASSUME NEW r \in Requests, FileHeld(r) PROVE FilerGoes(f)
    <2>1. Moderator \in Filers /\ filing \in [Filers -> FilingRow]
      BY DEF Filers, TypeInv, FilingOK
    <2>2. f # Moderator => filing'[f] = filing[f]
      BY <1>5, <2>1 DEF FileHeld
    <2> QED
      BY <1>5, <2>2 DEF FilerGoes
  <1>6. ASSUME NEW a \in Attempts, Verify(a) PROVE FilerGoes(f)
    <2>1. a \in Filers /\ filing[a].pc = "verify"
      BY <1>6 DEF Filers, Verify
    <2>2. CASE Files(a, "file")
      <3>1. a = f => /\ filing'[f].a = filing[f].a /\ filing'[f].file = filing[f].file
                     /\ filing'[f].pc = "file"
        BY <2>1, <2>2, FilesEffect
      <3> QED
        BY <1>3, <2>1, <2>2, <3>1 DEF FilerGoes
    <2> QED
      BY <1>2, <1>6, <2>1, <2>2 DEF Verify
  <1>7. ASSUME NEW g \in Filers, FilingStep(g) PROVE FilerGoes(f)
    <2>1. CASE FileIntoLibrary(g)
      <3>1. \/ Filed(g)
            \/ Files(g, "settle") /\ dock' = [dock EXCEPT ![filing[g].file] = "filed"]
        BY <2>1 DEF FileIntoLibrary
      <3>2. ASSUME g = f, Files(g, "settle") PROVE FilerGoes(f)
        <4>1. /\ filing'[f].a = filing[f].a /\ filing'[f].file = filing[f].file
              /\ filing'[f].pc = "settle" /\ filing[f].pc = "file"
          BY <2>1, <3>2, FilesEffect DEF FileIntoLibrary
        <4>2. ~Filed(f)
          BY <4>1, FiledEffect
        <4> QED
          BY <2>1, <3>1, <3>2, <4>1, <4>2 DEF FilerGoes
      <3> QED
        BY <1>2, <1>3, <3>1, <3>2
    <2>2. CASE Settle(g)
      <3>1. Files(g, "mark") /\ filing[g].pc = "settle"
        BY <2>2 DEF Settle
      <3>2. g = f => /\ filing'[f].a = filing[f].a /\ filing'[f].file = filing[f].file
                     /\ filing'[f].pc = "mark"
        BY <3>1, FilesEffect
      <3> QED
        BY <1>3, <3>1, <3>2 DEF FilerGoes
    <2>3. CASE MarkImported(g)
      BY <1>2, <2>3 DEF MarkImported
    <2> QED
      BY <1>7, <2>1, <2>2, <2>3 DEF FilingStep
  <1> QED
    BY <1>1, <1>4, <1>5, <1>6, <1>7, WorkMovers

(* The request of an import that is chosen waits to be claimed, every other *)
(* import's has been.                                                       *)
LEMMA ImportingSeatOn ==
  ASSUME Steps, ImportingSeat
  PROVE  ImportingSeat'
  <1> USE DEF Steps
  <1> DEFINE Chosen(a) == import["chosen"].pc \in {"extract", "claim"} /\ import["chosen"].a = a
  <1> SUFFICES ASSUME NEW a \in Made', att'[a].status = "importing"
               PROVE  Seat(a, {"importing"})' \/ Chosen(a)'
    BY DEF ImportingSeat
  <1>1. a \in Made /\ a \in Attempts
    BY NewMade DEF Made
  <1>2. PICK r \in Requests : att[a].req = r /\ att'[a].req = r
    BY <1>1 DEF Grows, TypeInv, AttOK, Made
  <1>3. Shift(a, r)
    BY <1>1, <1>2 DEF Shifts
  <1>4. ASSUME Engaged(a), Seat(a, {"importing"}), att[a].status # "needs_review"
        PROVE  Seat(a, {"importing"})'
    <2>1. Engaged(a)' /\ {"importing"} \in Places /\ "importing" \in {"importing"}
      BY DEF Engaged, Unsettled, InFlight, Places
    <2> QED
      BY <1>1, <1>2, <1>4, <2>1, SeatOn
  <1>5. ASSUME att[a].status = "importing", Chosen(a) PROVE Seat(a, {"importing"})' \/ Chosen(a)'
    <2>0. "chosen" \in Importers /\ "queue" \in Importers
      BY DEF Importers
    <2>1. ASSUME import'["chosen"].pc \in {"extract", "claim"}, import'["chosen"].a = a
          PROVE  Chosen(a)'
      BY <2>1
    <2>2. CASE import'["chosen"].pc # "idle"
      <3>1. PICK b \in Made : b = import'["chosen"].a /\ ImportGoes("chosen", b)
        BY <2>0, <2>2, EveryImportGoes
      <3>2. ~ImportChosen(b)
        BY <1>5 DEF ImportChosen
      <3>3. \/ import'["chosen"].pc \in {"extract", "claim"} /\ b = a
            \/ req'[att[b].req] = "importing" /\ b = a
        BY <1>5, <3>1, <3>2 DEF ImportGoes
      <3> QED
        BY <1>2, <2>1, <3>1, <3>3 DEF Seat
    <2>3. CASE import'["chosen"].pc = "idle"
      <3>1. ~UNCHANGED import
        BY <1>5, <2>3
      <3>2. Whole
        BY <3>1, WholeOrFrame
      <3>3. ~StartImport
        <4>1. ASSUME NEW x, Imports("queue", "extract", x) PROVE FALSE
          BY <1>5, <2>0, <2>3, <4>1, ImportsEffect
        <4> QED
          BY <3>1, <4>1 DEF StartImport
      <3>4. \A x \in Attempts : ~ImportChosen(x)
        BY <1>5 DEF ImportChosen
      <3>5. PICK i \in Importers : ImportStep(i)
        BY <3>1, <3>3, <3>4, WorkMovers
      <3>6. i = "chosen"
        <4>1. Imported(i) \/ \E pc, x : Imports(i, pc, x)
          BY <3>5 DEF ImportStep, Extract, ClaimRequest, Link, Place
        <4> QED
          BY <1>5, <2>0, <2>3, <4>1, ImportedEffect, ImportsEffect DEF Importers
      <3>7. \A pc, x : pc # "idle" => ~Imports(i, pc, x)
        BY <2>3, <3>6, ImportsEffect
      <3>8. import[i].a = a /\ import[i].pc \in {"extract", "claim"} /\ AttOK /\ failing = {} /\ holding = {}
        BY <1>5, <3>2, <3>6 DEF TypeInv, Whole
      <3>9. ~Link(i) /\ ~Place(i)
        BY <3>8 DEF Link, Place
      <3>10. ~FailDownload(a)
        BY <1>1, <1>5, <3>8, FailDownloadEffect DEF FailDownload, FailIn, UpdateIf, Unsettled, InFlight
      <3>11. \A units \in BOOLEAN, from \in {"import", "verify"} : ~HoldForReview(a, units, from)
        BY <1>1, <1>5, <3>8, HoldEffect DEF Unsettled, InFlight
      <3>12. ~MoveAttempt(a, Unsettled, "failed")
        BY <1>1, <1>5, <3>8, MoveEffect DEF Unsettled, InFlight
      <3>13. ~Extract(i)
        BY <3>7, <3>8, <3>10, <3>11 DEF Extract
      <3>14. ~ClaimRequest(i)
        BY <3>7, <3>8, <3>10, <3>12 DEF ClaimRequest
      <3> QED
        BY <3>5, <3>9, <3>13, <3>14 DEF ImportStep
    <2> QED
      BY <2>2, <2>3
  <1>6. CASE att[a].status = "importing"
    <2>1. Engaged(a)
      BY <1>6 DEF Engaged, Unsettled, InFlight
    <2> QED
      BY <1>1, <1>4, <1>5, <1>6, <2>1 DEF ImportingSeat
  <1>7. ASSUME NEW i \in Importers, import[i].pc = "link", import[i].a = a
        PROVE  Seat(a, {"importing"})'
    <2>1. Engaged(a) /\ att[a].status # "needs_review"
      BY <1>7 DEF Engaged, Importing, Core, ImportsFit
    <2>2. Seat(a, {"importing"})
      BY <1>7 DEF Manned, ImportSeats
    <2> QED
      BY <1>4, <2>1, <2>2
  <1>8. ASSUME ImportChosen(a) PROVE Chosen(a)'
    BY <1>1, <1>8, ImportsEffect DEF ImportChosen, Importers
  <1> QED
    BY <1>3, <1>6, <1>7, <1>8 DEF Shift, ActiveAttempt

(* The request of an import that is being verified has been claimed for it. *)
LEMMA FilingSeatOn ==
  ASSUME Steps, OneTied, HoldsUntied, FailingUnplaced, Recorded, Discarded, Discarded', Alone,
         ImportingSeat, FilingSeat
  PROVE  FilingSeat'
  <1> USE DEF Steps
  <1> SUFFICES ASSUME NEW a \in Attempts, filing'[a].pc \in {"verify", "file"}, dock'[a] = "placed"
               PROVE  Seat(a, {"importing"})'
    BY DEF FilingSeat
  <1>0. a \in Filers
    BY DEF Filers
  <1>1. CASE Ingested(a)
    <2>1. a \in Made /\ att[a].status = "importing" /\ dock[a] = "placed" /\ UNCHANGED <<rows, person>>
      BY <1>1 DEF Ingested, filingFrame, Made
    <2>2. ~(import["chosen"].pc \in {"extract", "claim"} /\ import["chosen"].a = a)
      BY <2>1 DEF Core, ImportsFit, Unplaced, Importers
    <2>3. Seat(a, {"importing"})
      BY <2>1, <2>2 DEF ImportingSeat
    <2> QED
      BY <2>1, <2>3 DEF Seat, Declining, rows
  <1>2. CASE ~Ingested(a)
    <2>1. filing[a].pc \in {"verify", "file"}
      <3>1. a # Moderator
        BY DEF Attempts, Moderator
      <3> QED
        BY <1>0, <1>2, <3>1, EveryFilerGoes DEF FilerGoes
    <2>2. a \in Made /\ att[a].status # "needs_review"
      BY <1>0, <2>1 DEF TypeInv, FilingOK, Core, Entries
    <2>3. dock[a] = "placed"
      <3>1. ASSUME NEW i \in Importers, Place(i), import[i].a = a PROVE FALSE
        BY <2>1, <3>1 DEF Place, Core, ImportsFit
      <3> QED
        BY <3>1, EveryDockGoes DEF DockGoes, Unplaced
    <2>4. Placed(a)
      BY <2>1, <2>3 DEF Placed, Emptying, Discarded, InDiscard
    <2>5. Placed(a)'
      BY DEF Placed, Emptying, Discarded, InDiscard
    <2>6. Seat(a, {"importing"})
      BY <2>1, <2>3 DEF FilingSeat
    <2> QED
      BY <2>2, <2>4, <2>5, <2>6, TiedSeatOn
  <1> QED
    BY <1>1, <1>2

(* An attempt that fails is not in the Book Dock. *)
LEMMA FailingUnplacedOn ==
  ASSUME Steps, Recorded, Linked, ModeratorHeld, HeldUnplaced, FailingUnplaced
  PROVE  FailingUnplaced'
  <1> USE DEF Steps
  <1> SUFFICES ASSUME NEW a \in failing' PROVE Unplaced(a)'
    BY DEF FailingUnplaced
  <1>1. CASE a \in failing
    <2>1. UNCHANGED dock
      BY <1>1, WholeOrFrame DEF Whole
    <2> QED
      BY <1>1, <2>1 DEF FailingUnplaced, Unplaced
  <1>2. ASSUME a \notin failing, NEW x \in Attempts, FailDownload(x), UNCHANGED dock,
               att[x].status \in Unsettled => Unplaced(x)
        PROVE  Unplaced(a)'
    BY <1>2 DEF FailDownload, FailIn, Unplaced
  <1>3. ASSUME a \notin failing, NEW x \in Attempts, PollFails(x) PROVE Unplaced(a)'
    <2>1. FailDownload(x) /\ UNCHANGED dock /\ poll[x].pc = "asked"
      BY <1>3 DEF PollFails, outside
    <2>2. att[x].status \in Unsettled => Unplaced(x)
      BY <2>1 DEF Core, Polled, Entries, Unsettled, InFlight, ActiveAttempt
    <2> QED
      BY <1>2, <1>3, <2>1, <2>2
  <1>4. ASSUME NEW x \in Attempts, att[x].status \in Unsettled, dock[x] = "filed",
               filing[x].pc # "idle"
        PROVE  \E f \in Filers : filing[f].pc \in {"settle", "mark"} /\ filing[f].a = x /\ f = x
    <2>1. PICK f \in Filers : filing[f].pc \in {"settle", "mark"} /\ filing[f].a = x
      BY <1>4 DEF Recorded, Made, Unsettled, InFlight, ActiveAttempt
    <2>2. f # Moderator
      BY <1>4, <2>1 DEF ModeratorHeld, AtRest, Resting, Core, Entries, Unsettled, InFlight, ActiveAttempt
    <2> QED
      BY <2>1, <2>2 DEF Filers, Core, Entries
  <1>5. ASSUME a \notin failing, NEW x \in Attempts, Verify(x) PROVE Unplaced(a)'
    <2>1. FailDownload(x) /\ UNCHANGED dock /\ filing[x].pc = "verify" /\ dock[x] # "placed"
      BY <1>5 DEF Verify
    <2>2. att[x].status \in Unsettled => Unplaced(x)
      BY <1>4, <2>1 DEF Unplaced, TypeInv, DockOK
    <2> QED
      BY <1>2, <1>5, <2>1, <2>2
  <1>6. ASSUME a \notin failing, NEW x \in Attempts, WatchdogActs(x) PROVE Unplaced(a)'
    <2>1. ~(spent.timeouts < MaxTimeouts)
      BY DEF Orderly, TypeInv, SpentOK
    <2>2. FailDownload(x) /\ UNCHANGED dock /\ ~WorkedOn(x) /\ att[x].status # "needs_review"
      BY <1>6, <2>1 DEF WatchdogActs, outside
    <2>3. ASSUME att[x].status \in Unsettled, ~Unplaced(x) PROVE FALSE
      <3>1. att[x].status = "importing" /\ x \in Made /\ dock[x] \in {"placed", "filed"}
        BY <2>2, <2>3 DEF Core, Entries, Unsettled, InFlight, Made, Unplaced, TypeInv, DockOK
      <3>2. CASE dock[x] = "placed"
        BY <2>2, <3>1, <3>2 DEF Linked, WorkedOn
      <3>3. CASE dock[x] = "filed"
        BY <2>2, <2>3, <3>1, <3>3 DEF Recorded, WorkedOn
      <3> QED
        BY <3>1, <3>2, <3>3
    <2> QED
      BY <1>2, <1>6, <2>2, <2>3
  <1>7. ASSUME a \notin failing, NEW x \in Attempts, NEW from \in {"import", "verify"},
               HoldRequest(x, from)
        PROVE  Unplaced(a)'
    <2>1. UNCHANGED dock /\ <<x, from>> \in holding
      BY <1>7 DEF HoldRequest, outside
    <2>2. FailDownload(x) /\ from = "import"
      BY <1>7 DEF HoldRequest
    <2>3. Unplaced(x)
      BY <2>1, <2>2 DEF HeldUnplaced
    <2> QED
      BY <1>2, <1>7, <2>1, <2>2, <2>3
  <1>8. ASSUME a \notin failing, NEW i \in Importers, ImportStep(i) PROVE Unplaced(a)'
    <2>1. PICK x \in Made : x = import[i].a /\ Unplaced(x)
      BY <1>8, ImportAttempt DEF ImportStep, Extract, ClaimRequest, Link, Place
    <2>2. x \in Attempts
      BY DEF Made
    <2>3. CASE FailDownload(x) /\ UNCHANGED dock
      BY <1>2, <1>8, <2>1, <2>2, <2>3
    <2>4. CASE FailIn(AttemptsWithout(x), x) /\ dock' = [dock EXCEPT ![x] = "none"]
      <3>1. a = x
        BY <1>8, <2>4 DEF FailIn
      <3> QED
        BY <2>2, <2>4, <3>1 DEF Unplaced, TypeInv, DockOK
    <2> QED
      BY <1>8, <2>1, <2>3, <2>4 DEF ImportStep, Extract, ClaimRequest, Link, Place
  <1>9. ASSUME a \notin failing, NEW x \in Attempts, FailRequest(x) PROVE FALSE
    BY <1>9 DEF FailRequest
  <1> QED
    BY <1>1, <1>3, <1>5, <1>6, <1>7, <1>8, <1>9, WorkMovers

(* Nor is one that an import holds. *)
LEMMA HeldUnplacedOn ==
  ASSUME Steps, HeldUnplaced
  PROVE  HeldUnplaced'
  <1> USE DEF Steps
  <1> SUFFICES ASSUME NEW x \in holding', x[2] = "import" PROVE Unplaced(x[1])'
    BY DEF HeldUnplaced
  <1>1. CASE x \in holding
    <2>1. UNCHANGED dock
      BY <1>1, WholeOrFrame DEF Whole
    <2> QED
      BY <1>1, <2>1 DEF HeldUnplaced, Unplaced
  <1>2. ASSUME x \notin holding, NEW b, NEW units, HoldForReview(b, units, "verify") PROVE FALSE
    BY <1>2 DEF HoldForReview
  <1>3. ASSUME x \notin holding, NEW i \in Importers, Extract(i) PROVE Unplaced(x[1])'
    <2>1. PICK a \in Made : a = import[i].a /\ Unplaced(a)
      BY <1>3, ImportAttempt DEF Extract
    <2>2. PICK units : HoldForReview(a, units, "import") /\ UNCHANGED dock
      BY <1>3, <2>1 DEF Extract
    <2>3. x = <<a, "import">>
      BY <1>3, <2>2 DEF HoldForReview
    <2> QED
      BY <2>1, <2>2, <2>3 DEF Unplaced
  <1>4. ASSUME x \notin holding, NEW a \in Attempts, Verify(a) PROVE FALSE
    BY <1>2, <1>4 DEF Verify
  <1>5. ASSUME x \notin holding, NEW f \in Filers, FileIntoLibrary(f) PROVE FALSE
    BY <1>2, <1>5 DEF FileIntoLibrary
  <1>6. ASSUME x \notin holding, NEW a, NEW from, HoldRequest(a, from) PROVE FALSE
    BY <1>6 DEF HoldRequest
  <1> QED
    BY <1>1, <1>3, <1>4, <1>5, <1>6, WorkMovers

(* A filing that has put its entry in the library ends by settling its      *)
(* attempt.                                                                 *)
LEMMA FilerEnds ==
  ASSUME Steps, NEW f \in Filers, filing[f].pc \in {"settle", "mark"}, filing'[f].pc = "idle"
  PROVE  MarkImported(f)
  <1> USE DEF Steps
  <1>1. ASSUME NEW g \in Filers, Filed(g) PROVE f = g
    BY <1>1, FiledEffect
  <1>2. ASSUME NEW g \in Filers, NEW pc \in {"file", "settle", "mark"}, Files(g, pc) PROVE FALSE
    BY <1>2, FilesEffect
  <1>3. ASSUME NEW a \in Attempts, Ingested(a) \/ Verify(a) PROVE FALSE
    <2>1. a \in Filers
      BY DEF Filers
    <2>2. CASE Ingested(a)
      BY <2>1, <2>2 DEF Ingested, TypeInv, FilingOK
    <2>3. CASE Verify(a)
      BY <1>1, <1>2, <2>1, <2>3 DEF Verify
    <2> QED
      BY <1>3, <2>2, <2>3
  <1>4. ASSUME NEW r \in Requests, FileHeld(r) PROVE FALSE
    BY <1>4 DEF FileHeld, TypeInv, FilingOK
  <1>5. ASSUME NEW g \in Filers, FilingStep(g) PROVE MarkImported(f)
    <2>1. ~Settle(g)
      BY <1>2 DEF Settle
    <2>2. ~FileIntoLibrary(g)
      BY <1>1, <1>2 DEF FileIntoLibrary
    <2>3. MarkImported(g)
      BY <1>5, <2>1, <2>2 DEF FilingStep
    <2>4. f = g
      BY <1>1, <2>3 DEF MarkImported
    <2> QED
      BY <2>3, <2>4
  <1> QED
    BY <1>3, <1>4, <1>5, WorkMovers

(* Whoever filed an attempt that is not settled goes on to settle it. *)
LEMMA RecordedOn ==
  ASSUME Steps, HoldsUntied, OwnFile, FailingUnplaced, Recorded
  PROVE  Recorded'
  <1> USE DEF Steps
  <1> SUFFICES ASSUME NEW a \in Made', dock'[a] = "filed", att'[a].status \in Unsettled
               PROVE  \E f \in Filers : filing'[f].pc \in {"settle", "mark"} /\ filing'[f].a = a
    BY DEF Recorded
  <1>1. a \in Made /\ a \in Attempts
    BY NewComes DEF Made, Unplaced
  <1>2. ASSUME NEW f \in Filers, FileIntoLibrary(f), filing[f].file = a, dock[a] = "placed"
        PROVE  filing'[f].pc = "settle" /\ filing'[f].a = a
    <2>1. filing[f].a = a
      BY <1>2 DEF FileIntoLibrary, OwnFile
    <2>2. Files(f, "settle")
      BY <1>2 DEF FileIntoLibrary
    <2> QED
      BY <2>1, <2>2, FilesEffect
  <1>3. ASSUME dock[a] = "filed"
        PROVE  \E f \in Filers : filing'[f].pc \in {"settle", "mark"} /\ filing'[f].a = a
    <2>1. ~Importing(a) /\ a \notin failing
      BY <1>3 DEF Importing, Core, ImportsFit, FailingUnplaced, Unplaced
    <2>2. Engaged(a)'
      BY DEF Engaged
    <2>3. att[a].status \in Unsettled
      BY <1>1, <2>1, <2>2 DEF CalmMade, Engaged
    <2>4. PICK f \in Filers : filing[f].pc \in {"settle", "mark"} /\ filing[f].a = a
      BY <1>1, <1>3, <2>3 DEF Recorded
    <2>5. ~MarkImported(f)
      <3> SUFFICES ASSUME MarkImported(f) PROVE FALSE
        OBVIOUS
      <3>1. MoveAttempt(a, Unsettled, "imported") /\ AttOK
        BY <2>4 DEF MarkImported, TypeInv
      <3> QED
        BY <1>1, <2>3, <3>1, MoveEffect DEF Unsettled, InFlight, ActiveAttempt
    <2>6. filing'[f].pc # "idle"
      BY <2>4, <2>5, FilerEnds
    <2>7. ~(\E r \in Requests : FileHeld(r) /\ f = Moderator) /\ (f \in Attempts => ~Ingested(f))
      BY <2>4 DEF FileHeld, Ingested
    <2>8. filing'[f].pc \in {"settle", "mark"} /\ filing'[f].a = a
      BY <2>4, <2>6, <2>7, EveryFilerGoes DEF FilerGoes
    <2> QED
      BY <2>8
  <1>4. DockGoes(a)
    BY <1>1, EveryDockGoes
  <1> QED
    BY <1>2, <1>3, <1>4 DEF DockGoes, Unplaced

(* What the updates leave of an attempt. *)
LEMMA MoveLinks ==
  ASSUME AttOK, NEW x \in Attempts, NEW e, NEW s, MoveAttempt(x, e, s)
  PROVE  \A b \in Attempts : att'[b].dock = att[b].dock /\ att'[b].units = att[b].units
  BY DEF AttOK, AttemptRow, MoveAttempt

LEMMA FailLinks ==
  ASSUME NEW table \in [Attempts -> AttemptRow], NEW x \in Attempts, FailIn(table, x)
  PROVE  \A b \in Attempts : att'[b].dock = table[b].dock /\ att'[b].units = table[b].units
  BY DEF AttemptRow, FailIn

LEMMA HoldLinks ==
  ASSUME AttOK, NEW x \in Attempts, NEW units, NEW from, HoldForReview(x, units, from)
  PROVE  \A b \in Attempts : /\ att'[b].dock = att[b].dock
                             /\ att'[b].units = att[b].units \/ (b = x /\ att'[b].units = units)
  BY DEF AttOK, AttemptRow, HoldForReview

LEMMA WithoutLinks ==
  ASSUME AttOK, NEW x \in Attempts
  PROVE  /\ AttemptsWithout(x) \in [Attempts -> AttemptRow]
         /\ \A b \in Attempts : /\ AttemptsWithout(x)[b].dock = (b # x /\ att[b].dock)
                                /\ AttemptsWithout(x)[b].units = att[b].units
  BY DEF AttOK, AttemptRow, AttemptsWithout

(* What becomes of the link of an attempt to its entry, and of its list of  *)
(* books.                                                                   *)
Unlinks(a) ==
  \/ \E i \in Importers : Place(i) /\ import[i].a = a /\ dock'[a] = "none"
  \/ \E f \in Filers : FileIntoLibrary(f) /\ filing[f].file = a /\ dock[a] = "placed"
                       /\ dock'[a] = "filed"
  \/ \E p \in Persons : Empty(p) /\ person[p].file = a /\ dock'[a] = "none"
  \/ DockEmptied(a)
LinkGoes(a) ==
  /\ \/ att'[a].dock = att[a].dock
     \/ att'[a].dock = TRUE /\ \E i \in Importers : Link(i) /\ import[i].a = a
     \/ att'[a].dock = FALSE /\ Unlinks(a)
  /\ \/ att'[a].units = att[a].units
     \/ att'[a].units = FALSE
     \/ \E i \in Importers : Extract(i) /\ import[i].a = a

LEMMA ImportLinkGoes ==
  ASSUME TypeInv, Core, NEW i \in Importers, ImportStep(i), NEW a \in Made
  PROVE  LinkGoes(a)
  <1>1. PICK x \in Made : x = import[i].a
    BY ImportAttempt DEF ImportStep, Extract, ClaimRequest, Link, Place
  <1>2. x \in Attempts /\ a \in Attempts /\ AttOK /\ att \in [Attempts -> AttemptRow] /\ DockOK
    BY DEF Made, TypeInv, AttOK
  <1>3. CASE Extract(i)
    <2>1. ASSUME NEW units \in BOOLEAN, HoldForReview(x, units, "import") PROVE LinkGoes(a)
      BY <1>1, <1>2, <1>3, <2>1, HoldLinks DEF LinkGoes
    <2>2. ASSUME FailDownload(x) PROVE LinkGoes(a)
      BY <1>2, <2>2, FailLinks DEF LinkGoes, FailDownload
    <2>3. CASE UNCHANGED att
      BY <2>3 DEF LinkGoes
    <2> QED
      BY <1>1, <1>3, <2>1, <2>2, <2>3 DEF Extract
  <1>4. CASE ClaimRequest(i)
    <2>1. FailDownload(x) \/ MoveAttempt(x, Unsettled, "failed") \/ UNCHANGED att
      BY <1>1, <1>4 DEF ClaimRequest
    <2> QED
      BY <1>2, <2>1, FailLinks, MoveLinks DEF LinkGoes, FailDownload
  <1>5. CASE Link(i)
    BY <1>1, <1>2, <1>5 DEF LinkGoes, Link, AttemptRow
  <1>6. CASE Place(i)
    <2>1. CASE UNCHANGED att
      BY <2>1 DEF LinkGoes
    <2>2. CASE /\ dock' = [dock EXCEPT ![x] = "none"]
               /\ \A b \in Attempts : /\ att'[b].dock = AttemptsWithout(x)[b].dock
                                      /\ att'[b].units = AttemptsWithout(x)[b].units
      <3>1. att'[a].dock = (a # x /\ att[a].dock) /\ att'[a].units = att[a].units
        BY <1>2, <2>2, WithoutLinks
      <3>2. dock'[x] = "none"
        BY <1>2, <2>2 DEF DockOK
      <3>3. CASE a = x
        BY <1>1, <1>6, <3>1, <3>2, <3>3 DEF LinkGoes, Unlinks
      <3>4. CASE a # x
        <4>1. att[a].dock \in BOOLEAN
          BY <1>2 DEF AttemptRow
        <4> QED
          BY <3>1, <3>4, <4>1 DEF LinkGoes
      <3> QED
        BY <3>3, <3>4
    <2>3. ASSUME FailIn(AttemptsWithout(x), x), dock' = [dock EXCEPT ![x] = "none"]
          PROVE  LinkGoes(a)
      BY <1>2, <2>2, <2>3, FailLinks, WithoutLinks
    <2>4. ASSUME att' = [AttemptsWithout(x) EXCEPT ![x].status = UpdateIf(@, Unsettled, "failed")],
                 dock' = [dock EXCEPT ![x] = "none"]
          PROVE  LinkGoes(a)
      BY <1>2, <2>2, <2>4, WithoutLinks DEF AttemptRow
    <2> QED
      BY <1>1, <1>6, <2>1, <2>3, <2>4 DEF Place
  <1> QED
    BY <1>3, <1>4, <1>5, <1>6 DEF ImportStep

LEMMA EveryLinkGoes ==
  ASSUME Steps, NEW a \in Made
  PROVE  LinkGoes(a)
  <1> USE DEF Steps
  <1>1. a \in Attempts /\ AttOK /\ att \in [Attempts -> AttemptRow] /\ att[a].dock \in BOOLEAN /\ DockOK
    BY DEF Made, TypeInv, AttOK, AttemptRow
  <1>2. ASSUME NEW x \in Attempts, NEW e, NEW s, MoveAttempt(x, e, s) PROVE LinkGoes(a)
    BY <1>1, <1>2, MoveLinks DEF LinkGoes
  <1>3. ASSUME NEW x \in Attempts, FailDownload(x) PROVE LinkGoes(a)
    BY <1>1, <1>3, FailLinks DEF LinkGoes, FailDownload
  <1>4. ASSUME NEW x \in Attempts, HoldForReview(x, FALSE, "verify") PROVE LinkGoes(a)
    <2>1. \A b \in Attempts : /\ att'[b].dock = att[b].dock
                              /\ att'[b].units = att[b].units \/ (b = x /\ att'[b].units = FALSE)
      BY <1>1, <1>4, HoldLinks
    <2> QED
      BY <1>1, <2>1 DEF LinkGoes
  <1>5. ASSUME NEW x \in Attempts, x = a => Unlinks(a), att' = AttemptsWithout(x) PROVE LinkGoes(a)
    BY <1>1, <1>5, WithoutLinks DEF LinkGoes
  <1>6. ASSUME NEW p \in Passes, Resolve(p) \/ Refuse(p) PROVE LinkGoes(a)
    <2>1. ASSUME Resolve(p) PROVE att'[a] = att[a]
      BY <1>1, <2>1 DEF Resolve, NewAttempt, NextFree, Made
    <2>2. ASSUME Refuse(p) PROVE att'[a].dock = att[a].dock /\ att'[a].units = att[a].units
      BY <1>1, <2>2 DEF Refuse, AttemptRow
    <2> QED
      BY <1>6, <2>1, <2>2 DEF LinkGoes
  <1>7. ASSUME NEW x \in Attempts,
               \/ PollFails(x) \/ PollReports(x) \/ ImportChosen(x) \/ Verify(x)
               \/ WatchdogActs(x)
        PROVE  LinkGoes(a)
    <2>1. ASSUME Verify(x) PROVE LinkGoes(a)
      <3>1. FailDownload(x) \/ HoldForReview(x, FALSE, "verify") \/ UNCHANGED att
        BY <2>1 DEF Verify
      <3> QED
        BY <1>3, <1>4, <3>1 DEF LinkGoes
    <2> QED
      BY <1>2, <1>3, <1>7, <2>1 DEF PollFails, PollReports, ImportChosen, WatchdogActs
  <1>8. ASSUME NEW x \in Attempts, DockEmptied(x) PROVE LinkGoes(a)
    BY <1>5, <1>8 DEF DockEmptied, Unlinks
  <1>9. ASSUME NEW x \in Attempts, NEW from, HoldRequest(x, from) PROVE LinkGoes(a)
    <2>1. FailDownload(x) \/ UNCHANGED att
      BY <1>9 DEF HoldRequest
    <2> QED
      BY <1>3, <2>1 DEF LinkGoes
  <1>10. ASSUME NEW f \in Filers, FileIntoLibrary(f) \/ MarkImported(f) PROVE LinkGoes(a)
    <2>1. PICK x \in Made, y \in Attempts : filing[f].a = x /\ filing[f].file = y /\ x \in Attempts
      BY <1>10 DEF FileIntoLibrary, MarkImported, TypeInv, FilingOK, Made
    <2>2. ASSUME FileIntoLibrary(f), dock[y] = "placed", dock' = [dock EXCEPT ![y] = "filed"],
                 att' = AttemptsWithout(y)
          PROVE  LinkGoes(a)
      <3>1. dock'[y] = "filed"
        BY <1>1, <2>2 DEF DockOK
      <3> QED
        BY <1>5, <2>1, <2>2, <3>1 DEF Unlinks
    <2>3. ASSUME FileIntoLibrary(f) PROVE LinkGoes(a)
      <3>1. \/ /\ dock[y] = "placed" /\ dock' = [dock EXCEPT ![y] = "filed"]
               /\ att' = AttemptsWithout(y)
            \/ UNCHANGED att
            \/ HoldForReview(x, FALSE, "verify")
        BY <2>1, <2>3 DEF FileIntoLibrary
      <3> QED
        BY <1>4, <2>1, <2>2, <2>3, <3>1 DEF LinkGoes
    <2> QED
      BY <1>2, <1>10, <2>1, <2>3 DEF MarkImported
  <1>11. ASSUME NEW p \in Persons,
                FailAttempt(p) \/ SweepAttempts(p) \/ DiscardAttempt(p) \/ UndoAttempt(p) \/ Empty(p)
         PROVE  LinkGoes(a)
    <2>1. person[p].pc \in {"fail", "decline", "restore"} => person[p].a \in Attempts
      BY DEF TypeInv, PersonOK, Made
    <2>2. ASSUME FailAttempt(p) \/ DiscardAttempt(p) \/ UndoAttempt(p) PROVE LinkGoes(a)
      BY <1>2, <2>1, <2>2 DEF FailAttempt, DiscardAttempt, UndoAttempt
    <2>3. ASSUME SweepAttempts(p) PROVE LinkGoes(a)
      BY <1>1, <2>3 DEF SweepAttempts, LinkGoes, AttemptRow
    <2>4. ASSUME Empty(p) PROVE LinkGoes(a)
      <3>1. person[p].file \in Attempts \cup {None}
        BY DEF TypeInv, PersonOK, PersonRow
      <3>2. \/ UNCHANGED att
            \/ /\ person[p].file # None /\ dock' = [dock EXCEPT ![person[p].file] = "none"]
               /\ att' = AttemptsWithout(person[p].file)
        BY <2>4 DEF Empty
      <3>3. ASSUME NEW y \in Attempts, person[p].file = y, dock' = [dock EXCEPT ![y] = "none"],
                   att' = AttemptsWithout(y)
            PROVE  LinkGoes(a)
        <4>1. dock'[y] = "none"
          BY <1>1, <3>3 DEF DockOK
        <4> QED
          BY <1>5, <2>4, <3>3, <4>1 DEF Unlinks
      <3> QED
        BY <3>1, <3>2, <3>3 DEF LinkGoes
    <2> QED
      BY <1>11, <2>2, <2>3, <2>4
  <1>12. CASE UNCHANGED att
    BY <1>12 DEF LinkGoes
  <1> QED
    BY <1>6, <1>7, <1>8, <1>9, <1>10, <1>11, <1>12, ImportLinkGoes, AttMovers

(* A running import changes by its own steps. *)
LEMMA ImportStays ==
  ASSUME Steps, NEW i \in Importers, import[i].pc # "idle"
  PROVE  import'[i] = import[i] \/ ImportStep(i)
  <1> USE DEF Steps
  <1>0. "queue" \in Importers /\ "chosen" \in Importers
    BY DEF Importers
  <1>1. CASE StartImport
    <2>1. UNCHANGED import \/ Imports("queue", "extract", Head(queue))
      BY <1>1 DEF StartImport
    <2>2. i # "queue"
      BY <1>1 DEF StartImport
    <2> QED
      BY <1>0, <2>1, <2>2, ImportsEffect
  <1>2. ASSUME NEW a \in Attempts, ImportChosen(a) PROVE import'[i] = import[i]
    BY <1>0, <1>2, ImportsEffect DEF ImportChosen
  <1>3. ASSUME NEW j \in Importers, ImportStep(j) PROVE import'[i] = import[i] \/ ImportStep(i)
    <2>1. Imported(j) \/ (\E pc, x : Imports(j, pc, x))
      BY <1>3 DEF ImportStep, Extract, ClaimRequest, Link, Place
    <2>2. j # i => import'[i] = import[i]
      BY <2>1, ImportedEffect, ImportsEffect
    <2>3. CASE j = i
      BY <1>3, <2>3
    <2> QED
      BY <2>2, <2>3
  <1> QED
    BY <1>1, <1>2, <1>3, WorkMovers

LEMMA StageKeeps ==
  ASSUME Steps, NEW i \in Importers, import[i].pc \in {"link", "place"}
  PROVE  import'[i] = import[i] \/ Link(i) \/ Place(i)
  BY ImportStays DEF ImportStep, Extract, ClaimRequest

(* An import comes to link an entry when it has claimed its request, to     *)
(* place it when it has linked it.                                          *)
LEMMA StageComes ==
  ASSUME Steps, NEW i \in Importers, import'[i].pc \in {"link", "place"}
  PROVE  \/ import'[i] = import[i]
         \/ Link(i) /\ import'[i].pc = "place" /\ import'[i].a = import[i].a
         \/ ClaimRequest(i) /\ import'[i].pc = "link" /\ import'[i].a = import[i].a
  <1> USE DEF Steps
  <1>1. PICK a \in Made : a = import'[i].a /\ ImportGoes(i, a)
    BY EveryImportGoes
  <1>2. CASE import[i].pc = "claim" /\ import'[i].pc = "link" /\ import[i].a = a
    BY <1>1, <1>2, ImportStays DEF ImportStep, Extract, Link, Place
  <1>3. CASE import[i].pc = "link" /\ import'[i].pc = "place" /\ import[i].a = a
    BY <1>1, <1>3, ImportStays DEF ImportStep, Extract, ClaimRequest, Place
  <1> QED
    BY <1>1, <1>2, <1>3 DEF ImportGoes

(* Nothing refers to an entry that goes. *)
Forgotten(a) == att'[a].dock = FALSE /\ \A r \in Requests : pointer'[r] # a

LEMMA Forgets ==
  ASSUME AttOK, NEW a \in Attempts, pointer' = PointersWithout(a), NEW table,
         table = AttemptsWithout(a), att'[a].dock = table[a].dock
  PROVE  Forgotten(a)
  <1>1. a # None
    BY DEF Attempts, None
  <1>2. table[a].dock = FALSE
    BY WithoutLinks
  <1> QED
    BY <1>1, <1>2 DEF Forgotten, PointersWithout

LEMMA Dropped ==
  ASSUME Steps, NEW a \in Made, dock[a] = "placed", dock'[a] # "placed"
  PROVE  Forgotten(a)
  <1> USE DEF Steps
  <1>1. a \in Attempts /\ AttOK /\ DockOK
    BY DEF Made, TypeInv
  <1>2. ASSUME pointer' = PointersWithout(a), att' = AttemptsWithout(a) PROVE Forgotten(a)
    BY <1>1, <1>2, Forgets
  <1>3. ASSUME NEW i \in Importers, Extract(i) \/ ClaimRequest(i) \/ Place(i) PROVE FALSE
    <2>1. PICK x \in Made : x = import[i].a /\ Unplaced(x)
      BY <1>3, ImportAttempt DEF Extract, ClaimRequest, Place
    <2>2. UNCHANGED dock \/ \E s : dock' = [dock EXCEPT ![x] = s]
      BY <1>3, <2>1 DEF Extract, ClaimRequest, Place
    <2>3. x # a
      BY <2>1 DEF Unplaced
    <2> QED
      BY <1>1, <2>2, <2>3 DEF DockOK
  <1>4. ASSUME NEW f \in Filers, FileIntoLibrary(f) PROVE Forgotten(a)
    <2>1. filing[f].file = a
      BY <1>1, <1>4 DEF FileIntoLibrary, DockOK
    <2> QED
      BY <1>2, <1>4, <2>1 DEF FileIntoLibrary
  <1>5. ASSUME NEW p \in Persons, Empty(p) PROVE Forgotten(a)
    <2>1. person[p].file = a
      BY <1>1, <1>5 DEF Empty, DockOK
    <2> QED
      BY <1>2, <1>5, <2>1 DEF Empty
  <1>6. ASSUME NEW x \in Attempts, DockEmptied(x) PROVE Forgotten(a)
    BY <1>1, <1>2, <1>6 DEF DockEmptied, DockOK
  <1>7. ASSUME (\E f \in Filers : Settle(f)) \/ (\E p \in Persons : Close(p)) PROVE FALSE
    BY <1>7 DEF Settle, Close
  <1> QED
    BY <1>3, <1>4, <1>5, <1>6, <1>7, EntryMovers

LEMMA PlaceEnds ==
  ASSUME Steps, NEW i \in Importers, Place(i), NEW a \in Made, import[i].a = a
  PROVE  dock'[a] = "placed" \/ Forgotten(a)
  <1> USE DEF Steps
  <1>1. a \in Attempts /\ AttOK /\ DockOK
    BY DEF Made, TypeInv
  <1>2. CASE dock' = [dock EXCEPT ![a] = "placed"]
    BY <1>1, <1>2 DEF DockOK
  <1>3. ASSUME FailIn(AttemptsWithout(a), a), pointer' = PointersWithout(a) PROVE Forgotten(a)
    <2>1. AttemptsWithout(a) \in [Attempts -> AttemptRow]
      BY <1>1, WithoutLinks
    <2> QED
      BY <1>1, <1>3, <2>1, FailLinks, Forgets
  <1>4. ASSUME att' = [AttemptsWithout(a) EXCEPT ![a].status = UpdateIf(@, Unsettled, "failed")],
               pointer' = PointersWithout(a)
        PROVE  Forgotten(a)
    <2>1. AttemptsWithout(a) \in [Attempts -> AttemptRow]
      BY <1>1, WithoutLinks
    <2>2. att'[a].dock = AttemptsWithout(a)[a].dock
      BY <1>1, <1>4, <2>1 DEF AttemptRow
    <2> QED
      BY <1>1, <1>4, <2>2, Forgets
  <1> QED
    BY <1>2, <1>3, <1>4 DEF Place

(* What becomes of the pointer of a request. *)
PointerGoes(r) ==
  \/ pointer'[r] = pointer[r]
  \/ pointer'[r] = None
  \/ \E i \in Importers, b \in Made :
       /\ import[i].pc = "claim" /\ import[i].a = b /\ att[b].req = r
       /\ import'[i] = [pc |-> "link", a |-> b] /\ pointer'[r] = b

LEMMA EveryPointerGoes ==
  ASSUME Steps, NEW r \in Requests
  PROVE  PointerGoes(r)
  <1> USE DEF Steps
  <1>1. PointerOK /\ AttOK
    BY DEF TypeInv
  <1>2. ASSUME NEW x, pointer' = PointersWithout(x) PROVE PointerGoes(r)
    BY <1>2 DEF PointersWithout, PointerGoes
  <1>3. ASSUME NEW q \in Requests, pointer' = [pointer EXCEPT ![q] = None] PROVE PointerGoes(r)
    BY <1>1, <1>3 DEF PointerGoes, PointerOK
  <1>4. CASE UNCHANGED pointer
    BY <1>4 DEF PointerGoes
  <1>5. ASSUME NEW i \in Importers, ClaimRequest(i) PROVE PointerGoes(r)
    <2>1. PICK b \in Made : b = import[i].a
      BY <1>5, ImportAttempt DEF ClaimRequest
    <2>2. import[i].pc = "claim" /\ att[b].req \in Requests
      BY <1>1, <1>5 DEF ClaimRequest, AttOK, Made
    <2>3. \/ UNCHANGED pointer
          \/ /\ pointer' = [pointer EXCEPT ![att[b].req] = b] /\ Imports(i, "link", b)
      BY <1>5, <2>1 DEF ClaimRequest
    <2>4. Imports(i, "link", b) => import'[i] = [pc |-> "link", a |-> b]
      BY DEF Imports, TypeInv, ImportOK
    <2> QED
      BY <1>1, <1>4, <2>1, <2>2, <2>3, <2>4 DEF PointerGoes, PointerOK
  <1>6. ASSUME NEW i \in Importers, Extract(i) \/ Place(i) PROVE PointerGoes(r)
    BY <1>2, <1>4, <1>6 DEF Extract, Place
  <1>7. ASSUME NEW f \in Filers, FileIntoLibrary(f) \/ Settle(f) PROVE PointerGoes(r)
    <2>1. ASSUME Settle(f) PROVE PointerGoes(r)
      <3>1. att[filing[f].a].req \in Requests
        BY <1>1, <2>1 DEF Settle, TypeInv, FilingOK, AttOK, Made
      <3> QED
        BY <1>3, <1>4, <2>1, <3>1 DEF Settle
    <2> QED
      BY <1>2, <1>4, <1>7, <2>1 DEF FileIntoLibrary
  <1>8. ASSUME NEW p \in Persons, Close(p) \/ Empty(p) PROVE PointerGoes(r)
    <2>1. ASSUME Close(p) PROVE PointerGoes(r)
      <3>1. person[p].r \in Requests
        BY <2>1 DEF Close, TypeInv, PersonOK
      <3> QED
        BY <1>3, <1>4, <2>1, <3>1 DEF Close
    <2> QED
      BY <1>2, <1>4, <1>8, <2>1 DEF Empty
  <1>9. ASSUME NEW a \in Attempts, DockEmptied(a) PROVE PointerGoes(r)
    BY <1>2, <1>9 DEF DockEmptied
  <1> QED
    BY <1>4, <1>5, <1>6, <1>7, <1>8, <1>9, EntryMovers

(* An attempt is linked to its entry while it is placed.                    *)
LEMMA LinkedOn ==
  ASSUME Steps, HoldsUntied, Discarded, Linked
  PROVE  Linked'
  <1> USE DEF Steps
  <1> DEFINE At(a) == AtStage(a, {"place"})
  <1> SUFFICES ASSUME NEW a \in Made'
               PROVE  att'[a].dock <=> (dock'[a] = "placed" \/ At(a)')
    BY DEF Linked
  <1>1. CASE a \notin Made
    <2>1. att'[a].dock = FALSE /\ Unplaced(a)'
      BY <1>1, NewComes
    <2>2. ~At(a)'
      BY <1>1, EveryImportGoes DEF AtStage
    <2> QED
      BY <2>1, <2>2 DEF Unplaced
  <1>2. CASE a \in Made /\ \E i \in Importers : Link(i) /\ import[i].a = a
    <2>1. PICK i \in Importers : Link(i) /\ import[i].a = a
      BY <1>2
    <2>2. att'[a].dock = TRUE
      BY <1>2, <2>1 DEF Link, TypeInv, AttOK, AttemptRow, Made
    <2>3. import'[i].pc = "place" /\ import'[i].a = a
      BY <2>1, ImportsEffect DEF Link
    <2> QED
      BY <2>2, <2>3 DEF AtStage
  <1>3. ASSUME a \in Made, \A i \in Importers : ~(Link(i) /\ import[i].a = a)
        PROVE  att'[a].dock <=> (dock'[a] = "placed" \/ At(a)')
    <2>a. a \in Attempts /\ att[a].dock \in BOOLEAN
      BY <1>3 DEF Made, TypeInv, AttOK, AttemptRow
    <2>b. LinkGoes(a) /\ DockGoes(a)
      BY <1>3, <2>a, EveryLinkGoes, EveryDockGoes
    <2>c. att'[a].dock \in BOOLEAN
      BY <2>a, <2>b DEF LinkGoes
    <2>d. att[a].dock <=> (dock[a] = "placed" \/ At(a))
      BY <1>3 DEF Linked
    <2>0. /\ a \in Attempts /\ LinkGoes(a) /\ DockGoes(a)
          /\ att[a].dock <=> (dock[a] = "placed" \/ At(a))
          /\ att[a].dock \in BOOLEAN /\ att'[a].dock \in BOOLEAN
      BY <2>a, <2>b, <2>c, <2>d
    <2>1. ASSUME att'[a].dock = TRUE PROVE dock'[a] = "placed" \/ At(a)'
      <3>1. att[a].dock = TRUE
        BY <1>3, <2>0, <2>1 DEF LinkGoes
      <3>2. CASE dock[a] = "placed"
        BY <1>3, <2>1, <3>2, Dropped DEF Forgotten
      <3>3. CASE At(a)
        <4>1. PICK i \in Importers : import[i].pc = "place" /\ import[i].a = a
          BY <3>3 DEF AtStage
        <4>2. CASE import'[i] = import[i]
          BY <4>1, <4>2 DEF AtStage
        <4>3. CASE Place(i)
          BY <1>3, <2>1, <4>1, <4>3, PlaceEnds DEF Forgotten
        <4> QED
          BY <1>3, <4>1, <4>2, <4>3, StageKeeps
      <3> QED
        BY <2>0, <3>1, <3>2, <3>3
    <2>2. ASSUME dock'[a] = "placed" PROVE att'[a].dock = TRUE
      <3>1. ~Unlinks(a)
        <4>1. DockEmptied(a) => dock'[a] = "none"
          BY <2>0 DEF DockEmptied, TypeInv, DockOK
        <4> QED
          BY <2>2, <4>1 DEF Unlinks
      <3>2. dock[a] = "placed" \/ At(a)
        BY <2>0, <2>2 DEF DockGoes, Unplaced, AtStage, Place
      <3>3. att[a].dock = TRUE
        BY <2>0, <3>2
      <3> QED
        BY <2>0, <3>1, <3>3 DEF LinkGoes
    <2>3. ASSUME At(a)' PROVE att'[a].dock = TRUE
      <3>1. PICK i \in Importers : import'[i].pc = "place" /\ import'[i].a = a
        BY <2>3 DEF AtStage
      <3>2. import'[i] = import[i]
        BY <1>3, <3>1, StageComes
      <3>3. At(a) /\ Importing(a)
        BY <3>1, <3>2 DEF AtStage, Importing
      <3>4. Unplaced(a) /\ \A j \in Importers : import[j].pc # "idle" /\ import[j].a = a => j = i
        BY <3>1, <3>2, ImportAttempt
      <3>5. ASSUME NEW j \in Importers, Place(j), import[j].a = a PROVE FALSE
        <4>1. Imported(j) /\ import[j].pc = "place"
          BY <3>5 DEF Place
        <4>2. j = i
          BY <3>4, <3>5, <4>1
        <4> QED
          BY <3>1, <4>1, <4>2, ImportedEffect
      <3>6. ASSUME NEW p \in Persons, Empty(p), person[p].file = a PROVE FALSE
        BY <1>3, <2>0, <3>3, <3>6 DEF Empty, Discarded, InDiscard, AtRest
      <3>7. ~Unlinks(a)
        BY <3>4, <3>5, <3>6 DEF Unlinks, Unplaced, DockEmptied
      <3>8. att[a].dock = TRUE
        BY <2>0, <3>3
      <3> QED
        BY <2>0, <3>7, <3>8 DEF LinkGoes
    <2> QED
      BY <2>0, <2>1, <2>2, <2>3
  <1> QED
    BY <1>1, <1>2, <1>3

(* A request points at an entry of one of its attempts.                     *)
LEMMA PointedOn ==
  ASSUME Steps, Pointed
  PROVE  Pointed'
  <1> USE DEF Steps
  <1> DEFINE At(a) == AtStage(a, {"link", "place"})
  <1> SUFFICES ASSUME NEW r \in Requests, pointer'[r] # None
               PROVE  /\ pointer'[r] \in Made' /\ att'[pointer'[r]].req = r
                      /\ \E b : b = pointer'[r] /\ (dock'[b] = "placed" \/ At(b)')
    BY DEF Pointed, AtStage
  <1>1. ASSUME NEW i \in Importers, NEW b \in Made, att[b].req = r,
               import'[i] = [pc |-> "link", a |-> b], pointer'[r] = b
        PROVE  /\ pointer'[r] \in Made' /\ att'[pointer'[r]].req = r
               /\ At(b)'
    BY <1>1 DEF AtStage, Grows
  <1>2. ASSUME pointer'[r] = pointer[r]
        PROVE  /\ pointer'[r] \in Made' /\ att'[pointer'[r]].req = r
               /\ \E b : b = pointer'[r] /\ (dock'[b] = "placed" \/ At(b)')
    <2>1. PICK b \in Made : b = pointer[r] /\ att[b].req = r /\ (dock[b] = "placed" \/ At(b))
      BY <1>2 DEF Pointed
    <2>2. ~Forgotten(b)
      BY <1>2, <2>1 DEF Forgotten
    <2>3. CASE dock[b] = "placed"
      BY <1>2, <2>1, <2>2, <2>3, Dropped DEF Grows
    <2>4. ASSUME At(b) PROVE dock'[b] = "placed" \/ At(b)'
      <3>1. PICK i \in Importers : import[i].pc \in {"link", "place"} /\ import[i].a = b
        BY <2>4 DEF AtStage
      <3>2. CASE import'[i] = import[i]
        BY <3>1, <3>2 DEF AtStage
      <3>3. CASE Link(i)
        <4>1. import'[i].pc = "place" /\ import'[i].a = b
          BY <3>1, <3>3, ImportsEffect DEF Link
        <4> QED
          BY <4>1 DEF AtStage
      <3>4. CASE Place(i)
        BY <2>2, <3>1, <3>4, PlaceEnds
      <3> QED
        BY <3>1, <3>2, <3>3, <3>4, StageKeeps
    <2> QED
      BY <1>2, <2>1, <2>3, <2>4 DEF Grows
  <1>3. PointerGoes(r)
    BY EveryPointerGoes
  <1>4. CASE \E i \in Importers, b \in Made : /\ att[b].req = r /\ pointer'[r] = b
                                             /\ import'[i] = [pc |-> "link", a |-> b]
    BY <1>1, <1>4
  <1> QED
    BY <1>2, <1>3, <1>4 DEF PointerGoes

(* The request of an attempt whose entry is there points at no other.        *)
LEMMA PointsOn ==
  ASSUME Steps, HoldsUntied, OneTied, Points
  PROVE  Points'
  <1> USE DEF Steps
  <1> DEFINE At(a) == AtStage(a, {"link", "place"})
             There(a) == (dock[a] = "placed" /\ ~Emptying(a)) \/ At(a)
  <1> SUFFICES ASSUME NEW a \in Made', There(a)'
               PROVE  \E r : r = att'[a].req /\ pointer'[r] \in {None, a}
    BY DEF Points
  <1>1. a \in Made /\ a \in Attempts
    <2>1. At(a)' => a \in Made
      BY EveryImportGoes DEF AtStage
    <2>2. dock'[a] = "placed" => a \in Made
      BY NewComes DEF Unplaced
    <2> QED
      BY <2>1, <2>2 DEF Made
  <1>2. PICK r \in Requests : att[a].req = r /\ att'[a].req = r
    BY <1>1 DEF Grows, TypeInv, AttOK, Made
  <1>3. ASSUME NEW i \in Importers, ClaimRequest(i), import'[i].pc = "link", import[i].a = a
        PROVE  pointer'[r] = a
    <2>1. ~Imported(i)
      BY <1>3, ImportedEffect
    <2>2. pointer' = [pointer EXCEPT ![r] = a]
      BY <1>2, <1>3, <2>1 DEF ClaimRequest
    <2> QED
      BY <2>2 DEF TypeInv, PointerOK
  <1>4. ASSUME At(a)' PROVE At(a) \/ pointer'[r] = a
    BY <1>3, <1>4, StageComes DEF AtStage, Link
  <1>5. ASSUME dock'[a] = "placed", ~Emptying(a)' PROVE There(a)
    BY <1>1, <1>5, EveryDockGoes, EmptyingOn DEF DockGoes, Unplaced, AtStage, Place
  <1>6. ASSUME There(a) PROVE pointer'[r] \in {None, a}
    <2>1. pointer[r] \in {None, a}
      BY <1>1, <1>2, <1>6 DEF Points
    <2>2. Tied(a)
      BY <1>6 DEF Tied, Placed, Engaged, Importing, AtStage
    <2>3. ASSUME NEW i \in Importers, NEW b \in Made, import[i].pc = "claim", import[i].a = b,
                 att[b].req = r
          PROVE  b = a
      <3>1. Tied(b)
        BY <2>3 DEF Tied, Engaged, Importing
      <3> QED
        BY <1>1, <1>2, <2>2, <2>3, <3>1 DEF OneTied
    <2> QED
      <3>1. PointerGoes(r)
        BY EveryPointerGoes
      <3> QED
        BY <2>1, <2>3, <3>1 DEF PointerGoes
  <1> QED
    BY <1>2, <1>4, <1>5, <1>6

LEMMA FiledKept ==
  ASSUME Steps, NEW a \in Attempts, dock[a] = "filed"
  PROVE  dock'[a] = "filed"
  <1> USE DEF Steps
  <1>1. \A i \in Importers : ~(Place(i) /\ import[i].a = a)
    BY DEF Place, Core, ImportsFit, Unplaced
  <1> QED
    BY <1>1, EveryDockGoes DEF DockGoes

(* What has failed is not held again.                                       *)
LEMMA ReviewComes ==
  ASSUME Steps, NEW a \in Made, AtRest(a), att'[a].status = "needs_review"
  PROVE  att[a].status = "needs_review"
  <1> USE DEF Steps
  <1> SUFFICES ASSUME att[a].status \in {"failed", "imported"} PROVE FALSE
    BY DEF AtRest, Resting
  <1>1. Engaged(a)'
    BY DEF Engaged, Unsettled
  <1>2. a \in failing
    BY <1>1 DEF CalmMade, Engaged, Unsettled, InFlight, ActiveAttempt, AtRest
  <1>3. /\ holding = {} /\ \A p \in Persons : person[p].pc \notin {"decline", "undo", "restore"}
    BY <1>2 DEF Core, OneHalf, Direct
  <1>4. Completes
    BY <1>2 DEF Halfway, Prompt
  <1>5. UNCHANGED att
    BY <1>3, <1>4 DEF Completes, FailRequest, PollMoves, HoldRequest, DiscardAttempt,
                      UndoRequest, UndoAttempt
  <1> QED
    BY <1>5

(* What rests does so until a person chooses one of its books.              *)
LEMMA RestStays ==
  ASSUME Steps, NEW a \in Made, AtRest(a), ~ImportChosen(a)
  PROVE  AtRest(a)'
  <1> USE DEF Steps
  <1>1. PICK r \in Requests : att[a].req = r
    BY DEF TypeInv, AttOK, Made
  <1>2. Shift(a, r)
    BY <1>1 DEF Shifts
  <1>3. \A i \in Importers : import[i].pc # "idle" => import[i].a # a
    BY DEF AtRest, Importing
  <1>4. att[a].status \in Resting /\ Resting \cap ActiveAttempt = {}
    BY DEF AtRest, Resting, ActiveAttempt
  <1>5. att'[a].status \in Resting
    BY <1>2, <1>3, <1>4 DEF Shift, Resting
  <1>6. ~Importing(a)'
    <2> SUFFICES ASSUME NEW i \in Importers, import'[i].pc # "idle", import'[i].a = a PROVE FALSE
      BY DEF Importing
    <2>1. ImportGoes(i, a)
      BY EveryImportGoes
    <2> QED
      BY <1>3, <1>4, <2>1 DEF ImportGoes, Resting
  <1> QED
    BY <1>5, <1>6 DEF AtRest

(* And nobody files its entry.                                              *)
LEMMA RestIdle ==
  ASSUME Steps, NEW a \in Made, AtRest(a), dock[a] = "placed" => filing[a].pc = "idle",
         dock'[a] = "placed"
  PROVE  dock[a] = "placed" /\ filing'[a].pc = "idle"
  <1> USE DEF Steps
  <1>1. a \in Attempts /\ a \in Filers /\ a # Moderator
    BY DEF Made, Filers, Attempts, Moderator
  <1>2. ASSUME NEW i \in Importers, Place(i), import[i].a = a PROVE FALSE
    BY <1>2 DEF Place, AtRest, Importing
  <1>3. dock[a] = "placed"
    BY <1>1, <1>2, EveryDockGoes DEF DockGoes, Unplaced
  <1>4. ~Ingested(a)
    BY DEF Ingested, AtRest, Resting
  <1> QED
    BY <1>1, <1>3, <1>4, EveryFilerGoes DEF FilerGoes

(* What is held of a request whose entry is there: the entry of its latest  *)
(* attempt, or one that is being emptied.                                   *)
LEMMA HeldThere ==
  ASSUME Steps, TiedLatest, Linked, Pointed,
         NEW r \in Requests, req[r] = "needs_review", NEW a \in Attempts, IsLatest(r, a),
         NEW b, b = HeldFile(r, a), b # None
  PROVE  b \in Made /\ att[b].req = r /\ dock[b] = "placed" /\ (Emptying(b) \/ b = a)
  <1> USE DEF Steps
  <1>1. a \in Made /\ att[a].req = r
    BY RequestsAssumption DEF IsLatest, Made, TypeInv, AttOK
  <1>2. /\ b \in Made /\ att[b].req = r
        /\ dock[b] = "placed" \/ AtStage(b, {"link", "place"})
    <2>1. CASE pointer[r] # None
      BY <2>1 DEF HeldFile, Pointed
    <2>2. CASE pointer[r] = None
      BY <1>1, <2>2 DEF HeldFile, Linked, AtStage
    <2> QED
      BY <2>1, <2>2
  <1>3. ~AtStage(b, {"link", "place"})
    BY <1>2 DEF AtStage, Manned, ImportSeats, Seat, Closed
  <1>4. ASSUME ~Emptying(b) PROVE b = a
    <2>1. Tied(b)
      BY <1>2, <1>3, <1>4 DEF Tied, Placed
    <2>2. a <= b
      BY <1>1, <1>2, <2>1 DEF TiedLatest
    <2>3. b <= a
      BY <1>2 DEF IsLatest, Made
    <2>4. a \in Nat /\ b \in Nat
      BY <1>1, <1>2 DEF Made, Attempts
    <2> QED
      BY <2>2, <2>3, <2>4
  <1> QED
    BY <1>2, <1>3, <1>4

LEMMA BeginsFile ==
  ASSUME TypeInv, NEW p \in Persons, NEW pc, NEW op, NEW r, NEW a, NEW f,
         Begins(p, pc, op, r, a, f)
  PROVE  person'[p].file = f
  BY DEF Begins, TypeInv, PersonOK

(* What a moderator takes to file is the entry of the latest attempt, which *)
(* nobody works on.                                                         *)
LEMMA FileHeldTakes ==
  ASSUME Steps, TiedLatest, Linked, Pointed, Discarded, ImportingSeat, Alone',
         NEW r \in Requests, FileHeld(r)
  PROVE  \E a \in Made :
           /\ filing'[Moderator] = [pc |-> "file", file |-> a, a |-> a]
           /\ AtRest(a) /\ (att[a].status = "needs_review" => ~att[a].units)
  <1> USE DEF Steps
  <1>0. Moderator \in Filers /\ filing \in [Filers -> FilingRow]
    BY DEF Filers, TypeInv, FilingOK
  <1>1. PICK a \in Attempts :
          /\ IsLatest(r, a) /\ HeldFile(r, a) # None
          /\ filing'[Moderator] = [pc |-> "file", file |-> HeldFile(r, a), a |-> a]
    BY <1>0 DEF FileHeld
  <1>2. PICK b \in Made : /\ b = HeldFile(r, a) /\ att[b].req = r /\ dock[b] = "placed"
                          /\ Emptying(b) \/ b = a
    BY <1>1, HeldThere DEF FileHeld
  <1>3. ~Emptying(b)
    <2> SUFFICES ASSUME NEW q \in Persons, person[q].pc = "empty" PROVE FALSE
      BY DEF Emptying
    <2>1. person[q].op = "discard" /\ UNCHANGED person
      BY DEF Discarded, InDiscard, FileHeld, filingFrame
    <2>2. filing'[Moderator].pc = "idle"
      BY <2>1 DEF Alone
    <2> QED
      BY <1>1, <2>2
  <1>4. b = a
    BY <1>2, <1>3
  <1>5. ~Importing(a)
    BY <1>2, <1>4, NotImporting DEF Unplaced
  <1>6. att[a].status # "importing"
    BY <1>2, <1>4, <1>5 DEF ImportingSeat, Seat, Closed, FileHeld, Importing, Importers
  <1>7. att[a].status \in Resting
    BY <1>2, <1>4, <1>6 DEF Core, Entries, Unplaced, Made, TypeInv, AttOK, AttemptRow, AttemptStatus,
                            Unsettled, InFlight, Resting
  <1>8. att[a].status = "needs_review" => ~att[a].units
    BY <1>2, <1>4 DEF Core, Entries, Unplaced
  <1> QED
    BY <1>1, <1>2, <1>4, <1>5, <1>7, <1>8 DEF AtRest

(* A filing files its own entry.                                            *)
LEMMA OwnFileOn ==
  ASSUME Steps, TiedLatest, Linked, Pointed, Discarded, ImportingSeat, Alone', OwnFile
  PROVE  OwnFile'
  <1> USE DEF Steps
  <1> SUFFICES ASSUME NEW f \in Filers, filing'[f].pc # "idle"
               PROVE  \E a : /\ a = filing'[f].a /\ filing'[f].file = a
                             /\ filing'[f].pc \in {"settle", "mark"} => dock'[a] = "filed"
    BY DEF OwnFile
  <1>1. ASSUME filing[f].pc # "idle", filing'[f].a = filing[f].a, filing'[f].file = filing[f].file,
               \/ filing'[f].pc = filing[f].pc \/ filing'[f].pc = "file"
               \/ filing[f].pc = "settle"
               \/ dock' = [dock EXCEPT ![filing[f].file] = "filed"]
        PROVE  \E a : /\ a = filing'[f].a /\ filing'[f].file = a
                      /\ filing'[f].pc \in {"settle", "mark"} => dock'[a] = "filed"
    <2>1. PICK a \in Made : a = filing[f].a /\ filing[f].file = a /\ a \in Attempts
      BY <1>1 DEF OwnFile, TypeInv, FilingOK, Made
    <2>2. filing[f].pc \in {"settle", "mark"} => dock'[a] = "filed"
      BY <1>1, <2>1, FiledKept DEF OwnFile
    <2>3. dock' = [dock EXCEPT ![filing[f].file] = "filed"] => dock'[a] = "filed"
      BY <2>1 DEF TypeInv, DockOK
    <2> QED
      BY <1>1, <2>1, <2>2, <2>3
  <1>2. ASSUME NEW r \in Requests, FileHeld(r), f = Moderator
        PROVE  \E a : /\ a = filing'[f].a /\ filing'[f].file = a
                      /\ filing'[f].pc \in {"settle", "mark"} => dock'[a] = "filed"
    <2>1. PICK a \in Made : filing'[Moderator] = [pc |-> "file", file |-> a, a |-> a]
      BY <1>2, FileHeldTakes
    <2> QED
      BY <1>2, <2>1
  <1>3. CASE filing'[f] = [pc |-> "verify", file |-> f, a |-> f]
    BY <1>3
  <1>4. CASE filing'[f] = filing[f]
    BY <1>1, <1>4
  <1>5. CASE /\ filing'[f].a = filing[f].a /\ filing'[f].file = filing[f].file
             /\ \/ filing[f].pc = "verify" /\ filing'[f].pc = "file"
                \/ /\ filing[f].pc = "file" /\ filing'[f].pc = "settle"
                   /\ dock' = [dock EXCEPT ![filing[f].file] = "filed"]
                \/ filing[f].pc = "settle" /\ filing'[f].pc = "mark"
    BY <1>1, <1>5
  <1> QED
    BY <1>2, <1>3, <1>4, <1>5, EveryFilerGoes DEF FilerGoes

(* Nobody works on what a moderator files.                                  *)
LEMMA ModeratorHeldOn ==
  ASSUME Steps, TiedLatest, Linked, Pointed, Discarded, ImportingSeat, Alone', ModeratorHeld
  PROVE  ModeratorHeld'
  <1> USE DEF Steps
  <1> SUFFICES ASSUME filing'[Moderator].pc # "idle"
               PROVE  \E a : /\ a = filing'[Moderator].a /\ AtRest(a)'
                             /\ att'[a].status = "needs_review" => ~att'[a].units
    BY DEF ModeratorHeld, AtRest
  <1>0. Moderator \in Filers /\ Moderator \notin Attempts
    BY DEF Filers, Moderator, Attempts
  <1>1. ASSUME NEW r \in Requests, FileHeld(r)
        PROVE  \E a : /\ a = filing'[Moderator].a /\ AtRest(a)'
                      /\ att'[a].status = "needs_review" => ~att'[a].units
    <2>1. PICK a \in Made :
            /\ filing'[Moderator] = [pc |-> "file", file |-> a, a |-> a]
            /\ AtRest(a) /\ (att[a].status = "needs_review" => ~att[a].units)
      BY <1>1, FileHeldTakes
    <2>2. UNCHANGED <<att, import>>
      BY <1>1 DEF FileHeld, rows, filingFrame
    <2> QED
      BY <2>1, <2>2 DEF AtRest, Importing
  <1>2. ASSUME filing[Moderator].pc # "idle", filing'[Moderator].a = filing[Moderator].a
        PROVE  \E a : /\ a = filing'[Moderator].a /\ AtRest(a)'
                      /\ att'[a].status = "needs_review" => ~att'[a].units
    <2>1. PICK a \in Made : a = filing[Moderator].a
      BY <1>0, <1>2 DEF TypeInv, FilingOK
    <2>2. AtRest(a) /\ (att[a].status = "needs_review" => ~att[a].units)
      BY <1>2, <2>1 DEF ModeratorHeld
    <2>3. ~ImportChosen(a)
      BY <2>2 DEF ImportChosen
    <2>4. AtRest(a)'
      BY <2>2, <2>3, RestStays
    <2>5. ASSUME att'[a].status = "needs_review" PROVE ~att'[a].units
      <3>1. ~att[a].units
        BY <2>2, <2>5, ReviewComes
      <3>2. ASSUME NEW i \in Importers, Extract(i), import[i].a = a PROVE FALSE
        BY <2>2, <3>2 DEF Extract, AtRest, Importing
      <3> QED
        BY <3>1, <3>2, EveryLinkGoes DEF LinkGoes
    <2> QED
      BY <1>2, <2>1, <2>4, <2>5
  <1> QED
    BY <1>0, <1>1, <1>2, EveryFilerGoes DEF FilerGoes

(* What is being discarded goes on to rest. *)
LEMMA RestedOn ==
  ASSUME Steps, Discarded, Alone', NEW p \in Persons, person[p].pc \in InDiscard,
         person'[p].op = "discard", NEW a \in Attempts, a \in {person[p].a, person[p].file}
  PROVE  /\ a \in Made /\ AtRest(a) /\ a \in Made' /\ AtRest(a)'
         /\ dock'[a] = "placed" => dock[a] = "placed" /\ filing'[a].pc = "idle"
  <1> USE DEF Steps
  <1>1. a \in Made /\ AtRest(a) /\ (dock[a] = "placed" => filing[a].pc = "idle")
    BY DEF Discarded
  <1>2. ~ImportChosen(a)
    <2>1. import'["chosen"].pc = "idle" /\ "chosen" \in Importers
      BY DEF Alone, Importers
    <2> QED
      BY <2>1, ImportsEffect DEF ImportChosen
  <1>3. AtRest(a)' /\ a \in Made'
    BY <1>1, <1>2, RestStays DEF Grows
  <1>4. dock'[a] = "placed" => dock[a] = "placed" /\ filing'[a].pc = "idle"
    BY <1>1, RestIdle
  <1> QED
    BY <1>1, <1>3, <1>4

(* Who begins to discard finds it at rest. *)
LEMMA DiscardTakes ==
  ASSUME Steps, TiedLatest, Linked, Pointed, OwnFile, Discarded, FilingSeat, ImportingSeat, Alone',
         NEW p \in Persons, NEW r \in Requests, Discard(p, r),
         NEW a \in Made, att[a].req = r, dock[a] = "placed" \/ IsLatest(r, a)
  PROVE  AtRest(a) /\ (dock[a] = "placed" => filing[a].pc = "idle")
  <1> USE DEF Steps
  <1>1. req[r] = "needs_review"
    BY DEF Discard
  <1>2. import["chosen"].pc = "idle"
    <2>1. person'[p].op = "discard" /\ UNCHANGED import
      BY BeginsEffect DEF Discard, personFrame
    <2> QED
      BY <2>1 DEF Alone
  <1>3. ~Importing(a)
    <2> SUFFICES ASSUME NEW i \in Importers, import[i].pc # "idle", import[i].a = a PROVE FALSE
      BY DEF Importing
    <2>1. i = "queue" \/ import[i].pc \in {"link", "place"}
      BY <1>2 DEF Importers
    <2>2. import[i].pc \in {"extract", "claim", "link", "place"}
      BY DEF TypeInv, ImportOK, ImportRow
    <2>3. Seat(a, Fetched) \/ Seat(a, {"importing"})
      BY <2>1, <2>2 DEF Manned, ImportSeats
    <2> QED
      BY <1>1, <2>3 DEF Seat, Fetched, Closed
  <1>4. att[a].status \notin {"completed", "importing"} \cup ActiveAttempt
    <2>1. att[a].status \notin ActiveAttempt
      BY <1>1 DEF Core, Claims, ActiveTransferRequest, Closed
    <2>2. att[a].status # "completed"
      BY <1>1 DEF Manned, Seats, Seat, Fetched, Closed
    <2>3. att[a].status # "importing"
      BY <1>1, <1>2 DEF ImportingSeat, Seat, Closed
    <2> QED
      BY <2>1, <2>2, <2>3
  <1>5. att[a].status \in Resting
    BY <1>4 DEF Made, TypeInv, AttOK, AttemptRow, AttemptStatus, Unsettled, InFlight, Resting
  <1>6. ASSUME dock[a] = "placed", filing[a].pc # "idle" PROVE FALSE
    <2>1. a \in Filers /\ a \in Attempts
      BY DEF Filers, Made
    <2>2. filing[a].a = a
      BY <1>6, <2>1 DEF Core, Entries
    <2>3. filing[a].pc \in {"verify", "file"}
      BY <1>6, <2>1, <2>2 DEF OwnFile, TypeInv, FilingOK, FilingRow
    <2>4. Seat(a, {"importing"})
      BY <1>6, <2>1, <2>3 DEF FilingSeat
    <2> QED
      BY <1>1, <2>4 DEF Seat, Closed
  <1> QED
    BY <1>3, <1>5, <1>6 DEF AtRest

DiscardedBy(p) ==
  /\ person[p].op = "discard" <=> person[p].pc \in InDiscard
  /\ person[p].pc \in InDiscard => \A a \in {person[p].a, person[p].file} \cap Attempts :
       /\ a \in Made /\ AtRest(a)
       /\ dock[a] = "placed" => filing[a].pc = "idle"
  /\ person[p].pc \in {"discard", "decline"} =>
       (dock[person[p].a] = "placed" /\ ~Emptying(person[p].a) =>
          person[p].file = person[p].a)

LEMMA DiscardOn ==
  ASSUME Steps, Discarded, Alone', NEW p \in Persons, person[p].pc \in InDiscard,
         person'[p].op = "discard", person'[p].a = person[p].a, person'[p].file = person[p].file,
         person'[p].pc = person[p].pc \/ person'[p].pc \in {"decline", "empty"},
         person[p].pc = "empty" => person'[p].pc = "empty"
  PROVE  DiscardedBy(p)'
  <1> USE DEF Steps
  <1>1. \A a \in {person'[p].a, person'[p].file} \cap Attempts :
          /\ a \in Made' /\ AtRest(a)'
          /\ dock'[a] = "placed" => filing'[a].pc = "idle"
    BY RestedOn
  <1>2. ASSUME person'[p].pc \in {"discard", "decline"}
        PROVE  \E a : /\ a = person'[p].a
                      /\ dock'[a] = "placed" /\ ~Emptying(a)' => person'[p].file = a
    <2>1. person[p].pc \in {"discard", "decline"}
      BY <1>2 DEF InDiscard
    <2>2. PICK a \in Attempts : a = person[p].a
      BY <2>1 DEF TypeInv, PersonOK, Made
    <2>3. dock'[a] = "placed" /\ ~Emptying(a)' => dock[a] = "placed" /\ ~Emptying(a)
      BY <2>2, RestedOn, EmptyingOn
    <2> QED
      BY <2>1, <2>2, <2>3 DEF Discarded
  <1>3. person'[p].pc \in InDiscard
    BY DEF InDiscard
  <1> QED
    BY <1>1, <1>2, <1>3 DEF DiscardedBy

LEMMA DiscardedOn ==
  ASSUME Steps, TiedLatest, Linked, Pointed, Points, OwnFile, FilingSeat, ImportingSeat,
         Alone', Discarded
  PROVE  Discarded'
  <1> USE DEF Steps
  <1> SUFFICES ASSUME NEW p \in Persons PROVE DiscardedBy(p)'
    BY DEF Discarded, DiscardedBy
  <1>1. ASSUME person'[p].pc \notin InDiscard, person'[p].op # "discard" PROVE DiscardedBy(p)'
    BY <1>1 DEF DiscardedBy, InDiscard
  <1>2. ASSUME Free(p) PROVE DiscardedBy(p)'
    <2>1. person'[p].pc \notin InDiscard /\ person'[p].op # "discard"
      BY <1>2, FreeEffect DEF IdlePerson, InDiscard
    <2> QED
      BY <1>1, <2>1
  <1>3. CASE person'[p] = person[p]
    <2>1. CASE person[p].pc \in InDiscard
      BY <1>3, <2>1, DiscardOn DEF Discarded
    <2>2. CASE person[p].pc \notin InDiscard
      BY <1>1, <1>3, <2>2 DEF Discarded
    <2> QED
      BY <2>1, <2>2
  <1>4. ASSUME Detach(p) \/ FailAttempt(p) \/ Reopen(p) \/ Close(p) \/ SweepAttempts(p)
        PROVE  DiscardedBy(p)'
    <2>1. person[p].op # "discard"
      BY <1>4 DEF Detach, FailAttempt, Reopen, Close, SweepAttempts, Discarded, InDiscard
    <2>2. ASSUME NEW pc \in {"close", "fail", "reopen", "sweep"}, Does(p, pc) PROVE DiscardedBy(p)'
      <3>1. person'[p].pc = pc /\ person'[p].op = person[p].op
        BY <2>2, DoesEffect
      <3>2. pc \notin InDiscard
        BY DEF InDiscard
      <3> QED
        BY <1>1, <2>1, <3>1, <3>2
    <2>3. ASSUME NEW a, person' = [person EXCEPT ![p].pc = "fail", ![p].a = a] PROVE DiscardedBy(p)'
      BY <1>1, <2>1, <2>3, DetachEffect DEF InDiscard
    <2> QED
      BY <1>2, <1>4, <2>2, <2>3 DEF Detach, FailAttempt, Reopen, Close, SweepAttempts
  <1>5. ASSUME DiscardRequest(p) \/ DiscardAttempt(p) PROVE DiscardedBy(p)'
    <2>1. person[p].pc \in {"discard", "decline"} /\ person[p].pc \in InDiscard
      BY <1>5 DEF DiscardRequest, DiscardAttempt, InDiscard
    <2>2. ASSUME NEW pc \in {"decline", "empty"}, Does(p, pc) PROVE DiscardedBy(p)'
      <3>1. /\ person'[p].pc = pc /\ person'[p].op = person[p].op /\ person'[p].a = person[p].a
            /\ person'[p].file = person[p].file
        BY <2>2, DoesEffect, DoesFile
      <3>2. person[p].op = "discard"
        BY <2>1 DEF Discarded
      <3> QED
        BY <2>1, <3>1, <3>2, DiscardOn
    <2> QED
      BY <1>2, <1>5, <2>2 DEF DiscardRequest, DiscardAttempt
  <1>6. ASSUME Empty(p) PROVE DiscardedBy(p)'
    BY <1>2, <1>3, <1>6, EmptyGoes DEF Empty
  <1>7. ~UndoRequest(p) /\ ~UndoAttempt(p)
    BY DEF Core, Direct, UndoRequest, UndoAttempt
  <1>8. ASSUME NEW r \in Requests, Cancel(p, r) \/ Fulfil(p, r) PROVE DiscardedBy(p)'
    <2>1. PICK op \in {"cancel", "fulfil"} : Begins(p, "detach", op, r, None, None)
      BY <1>8 DEF Cancel, Fulfil
    <2> QED
      BY <1>1, <2>1, BeginsEffect DEF InDiscard
  <1>9. ASSUME NEW r \in Requests, Discard(p, r) PROVE DiscardedBy(p)'
    <2>1. PICK a \in Attempts : /\ att[a].status # "absent" /\ IsLatest(r, a)
                                /\ Begins(p, "discard", "discard", r, a, HeldFile(r, a))
      BY <1>9 DEF Discard
    <2>2. /\ person'[p].pc = "discard" /\ person'[p].op = "discard" /\ person'[p].a = a
          /\ person'[p].file = HeldFile(r, a)
      BY <2>1, BeginsEffect, BeginsFile
    <2>3. UNCHANGED <<att, import, dock, filing, pointer>>
      BY <1>9 DEF Discard, rows, personFrame
    <2>4. a \in Made /\ att[a].req = r /\ req[r] = "needs_review"
      BY <1>9, <2>1 DEF Made, IsLatest, Discard
    <2>5. ASSUME NEW b \in Made, att[b].req = r, dock[b] = "placed" \/ IsLatest(r, b)
          PROVE  b \in Made' /\ AtRest(b)' /\ (dock'[b] = "placed" => filing'[b].pc = "idle")
      <3>1. AtRest(b) /\ (dock[b] = "placed" => filing[b].pc = "idle")
        BY <1>9, <2>5, DiscardTakes
      <3> QED
        BY <2>3, <3>1 DEF AtRest, Importing, Made
    <2>6. ASSUME NEW b \in Attempts, b = HeldFile(r, a)
          PROVE  b \in Made /\ att[b].req = r /\ dock[b] = "placed"
      <3>1. b # None
        BY DEF Attempts, None
      <3> QED
        BY <2>1, <2>4, <2>6, <3>1, HeldThere
    <2>7. \A b \in {person'[p].a, person'[p].file} \cap Attempts :
            /\ b \in Made' /\ AtRest(b)'
            /\ dock'[b] = "placed" => filing'[b].pc = "idle"
      BY <2>1, <2>2, <2>4, <2>5, <2>6
    <2>8. ASSUME dock'[a] = "placed", ~Emptying(a)' PROVE HeldFile(r, a) = a
      <3>1. dock[a] = "placed" /\ ~Emptying(a)
        BY <2>1, <2>3, <2>8, EmptyingOn
      <3>2. pointer[r] \in {None, a}
        BY <2>4, <3>1 DEF Points
      <3>3. att[a].dock
        BY <2>4, <3>1 DEF Linked
      <3> QED
        BY <3>2, <3>3 DEF HeldFile
    <2>9. \E b : /\ b = person'[p].a
                 /\ dock'[b] = "placed" /\ ~Emptying(b)' => person'[p].file = b
      BY <2>2, <2>8
    <2> QED
      BY <2>2, <2>7, <2>9 DEF DiscardedBy, InDiscard
  <1> QED
    BY <1>3, <1>4, <1>5, <1>6, <1>7, <1>8, <1>9, PersonGoes DEF PersonStep

(* A copy arrives by a filing. *)
LEMMA LibraryGoes ==
  ASSUME Next, ~(\E f \in Filers : FileIntoLibrary(f) /\ dock[filing[f].file] = "placed")
  PROVE  UNCHANGED library
  <1>1. ASSUME NEW i \in Importers, Extract(i) \/ ClaimRequest(i) \/ Place(i) PROVE UNCHANGED library
    BY <1>1 DEF Extract, ClaimRequest, Place, importFrame
  <1>2. ASSUME NEW f \in Filers, FileIntoLibrary(f) \/ Settle(f) PROVE UNCHANGED library
    BY <1>2 DEF FileIntoLibrary, Settle
  <1>3. ASSUME NEW p \in Persons, Close(p) \/ Empty(p) PROVE UNCHANGED library
    BY <1>3 DEF Close, Empty, personFrame
  <1>4. ASSUME NEW a \in Attempts, DockEmptied(a) PROVE UNCHANGED library
    BY <1>4 DEF DockEmptied
  <1> QED
    BY <1>1, <1>2, <1>3, <1>4, EntryMovers

(* A request that has its copy had one of its attempts filed, and the       *)
(* attempt that is filed is the only one there is.                          *)
LEMMA SingleOn ==
  ASSUME Steps, OneTied, OwnFile, Discarded, Alone, Single
  PROVE  Single'
  <1> USE DEF Steps
  <1>0. library \in [Requests -> Nat]
    BY DEF TypeInv, LibraryOK
  <1> SUFFICES ASSUME NEW r \in Requests
               PROVE  /\ library'[r] <= 1
                      /\ library'[r] = 1 => \E a \in Made' : att'[a].req = r /\ dock'[a] = "filed"
    BY DEF Single
  <1>1. ASSUME library'[r] = library[r]
        PROVE  /\ library'[r] <= 1
               /\ library'[r] = 1 => \E a \in Made' : att'[a].req = r /\ dock'[a] = "filed"
    <2>1. \A a \in Made : dock[a] = "filed" => a \in Made' /\ att'[a].req = att[a].req /\ dock'[a] = "filed"
      BY FiledKept DEF Made, Grows
    <2> QED
      BY <1>1, <2>1 DEF Single
  <1>2. ASSUME NEW f \in Filers, FileIntoLibrary(f), dock[filing[f].file] = "placed"
        PROVE  /\ library'[r] <= 1
               /\ library'[r] = 1 => \E a \in Made' : att'[a].req = r /\ dock'[a] = "filed"
    <2>1. PICK a \in Attempts : a = filing[f].file
      BY <1>2 DEF FileIntoLibrary, TypeInv, FilingOK
    <2>2. filing[f].a = a /\ a \in Made /\ ~Emptying(a) /\ dock[a] = "placed"
      BY <1>2, <2>1, FiledStays
    <2>3. CASE dock' = [dock EXCEPT ![a] = "filed"] /\ library' = [library EXCEPT ![att[a].req] = @ + 1]
      <3>1. CASE att[a].req # r
        BY <1>0, <1>1, <2>3, <3>1
      <3>2. CASE att[a].req = r
        <4>1. library[r] # 1
          <5> SUFFICES ASSUME NEW b \in Made, att[b].req = r, dock[b] = "filed" PROVE FALSE
            BY DEF Single
          <5>1. Tied(a) /\ Tied(b)
            BY <2>2 DEF Tied, Placed
          <5> QED
            BY <2>2, <3>2, <5>1 DEF OneTied
        <4>2. library'[r] = 1
          BY <1>0, <2>3, <3>2, <4>1 DEF Single
        <4>3. dock'[a] = "filed" /\ a \in Made' /\ att'[a].req = r
          BY <2>1, <2>2, <2>3, <3>2 DEF TypeInv, DockOK, Grows
        <4> QED
          BY <4>2, <4>3
      <3> QED
        BY <3>1, <3>2
    <2>4. CASE UNCHANGED library
      BY <1>1, <2>4
    <2> QED
      BY <1>2, <2>1, <2>2, <2>3, <2>4 DEF FileIntoLibrary
  <1> QED
    BY <1>1, <1>2, LibraryGoes

(* What is known of the copies and of the entries they come from.           *)
Shelved ==
  /\ Dense /\ OneTied /\ HoldsUntied /\ TiedLatest
  /\ PlacedSeat /\ ImportingSeat /\ FilingSeat /\ FailingUnplaced /\ HeldUnplaced
  /\ Linked /\ Pointed /\ Points /\ OwnFile /\ Recorded /\ ModeratorHeld /\ Discarded /\ Single

LEMMA InitShelved == Init => Shelved
  <1> SUFFICES ASSUME Init PROVE Shelved
    OBVIOUS
  <1>1. Made = {} /\ failing = {} /\ holding = {}
    BY DEF Init, Made, NoAttempt
  <1>2. /\ \A r \in Requests : library[r] = 0 /\ pointer[r] = None
        /\ \A p \in Persons : person[p].pc = "idle" /\ person[p].op = "none"
        /\ \A f \in Filers : filing[f].pc = "idle"
    BY DEF Init, IdlePerson, IdleFiling
  <1>3. Moderator \in Filers /\ Attempts \subseteq Filers
    BY DEF Filers
  <1>4. Dense /\ OneTied /\ HoldsUntied /\ TiedLatest /\ PlacedSeat /\ ImportingSeat
    BY <1>1 DEF Dense, OneTied, HoldsUntied, TiedLatest, PlacedSeat, ImportingSeat
  <1>5. FilingSeat /\ FailingUnplaced /\ HeldUnplaced
    BY <1>1, <1>2, <1>3 DEF FilingSeat, FailingUnplaced, HeldUnplaced
  <1>6. Linked /\ Pointed /\ Points /\ OwnFile /\ Recorded /\ ModeratorHeld
    BY <1>1, <1>2, <1>3 DEF Linked, Pointed, Points, OwnFile, Recorded, ModeratorHeld
  <1>7. Discarded /\ Single
    BY <1>2 DEF Discarded, InDiscard, Single
  <1> QED
    BY <1>4, <1>5, <1>6, <1>7 DEF Shelved

LEMMA SameShelved == ASSUME Shelved, UNCHANGED vars PROVE Shelved'
  <1>1. UNCHANGED <<req, pointer, att, dock, library, pass, person, import, filing, failing, holding>>
    BY DEF vars, rows, outside, work
  <1>2. \A a : /\ Tied(a)' <=> Tied(a)
               /\ Placed(a)' <=> Placed(a)
               /\ Emptying(a)' <=> Emptying(a)
               /\ AtRest(a)' <=> AtRest(a)
    BY <1>1 DEF Tied, Placed, Emptying, AtRest, Engaged, Importing
  <1>3. Dense' /\ OneTied' /\ HoldsUntied' /\ TiedLatest'
    BY <1>1, <1>2 DEF Shelved, Dense, OneTied, HoldsUntied, TiedLatest, Holds, Made
  <1>4. PlacedSeat' /\ ImportingSeat' /\ FilingSeat'
    BY <1>1, <1>2 DEF Shelved, PlacedSeat, ImportingSeat, FilingSeat, Seat, Declining, Made
  <1>5. FailingUnplaced' /\ HeldUnplaced' /\ Recorded'
    BY <1>1 DEF Shelved, FailingUnplaced, HeldUnplaced, Recorded, Unplaced, Made
  <1>6. Linked' /\ Pointed' /\ Points'
    BY <1>1, <1>2 DEF Shelved, Linked, Pointed, Points, AtStage, Made
  <1>7. OwnFile' /\ ModeratorHeld' /\ Single'
    BY <1>1, <1>2 DEF Shelved, OwnFile, ModeratorHeld, Single, Made
  <1>8. Discarded'
    BY <1>1, <1>2 DEF Shelved, Discarded, Made
  <1> QED
    BY <1>3, <1>4, <1>5, <1>6, <1>7, <1>8 DEF Shelved

LEMMA StepShelved ==
  ASSUME Steps, Shelved, Alone, Alone'
  PROVE  Shelved'
  <1>1. /\ Dense /\ OneTied /\ HoldsUntied /\ TiedLatest
        /\ PlacedSeat /\ ImportingSeat /\ FilingSeat /\ FailingUnplaced /\ HeldUnplaced
        /\ Linked /\ Pointed /\ Points /\ OwnFile /\ Recorded /\ ModeratorHeld /\ Discarded /\ Single
    BY DEF Shelved
  <1>2. CalmPlaced /\ CalmTied
    BY <1>1, PlacedCalm, TiedCalm
  <1>3. Dense' /\ OneTied' /\ HoldsUntied' /\ TiedLatest'
    BY <1>1, <1>2, DenseOn, OneTiedOn, HoldsUntiedOn, TiedLatestOn
  <1>4. Discarded'
    BY <1>1, DiscardedOn
  <1>5. PlacedSeat' /\ ImportingSeat' /\ FilingSeat'
    BY <1>1, <1>2, <1>4, PlacedSeatOn, ImportingSeatOn, FilingSeatOn
  <1>6. FailingUnplaced' /\ HeldUnplaced' /\ Recorded'
    BY <1>1, FailingUnplacedOn, HeldUnplacedOn, RecordedOn
  <1>7. Linked' /\ Pointed' /\ Points'
    BY <1>1, LinkedOn, PointedOn, PointsOn
  <1>8. OwnFile' /\ ModeratorHeld' /\ Single'
    BY <1>1, OwnFileOn, ModeratorHeldOn, SingleOn
  <1> QED
    BY <1>3, <1>4, <1>5, <1>6, <1>7, <1>8 DEF Shelved

Copying == Backs /\ Shelved

LEMMA NextCopying == Copying /\ [Next]_vars /\ [Prompt]_vars /\ Alone /\ Alone' => Copying'
  <1> SUFFICES ASSUME Copying, [Next]_vars, [Prompt]_vars, Alone, Alone' PROVE Copying'
    OBVIOUS
  <1>1. Backs'
    BY NextBacks DEF Copying
  <1>2. CASE UNCHANGED vars
    BY <1>1, <1>2, SameShelved DEF Copying
  <1>3. CASE Next /\ Prompt
    <2>1. Orderly /\ TypeInv /\ Core /\ Discards /\ Inv /\ Manned
      BY DEF Copying, Backs, Ordered, Order
    <2>2. ~ServerCrash
      BY <2>1 DEF Copying, Backs, ServerCrash, TypeInv, SpentOK
    <2>3. Errands /\ ImportSeats /\ MarkClosed
      BY <2>1 DEF Manned
    <2>4. Stands /\ Grows /\ GivenOn
      BY <2>1, <2>2, <2>3, EveryStands, EveryStep, EveryGivenOn DEF Step
    <2>5. Shifts /\ CalmMade
      BY <1>3, <2>1, <2>2, <2>3, <2>4, EveryShifts, EveryCalm
    <2>6. Steps
      BY <1>3, <2>1, <2>2, <2>4, <2>5 DEF Steps
    <2> QED
      BY <1>1, <2>6, StepShelved DEF Copying
  <1> QED
    BY <1>2, <1>3

LEMMA CopyingOne == Copying => OneCopy
  BY DEF Copying, Shelved, Single, OneCopy

(* As long as the server is not restarted and a person who discards does so *)
(* alone, a request puts at most one copy in the library: no grab, import   *)
(* or moderator files a second attempt of a request that has its copy.      *)
THEOREM OneCopyCorrect ==
  Orderly /\ MaxCrashes = 0 /\ Spec /\ [][Prompt]_vars /\ []Alone => []OneCopy
  <1>1. Orderly /\ MaxCrashes = 0 /\ Init => Copying
    BY InitOrdered, InitInv, InitManned, InitShelved DEF Copying, Backs
  <1> QED
    BY <1>1, NextCopying, CopyingOne, PTL DEF Spec
=============================================================================
