------------------------------ MODULE Requests ------------------------------
(***************************************************************************)
(* Fulfilment of book requests: people who ask, decide, stop and review;   *)
(* automation that searches and grabs; the monitor that polls download     *)
(* clients; the import queue; the verification that files an import in the *)
(* library; and the watchdog.                                              *)
(*                                                                         *)
(* A step ends where the code awaits something another actor can change.   *)
(* What a process remembers across an await is in its record; the part of  *)
(* failDownload and of holdForReview that follows their first update is    *)
(* pending in `failing' and `holding'.                                     *)
(***************************************************************************)
EXTENDS RequestStore, Sequences, FiniteSets

CONSTANTS
  Requests, BookOf,     \* the requests people may make, and the book of each
  SelfServe,            \* the requests whose makers pick the release themselves
  AutoLimit,            \* maxAutoGrabAttempts
  Passes, Persons,      \* grabs, and people's longer operations, that run at a time
  \* Bounds on what the environment does.
  MaxAttempts,          \* rows of the attempt table
  MaxStops,             \* transfers people stop
  MaxLate,              \* adds the client takes and then answers with an error
  MaxTimeouts,          \* watchdog timeouts that hit work still going on
  MaxUndone,            \* discards the Book Dock refuses
  MaxCrashes            \* server restarts

ASSUME SelfServeAssumption == SelfServe \subseteq Requests
ASSUME BoundsAssumption ==
  /\ AutoLimit \in Nat /\ MaxAttempts \in Nat /\ MaxStops \in Nat /\ MaxLate \in Nat
  /\ MaxTimeouts \in Nat /\ MaxUndone \in Nat /\ MaxCrashes \in Nat

VARIABLES
  req,        \* status of each request
  pointer,    \* the Book Dock entry of each request: the attempt it was made for
  att,        \* the attempt table
  dock,       \* the Book Dock entry made for each attempt
  client,     \* what the download client has of each attempt
  library,    \* how many copies the pipeline filed for each request
  byHand,     \* history: requests somebody fulfilled by hand
  todo,       \* automation asked for and not yet running
  pass,       \* automation passes and grabs
  poll,       \* the poll of each attempt
  queue,      \* the import queue
  import,     \* the import the queue runs, and the one of a chosen book
  filing,     \* verification of each attempt, and a moderator's filing
  failing,    \* attempts failed by failDownload, their request not yet
  holding,    \* attempts held by holdForReview, their request not yet
  person,     \* cancellations, stops, fulfilments and discards
  stale,      \* attempts a watchdog sweep has read and not yet acted on
  spent       \* how much of the bounds is used

rows    == <<req, pointer, att>>
outside == <<dock, client, library, byHand>>
work    == <<queue, import, filing, failing, holding>>
vars == <<rows, outside, work, todo, pass, poll, person, stale, spent>>

Attempts == 1..MaxAttempts
None == 0
ASSUME RequestsAssumption == None \notin Requests
Moderator == 0
Filers == Attempts \cup {Moderator}
Importers == {"queue", "chosen"}

NoAttempt == [req |-> None, status |-> "absent", auto |-> FALSE, dock |-> FALSE,
              units |-> FALSE]
IdlePass == [pc |-> "idle", r |-> None, why |-> "hand", prev |-> "absent", spent |-> 0,
             a |-> None, took |-> FALSE, halt |-> FALSE]
IdlePoll == [pc |-> "idle", was |-> "queued", done |-> FALSE]
IdleImport == [pc |-> "idle", a |-> None]
IdleFiling == [pc |-> "idle", file |-> None, a |-> None]
IdlePerson == [pc |-> "idle", op |-> "none", r |-> None, a |-> None, file |-> None]

Trigger == {"approval", "retry", "periodic", "hand"}

TypeOK ==
  /\ req \in [Requests -> RequestStatus \cup {"absent"}]
  /\ pointer \in [Requests -> Attempts \cup {None}]
  /\ att \in [Attempts ->
       [req : Requests \cup {None}, status : AttemptStatus \cup {"absent"},
        auto : BOOLEAN, dock : BOOLEAN, units : BOOLEAN]]
  /\ \A a \in Attempts : att[a].status # "absent" => att[a].req \in Requests
  /\ dock \in [Attempts -> {"none", "reserved", "placed", "filed"}]
  /\ client \in [Attempts -> {"none", "working", "done", "broken"}]
  /\ library \in [Requests -> Nat] /\ byHand \subseteq Requests
  /\ todo \subseteq Requests \X {"approval", "retry", "periodic"}
  /\ pass \in [Passes ->
       [pc : {"idle", "read", "search", "grab", "claim", "resolve", "add", "refuse",
              "rollback", "giveup"},
        r : Requests \cup {None}, why : Trigger,
        prev : RequestStatus \cup {"absent"}, spent : Nat,
        a : Attempts \cup {None}, took : BOOLEAN, halt : BOOLEAN]]
  /\ \A p \in Passes :
       /\ pass[p].pc # "idle" => pass[p].r \in Requests
       /\ pass[p].pc \in {"add", "refuse"} => pass[p].a \in Attempts
  /\ poll \in [Attempts -> [pc : {"idle", "asked", "move"}, was : ActiveAttempt,
                            done : BOOLEAN]]
  /\ \A a \in Attempts : poll[a].pc # "idle" => att[a].status # "absent"
  /\ queue \in Seq(Attempts)
  /\ import \in [Importers -> [pc : {"idle", "extract", "claim", "link", "place"},
                               a : Attempts \cup {None}]]
  /\ filing \in [Filers -> [pc : {"idle", "verify", "file", "settle", "mark"},
                            file : Attempts \cup {None}, a : Attempts \cup {None}]]
  /\ failing \subseteq Attempts
  /\ holding \subseteq Attempts \X {"import", "verify"}
  /\ person \in [Persons ->
       [pc : {"idle", "detach", "fail", "reopen", "close", "sweep", "discard", "decline",
              "empty", "undo", "restore"},
        op : {"none", "cancel", "stop", "fulfil", "discard"},
        r : Requests \cup {None}, a : Attempts \cup {None},
        file : Attempts \cup {None}]]
  /\ stale \subseteq Attempts
  /\ spent \in [stops : Nat, late : Nat, timeouts : Nat, undone : Nat, crashes : Nat]

Init ==
  /\ req = [r \in Requests |-> "absent"]
  /\ pointer = [r \in Requests |-> None]
  /\ att = [a \in Attempts |-> NoAttempt]
  /\ dock = [a \in Attempts |-> "none"] /\ client = [a \in Attempts |-> "none"]
  /\ library = [r \in Requests |-> 0] /\ byHand = {}
  /\ todo = {} /\ pass = [p \in Passes |-> IdlePass]
  /\ poll = [a \in Attempts |-> IdlePoll]
  /\ queue = <<>> /\ import = [i \in Importers |-> IdleImport]
  /\ filing = [f \in Filers |-> IdleFiling]
  /\ failing = {} /\ holding = {}
  /\ person = [p \in Persons |-> IdlePerson] /\ stale = {}
  /\ spent = [stops |-> 0, late |-> 0, timeouts |-> 0, undone |-> 0, crashes |-> 0]

-----------------------------------------------------------------------------
(* Helpers. *)

(* The unique index on the active requests for a book: the update throws.   *)
Clash(r, status) ==
  /\ status \in ActiveRequest /\ req[r] \notin ActiveRequest
  /\ \E q \in Requests \ {r} : BookOf[q] = BookOf[r] /\ req[q] \in ActiveRequest

MoveRequest(r, expected, new) == req' = [req EXCEPT ![r] = UpdateIf(@, expected, new)]

MoveAttempt(a, expected, new) == att' = [att EXCEPT ![a].status = UpdateIf(@, expected, new)]

IsLatest(r, a) == att[a].req = r /\ \A b \in Attempts : att[b].req = r => b <= a

NextFree(a) == att[a].status = "absent" /\ \A b \in 1..(a - 1) : att[b].status # "absent"

Automated(r) == Cardinality({a \in Attempts : att[a].req = r /\ att[a].auto})

(* A Book Dock entry that goes takes every reference to it along. *)
PointersWithout(f) == [r \in Requests |-> IF pointer[r] = f THEN None ELSE pointer[r]]
AttemptsWithout(f) == [att EXCEPT ![f].dock = FALSE]

(* failDownload and holdForReview up to their first update. *)
FailIn(table, a) ==
  /\ att' = [table EXCEPT ![a].status = UpdateIf(@, Unsettled, "failed")]
  /\ failing' = IF table[a].status \in Unsettled THEN failing \cup {a} ELSE failing

FailDownload(a) == FailIn(att, a)

HoldForReview(a, units, from) ==
  IF att[a].status \in Unsettled
    THEN /\ att' = [att EXCEPT ![a].status = "needs_review", ![a].units = units]
         /\ holding' = holding \cup {<<a, from>>}
    ELSE UNCHANGED <<att, holding>>

Enqueued(a) ==
  IF a = import["queue"].a \/ \E k \in DOMAIN queue : queue[k] = a
    THEN queue ELSE Append(queue, a)

-----------------------------------------------------------------------------
(* Requests are made and decided.  An approval, and the submission of one   *)
(* who needs none, starts automation; not for people who pick themselves.   *)

Submit(r) ==
  /\ req[r] = "absent" /\ ~Clash(r, "pending")
  /\ \/ req' = [req EXCEPT ![r] = "pending"] /\ r \notin SelfServe /\ UNCHANGED todo
     \/ /\ req' = [req EXCEPT ![r] = "approved"]
        /\ todo' = IF r \in SelfServe THEN todo ELSE todo \cup {<<r, "approval">>}
  /\ UNCHANGED <<pointer, att, outside, work, pass, poll, person, stale, spent>>

Approve(r) ==
  /\ req[r] = "pending"
  /\ MoveRequest(r, {"pending"}, "approved")
  /\ todo' = todo \cup {<<r, "approval">>}
  /\ UNCHANGED <<pointer, att, outside, work, pass, poll, person, stale, spent>>

Reject(r) ==
  /\ req[r] = "pending"
  /\ MoveRequest(r, {"pending"}, "rejected")
  /\ UNCHANGED <<pointer, att, outside, work, todo, pass, poll, person, stale, spent>>

-----------------------------------------------------------------------------
(* Automation and grabs. *)

passFrame == <<pointer, dock, library, byHand, work, poll, person, stale>>

Become(p, record) == pass' = [pass EXCEPT ![p] = record]
Goto(p, pc) == pass' = [pass EXCEPT ![p].pc = pc]
Leave(p) == Become(p, IdlePass)

(* runAttempt up to its claim: what the guards read is remembered. *)
StartPass(p, r, why) ==
  Become(p, [IdlePass EXCEPT !.pc = "read", !.r = r, !.why = why, !.prev = req[r],
                             !.spent = Automated(r)])

RunTodo(p) ==
  /\ pass[p].pc = "idle"
  /\ \E t \in todo :
       /\ todo' = todo \ {t}
       /\ IF req[t[1]] \in Grabbable THEN StartPass(p, t[1], t[2]) ELSE UNCHANGED pass
  /\ UNCHANGED <<req, att, client, spent, passFrame>>

(* The hourly sweep lists approved requests that nothing has touched for    *)
(* hours, and comes to each of them later.                                  *)
ListForResearch(r) ==
  /\ req[r] = "approved"
  /\ \A t \in todo : t[1] # r
  /\ \A p \in Passes : pass[p].r # r
  /\ todo' = todo \cup {<<r, "periodic">>}
  /\ UNCHANGED <<rows, outside, work, pass, poll, person, stale, spent>>

GrabByHand(p) ==
  /\ pass[p].pc = "idle"
  /\ \E r \in Requests :
       /\ req[r] \in Grabbable
       /\ Become(p, [IdlePass EXCEPT !.pc = "grab", !.r = r])
  /\ UNCHANGED <<req, att, client, todo, spent, passFrame>>

BugSpent(p) == FALSE

Spent(p) == pass[p].spent >= AutoLimit

(* A spent budget is only said to whoever just approved. *)
ClaimSearch(p) ==
  LET r == pass[p].r
      new == IF Spent(p) THEN "approved" ELSE "searching"
      writes == ~Spent(p) \/ pass[p].why = "approval" IN
  /\ pass[p].pc = "read"
  /\ IF writes /\ req[r] = pass[p].prev /\ ~Clash(r, new)
       THEN /\ MoveRequest(r, {pass[p].prev}, new)
            /\ IF Spent(p) THEN Leave(p) ELSE Goto(p, "search")
       ELSE Leave(p) /\ UNCHANGED req
  /\ UNCHANGED <<att, client, todo, spent, passFrame>>

(* Releases are found, or the request is handed back. *)
SearchEnds(p) ==
  /\ pass[p].pc = "search"
  /\ \/ Goto(p, "grab") /\ UNCHANGED req
     \/ /\ MoveRequest(pass[p].r, {"searching"},
                       IF pass[p].why = "retry" THEN "failed" ELSE "approved")
        /\ Leave(p)
  /\ UNCHANGED <<att, client, todo, spent, passFrame>>

(* The end of a grab that did not start: a person is told, automation       *)
(* tries its next release or gives up.                                      *)
NotStarted(p, another) ==
  IF pass[p].why = "hand" THEN Leave(p)
  ELSE IF another THEN Goto(p, "grab") ELSE Goto(p, "giveup")

ReadForGrab(p) ==
  /\ pass[p].pc = "grab"
  /\ IF req[pass[p].r] \in Grabbable
       THEN Become(p, [pass[p] EXCEPT !.pc = "claim", !.prev = req[pass[p].r],
                                      !.spent = @ + 1])
       ELSE NotStarted(p, FALSE)
  /\ UNCHANGED <<req, att, client, todo, spent, passFrame>>

BugClaimForGrab(p) ==
  LET r == pass[p].r IN
  /\ pass[p].pc = "claim"
  /\ IF req[r] \in Grabbable
       THEN /\ IF Clash(r, "grabbed") THEN UNCHANGED req
                                      ELSE MoveRequest(r, Grabbable, "grabbed")
            /\ Goto(p, "resolve")
       ELSE NotStarted(p, FALSE) /\ UNCHANGED req
  /\ UNCHANGED <<att, client, todo, spent, passFrame>>

ClaimForGrab(p) ==
  LET r == pass[p].r IN
  /\ pass[p].pc = "claim"
  /\ IF req[r] \in Grabbable /\ ~Clash(r, "grabbed")
       THEN MoveRequest(r, Grabbable, "grabbed") /\ Goto(p, "resolve")
       ELSE NotStarted(p, FALSE) /\ UNCHANGED req
  /\ UNCHANGED <<att, client, todo, spent, passFrame>>

BugNewAttempt(p, a, status) ==
  /\ NextFree(a)
  /\ att' = [att EXCEPT ![a] = [NoAttempt EXCEPT !.status = status,
                                                 !.auto = pass[p].why # "hand"]]

NewAttempt(p, a, status) ==
  /\ NextFree(a)
  /\ att' = [att EXCEPT ![a] = [NoAttempt EXCEPT !.req = pass[p].r, !.status = status,
                                                 !.auto = pass[p].why # "hand"]]

(* The source is asked.  A refusal it explains is recorded as an attempt;   *)
(* one that nobody classified stops automation.                             *)
Resolve(p) ==
  /\ pass[p].pc = "resolve"
  /\ \/ \E a \in Attempts :
          NewAttempt(p, a, "queued") /\ Become(p, [pass[p] EXCEPT !.pc = "add", !.a = a])
     \/ \E a \in Attempts :
          /\ NewAttempt(p, a, "failed")
          /\ Become(p, [pass[p] EXCEPT !.pc = "rollback", !.halt = FALSE])
     \/ /\ Become(p, [pass[p] EXCEPT !.pc = "rollback", !.halt = TRUE])
        /\ UNCHANGED att
  /\ UNCHANGED <<req, client, todo, spent, passFrame>>

(* The client takes the release before its answer is here. *)
ClientTakes(p) ==
  /\ pass[p].pc = "add" /\ ~pass[p].took
  /\ client' = [client EXCEPT ![pass[p].a] = "working"]
  /\ pass' = [pass EXCEPT ![p].took = TRUE]
  /\ UNCHANGED <<req, att, todo, spent, passFrame>>

AddAnswered(p) ==
  /\ pass[p].pc = "add" /\ pass[p].took
  /\ MoveRequest(pass[p].r, {"grabbed"}, "grabbed")
  /\ Leave(p)
  /\ UNCHANGED <<att, client, todo, spent, passFrame>>

AddFails(p) ==
  /\ pass[p].pc = "add"
  /\ IF pass[p].took
       THEN spent.late < MaxLate /\ spent' = [spent EXCEPT !.late = @ + 1]
       ELSE UNCHANGED spent
  /\ \E halt \in BOOLEAN :
       pass' = [pass EXCEPT ![p].pc = "refuse", ![p].halt = halt, ![p].took = FALSE]
  /\ UNCHANGED <<req, att, client, todo, passFrame>>

(* Not conditional on what became of the attempt. *)
Refuse(p) ==
  /\ pass[p].pc = "refuse"
  /\ att' = [att EXCEPT ![pass[p].a].status = "failed"]
  /\ Goto(p, "rollback")
  /\ UNCHANGED <<req, client, todo, spent, passFrame>>

BugRollback(p) ==
  /\ pass[p].pc = "rollback"
  /\ \E more \in BOOLEAN : NotStarted(p, more /\ ~pass[p].halt /\ ~Spent(p))
  /\ UNCHANGED <<req, att, client, todo, spent, passFrame>>

Rollback(p) ==
  /\ pass[p].pc = "rollback"
  /\ MoveRequest(pass[p].r, {"grabbed"}, pass[p].prev)
  /\ \E more \in BOOLEAN : NotStarted(p, more /\ ~pass[p].halt /\ ~Spent(p))
  /\ UNCHANGED <<att, client, todo, spent, passFrame>>

GiveUp(p) ==
  /\ pass[p].pc = "giveup"
  /\ MoveRequest(pass[p].r, {"searching"}, "failed")
  /\ Leave(p)
  /\ UNCHANGED <<att, client, todo, spent, passFrame>>

PassStep(p) ==
  \/ RunTodo(p) \/ ClaimSearch(p) \/ SearchEnds(p) \/ ReadForGrab(p) \/ ClaimForGrab(p)
  \/ Resolve(p) \/ ClientTakes(p) \/ AddAnswered(p) \/ AddFails(p) \/ Refuse(p)
  \/ Rollback(p) \/ GiveUp(p)

-----------------------------------------------------------------------------
(* The monitor: one poll of an attempt at a time. *)

Unpolled(a) == poll' = [poll EXCEPT ![a] = IdlePoll]

PollAsks(a) ==
  /\ poll[a].pc = "idle" /\ att[a].status \in ActiveAttempt
  /\ poll' = [poll EXCEPT ![a] = [pc |-> "asked", was |-> att[a].status, done |-> FALSE]]
  /\ UNCHANGED <<rows, outside, work, todo, pass, person, stale, spent>>

PollUnanswered(a) ==
  /\ poll[a].pc = "asked"
  /\ Unpolled(a)
  /\ UNCHANGED <<rows, outside, work, todo, pass, person, stale, spent>>

Adding(a) == \E p \in Passes : pass[p].pc \in {"add", "refuse"} /\ pass[p].a = a

(* A client that never heard of the attempt gets a grace period. *)
PollFails(a) ==
  /\ poll[a].pc = "asked"
  /\ client[a] = "broken" \/ (client[a] = "none" /\ ~Adding(a))
  /\ FailDownload(a)
  /\ Unpolled(a)
  /\ UNCHANGED <<req, pointer, outside, queue, import, filing, holding, todo, pass,
                 person, stale, spent>>

(* What the update that reports progress is conditional on. *)
Reported(a) == ActiveAttempt

PollReports(a) ==
  /\ poll[a].pc = "asked"
  /\ \E status \in IF client[a] = "done" THEN {"completed"}
                    ELSE IF client[a] = "working" THEN ActiveAttempt ELSE {} :
       LET done == status = "completed"
           moves == poll[a].was = "queued" /\ status # "queued" IN
       /\ MoveAttempt(a, Reported(a), status)
       /\ IF att[a].status \in Reported(a) /\ moves
            THEN /\ poll' = [poll EXCEPT ![a].pc = "move", ![a].done = done]
                 /\ UNCHANGED queue
            ELSE /\ Unpolled(a)
                 /\ queue' = IF att[a].status \in Reported(a) /\ done
                               THEN Enqueued(a) ELSE queue
  /\ UNCHANGED <<req, pointer, outside, import, filing, failing, holding, todo, pass,
                 person, stale, spent>>

PollMoves(a) ==
  /\ poll[a].pc = "move"
  /\ MoveRequest(att[a].req, DownloadingFrom, "downloading")
  /\ queue' = IF poll[a].done THEN Enqueued(a) ELSE queue
  /\ Unpolled(a)
  /\ UNCHANGED <<pointer, att, outside, import, filing, failing, holding, todo, pass,
                 person, stale, spent>>

(* Finished downloads whose import never started. *)
ResumeUnimported(a) ==
  /\ att[a].status = "completed" /\ ~att[a].dock
  /\ queue' = Enqueued(a) /\ queue' # queue
  /\ UNCHANGED <<rows, outside, import, filing, failing, holding, todo, pass, poll,
                 person, stale, spent>>

PollStep(a) == PollAsks(a) \/ PollUnanswered(a) \/ PollFails(a) \/ PollReports(a)
               \/ PollMoves(a) \/ ResumeUnimported(a)

-----------------------------------------------------------------------------
(* failDownload and holdForReview after their first update. *)

FailRequest(a) ==
  LET r == att[a].req IN
  /\ a \in failing
  /\ failing' = failing \ {a}
  /\ MoveRequest(r, WorkerWritable, "failed")
  /\ todo' = IF req[r] \in WorkerWritable /\ att[a].auto
               THEN todo \cup {<<r, "retry">>} ELSE todo
  /\ UNCHANGED <<pointer, att, outside, queue, import, filing, holding, pass, poll,
                 person, stale, spent>>

(* A refused update throws: the import turns that into a failure. *)
HoldRequest(a, from) ==
  LET r == att[a].req IN
  /\ <<a, from>> \in holding
  /\ holding' = holding \ {<<a, from>>}
  /\ IF Clash(r, "needs_review")
       THEN /\ UNCHANGED req
            /\ IF from = "import" THEN FailDownload(a) ELSE UNCHANGED <<att, failing>>
       ELSE /\ MoveRequest(r, WorkerWritable, "needs_review")
            /\ UNCHANGED <<att, failing>>
  /\ UNCHANGED <<pointer, outside, queue, import, filing, todo, pass, poll, person,
                 stale, spent>>

-----------------------------------------------------------------------------
(* Imports. *)

importFrame == <<client, library, byHand, filing, todo, pass, poll, person, stale, spent>>

Imports(i, pc, a) == import' = [import EXCEPT ![i] = [pc |-> pc, a |-> a]]
Imported(i) == Imports(i, "idle", None)

(* The row is read again when its turn comes. *)
Reread(a) == att[a].status = "completed" /\ ~att[a].dock

StartImport ==
  /\ queue # <<>> /\ import["queue"].pc = "idle"
  /\ queue' = Tail(queue)
  /\ IF Reread(Head(queue)) THEN Imports("queue", "extract", Head(queue))
                            ELSE UNCHANGED import
  /\ UNCHANGED <<rows, dock, failing, holding, importFrame>>

BugImportChosen(a) ==
  /\ import["chosen"].pc = "idle" /\ att[a].units
  /\ MoveAttempt(a, Unsettled, "importing")
  /\ Imports("chosen", "extract", a)
  /\ UNCHANGED <<req, pointer, dock, queue, failing, holding, importFrame>>

(* A person picks one of the books a release holds. *)
ImportChosen(a) ==
  /\ import["chosen"].pc = "idle"
  /\ att[a].status = "needs_review" /\ att[a].units
  /\ MoveAttempt(a, {"needs_review"}, "importing")
  /\ Imports("chosen", "extract", a)
  /\ UNCHANGED <<req, pointer, dock, queue, failing, holding, importFrame>>

(* Minutes of extraction end in a failure, a question, or one book, for     *)
(* which an entry in the Book Dock is reserved.                             *)
Extract(i) ==
  LET a == import[i].a IN
  /\ import[i].pc = "extract"
  /\ \/ FailDownload(a) /\ Imported(i) /\ UNCHANGED <<dock, holding>>
     \/ /\ \E units \in BOOLEAN : /\ units => i = "queue"
                                  /\ HoldForReview(a, units, "import")
        /\ Imported(i) /\ UNCHANGED <<dock, failing>>
     \/ /\ dock' = [dock EXCEPT ![a] = "reserved"]
        /\ Imports(i, "claim", a) /\ UNCHANGED <<att, failing, holding>>
  /\ UNCHANGED <<req, pointer, queue, importFrame>>

(* The request is claimed for the import; one settled meanwhile gives the   *)
(* entry back and settles the attempt.                                      *)
ClaimRequest(i) ==
  LET a == import[i].a  r == att[a].req IN
  /\ import[i].pc = "claim"
  /\ IF Clash(r, "importing")
       THEN FailDownload(a) /\ Imported(i) /\ UNCHANGED <<req, pointer, dock>>
     ELSE IF req[r] \in WorkerWritable
       THEN /\ MoveRequest(r, WorkerWritable, "importing")
            /\ pointer' = [pointer EXCEPT ![r] = a]
            /\ Imports(i, "link", a)
            /\ UNCHANGED <<att, dock, failing>>
     ELSE /\ dock' = [dock EXCEPT ![a] = "none"]
          /\ MoveAttempt(a, Unsettled, "failed")
          /\ Imported(i)
          /\ UNCHANGED <<req, pointer, failing>>
  /\ UNCHANGED <<queue, holding, importFrame>>

(* Not conditional on what became of the attempt. *)
Link(i) ==
  /\ import[i].pc = "link"
  /\ att' = [att EXCEPT ![import[i].a].status = "importing", ![import[i].a].dock = TRUE]
  /\ Imports(i, "place", import[i].a)
  /\ UNCHANGED <<req, pointer, dock, queue, failing, holding, importFrame>>

(* The files are placed; or placing fails; or the name was taken, and an    *)
(* entry with another one needs the request's claim to be still there.      *)
Place(i) ==
  LET a == import[i].a
      gone == [dock EXCEPT ![a] = "none"] IN
  /\ import[i].pc = "place"
  /\ \/ /\ dock' = [dock EXCEPT ![a] = "placed"]
        /\ Imported(i) /\ UNCHANGED <<pointer, att, failing>>
     \/ /\ dock' = gone /\ pointer' = PointersWithout(a)
        /\ FailIn(AttemptsWithout(a), a)
        /\ Imported(i)
     \/ /\ req[att[a].req] # "importing"
        /\ dock' = gone /\ pointer' = PointersWithout(a)
        /\ att' = [AttemptsWithout(a) EXCEPT ![a].status = UpdateIf(@, Unsettled, "failed")]
        /\ Imported(i) /\ UNCHANGED failing
  /\ UNCHANGED <<req, queue, holding, importFrame>>

ImportStep(i) == Extract(i) \/ ClaimRequest(i) \/ Link(i) \/ Place(i)

-----------------------------------------------------------------------------
(* Verification and filing. *)

filingFrame == <<client, byHand, queue, import, todo, pass, poll, person, stale, spent>>

Files(f, pc) == filing' = [filing EXCEPT ![f].pc = pc]
Filed(f) == filing' = [filing EXCEPT ![f] = IdleFiling]

(* The Book Dock has read the metadata of an entry: for an entry that an    *)
(* import waits for, its verification starts.                               *)
Ingested(a) ==
  /\ dock[a] = "placed" /\ filing[a].pc = "idle"
  /\ att[a].dock /\ att[a].status = "importing"
  /\ filing' = [filing EXCEPT ![a] = [pc |-> "verify", file |-> a, a |-> a]]
  /\ UNCHANGED <<rows, dock, library, failing, holding, filingFrame>>

Verify(a) ==
  /\ filing[a].pc = "verify"
  /\ IF dock[a] # "placed"
       THEN FailDownload(a) /\ Filed(a) /\ UNCHANGED holding
       ELSE \/ Files(a, "file") /\ UNCHANGED <<att, failing, holding>>
            \/ HoldForReview(a, FALSE, "verify") /\ Filed(a) /\ UNCHANGED failing
  /\ UNCHANGED <<req, pointer, dock, library, filingFrame>>

(* A moderator files what is held.  The entry is the request's, or the one  *)
(* of its latest attempt.                                                   *)
HeldFile(r, a) == IF pointer[r] # None THEN pointer[r] ELSE IF att[a].dock THEN a ELSE None

FileHeld(r) ==
  /\ req[r] = "needs_review" /\ filing[Moderator].pc = "idle"
  /\ \E a \in Attempts :
       /\ IsLatest(r, a) /\ HeldFile(r, a) # None
       /\ filing' = [filing EXCEPT ![Moderator] =
                       [pc |-> "file", file |-> HeldFile(r, a), a |-> a]]
  /\ UNCHANGED <<rows, dock, library, failing, holding, filingFrame>>

BugFileIntoLibrary(f) ==
  /\ filing[f].pc = "file"
  /\ Files(f, "settle")
  /\ UNCHANGED <<rows, dock, library, failing, holding, filingFrame>>

(* The files move into the library once; a filing that fails is held, or    *)
(* reported to the moderator.                                               *)
FileIntoLibrary(f) ==
  LET file == filing[f].file  a == filing[f].a IN
  /\ filing[f].pc = "file"
  /\ \/ /\ dock[file] = "placed"
        /\ dock' = [dock EXCEPT ![file] = "filed"]
        /\ library' = [library EXCEPT ![att[a].req] = @ + 1]
        /\ pointer' = PointersWithout(file) /\ att' = AttemptsWithout(file)
        /\ Files(f, "settle") /\ UNCHANGED holding
     \/ /\ IF f = Moderator THEN UNCHANGED <<att, holding>>
                            ELSE HoldForReview(a, FALSE, "verify")
        /\ Filed(f) /\ UNCHANGED <<pointer, dock, library>>
  /\ UNCHANGED <<req, failing, filingFrame>>

BugSettle(f) ==
  LET r == att[filing[f].a].req IN
  /\ filing[f].pc = "settle"
  /\ req' = [req EXCEPT ![r] = "available"]
  /\ pointer' = [pointer EXCEPT ![r] = None]
  /\ Files(f, "mark")
  /\ UNCHANGED <<att, dock, library, failing, holding, filingFrame>>

Settle(f) ==
  LET r == att[filing[f].a].req IN
  /\ filing[f].pc = "settle"
  /\ MoveRequest(r, FileableFrom, "available")
  /\ pointer' = IF req[r] \in FileableFrom THEN [pointer EXCEPT ![r] = None] ELSE pointer
  /\ Files(f, "mark")
  /\ UNCHANGED <<att, dock, library, failing, holding, filingFrame>>

MarkImported(f) ==
  /\ filing[f].pc = "mark"
  /\ MoveAttempt(filing[f].a, Unsettled, "imported")
  /\ Filed(f)
  /\ UNCHANGED <<req, pointer, dock, library, failing, holding, filingFrame>>

FilingStep(f) == FileIntoLibrary(f) \/ Settle(f) \/ MarkImported(f)
-----------------------------------------------------------------------------
(* People cancel a request, stop a transfer, or fulfil a request by hand.   *)
(* A cancellation and a fulfilment take down the latest attempt whether or  *)
(* not the client agrees; stopping a transfer does not.                     *)

personFrame == <<library, todo, pass, poll, queue, import, filing, holding, stale>>

Free(p) == person' = [person EXCEPT ![p] = IdlePerson]
Does(p, pc) == person' = [person EXCEPT ![p].pc = pc]
Begins(p, pc, op, r, a, file) ==
  /\ person[p].pc = "idle"
  /\ person' = [person EXCEPT ![p] = [pc |-> pc, op |-> op, r |-> r, a |-> a, file |-> file]]

Cancel(p, r) ==
  /\ req[r] \in Cancellable
  /\ MoveRequest(r, Cancellable, "cancelled")
  /\ Begins(p, "detach", "cancel", r, None, None)
  /\ UNCHANGED <<pointer, att, dock, client, byHand, failing, spent, personFrame>>

StopTransfer(p, a) ==
  /\ att[a].status \in ActiveAttempt
  /\ spent.stops < MaxStops /\ spent' = [spent EXCEPT !.stops = @ + 1]
  /\ Begins(p, "detach", "stop", att[a].req, a, None)
  /\ UNCHANGED <<rows, dock, client, byHand, failing, personFrame>>

Fulfil(p, r) ==
  /\ req[r] \in Fulfillable
  /\ Begins(p, "detach", "fulfil", r, None, None)
  /\ UNCHANGED <<rows, dock, client, byHand, failing, spent, personFrame>>

(* The attempt to detach: the one to stop, or the latest there is by now.   *)
ToDetach(p) == IF person[p].op = "stop" THEN {person[p].a}
               ELSE {a \in Attempts : att[a].status # "absent" /\ IsLatest(person[p].r, a)}

Detach(p) ==
  /\ person[p].pc = "detach"
  /\ IF ToDetach(p) = {}
       THEN /\ IF person[p].op = "fulfil" THEN Does(p, "close") ELSE Free(p)
            /\ UNCHANGED client
       ELSE \E a \in ToDetach(p), refused \in BOOLEAN :
              /\ client' = IF refused THEN client ELSE [client EXCEPT ![a] = "none"]
              /\ IF refused /\ person[p].op = "stop" THEN Free(p)
                   ELSE person' = [person EXCEPT ![p].pc = "fail", ![p].a = a]
  /\ UNCHANGED <<rows, dock, byHand, failing, spent, personFrame>>

FailAttempt(p) ==
  LET a == person[p].a IN
  /\ person[p].pc = "fail"
  /\ MoveAttempt(a, InFlight, "failed")
  /\ CASE person[p].op = "fulfil" -> Does(p, "close")
       [] person[p].op = "stop" /\ att[a].status \in InFlight -> Does(p, "reopen")
       [] OTHER -> Free(p)
  /\ UNCHANGED <<req, pointer, dock, client, byHand, failing, spent, personFrame>>

Reopen(p) ==
  /\ person[p].pc = "reopen"
  /\ MoveRequest(person[p].r, ActiveTransferRequest, "approved")
  /\ Free(p)
  /\ UNCHANGED <<pointer, att, dock, client, byHand, failing, spent, personFrame>>

(* The request takes the Book Dock entry of the person, or none.            *)
Close(p) ==
  LET r == person[p].r IN
  /\ person[p].pc = "close"
  /\ IF req[r] \in Fulfillable
       THEN /\ MoveRequest(r, Fulfillable, "available")
            /\ pointer' = [pointer EXCEPT ![r] = None]
            /\ byHand' = byHand \cup {r}
            /\ Does(p, "sweep")
       ELSE Free(p) /\ UNCHANGED <<req, pointer, byHand>>
  /\ UNCHANGED <<att, dock, client, failing, spent, personFrame>>

SweepAttempts(p) ==
  /\ person[p].pc = "sweep"
  /\ att' = [a \in Attempts |->
               IF att[a].req = person[p].r
                 THEN [att[a] EXCEPT !.status = UpdateIf(@, InFlight, "failed")]
                 ELSE att[a]]
  /\ Free(p)
  /\ UNCHANGED <<req, pointer, dock, client, byHand, failing, spent, personFrame>>

-----------------------------------------------------------------------------
(* A moderator discards what is held.                                       *)

Discard(p, r) ==
  /\ req[r] = "needs_review"
  /\ \E a \in Attempts : /\ att[a].status # "absent" /\ IsLatest(r, a)
                         /\ Begins(p, "discard", "discard", r, a, HeldFile(r, a))
  /\ UNCHANGED <<rows, dock, client, byHand, failing, spent, personFrame>>

DiscardRequest(p) ==
  /\ person[p].pc = "discard"
  /\ MoveRequest(person[p].r, {"needs_review"}, "failed")
  /\ IF req[person[p].r] = "needs_review" THEN Does(p, "decline") ELSE Free(p)
  /\ UNCHANGED <<pointer, att, dock, client, byHand, failing, spent, personFrame>>

(* An attempt that is no longer held gives the request its hold back, once. *)
ReviewAgain(r) ==
  IF Clash(r, "needs_review") THEN UNCHANGED req
                              ELSE MoveRequest(r, {"failed"}, "needs_review")

DiscardAttempt(p) ==
  LET a == person[p].a IN
  /\ person[p].pc = "decline"
  /\ MoveAttempt(a, {"needs_review"}, "failed")
  /\ IF att[a].status = "needs_review" THEN Does(p, "empty") /\ UNCHANGED req
                                       ELSE ReviewAgain(person[p].r) /\ Free(p)
  /\ UNCHANGED <<pointer, dock, client, byHand, failing, spent, personFrame>>

(* The entry goes, unless it has gone already, or the Book Dock refuses.    *)
Empty(p) ==
  LET f == person[p].file IN
  /\ person[p].pc = "empty"
  /\ IF f = None THEN Free(p) /\ UNCHANGED <<pointer, att, dock, spent>>
     ELSE \/ /\ dock[f] # "filed" /\ dock' = [dock EXCEPT ![f] = "none"]
             /\ pointer' = PointersWithout(f) /\ att' = AttemptsWithout(f)
             /\ Free(p) /\ UNCHANGED spent
          \/ /\ dock[f] = "filed" /\ Free(p) /\ UNCHANGED <<pointer, att, dock, spent>>
          \/ /\ spent.undone < MaxUndone /\ spent' = [spent EXCEPT !.undone = @ + 1]
             /\ Does(p, "undo") /\ UNCHANGED <<pointer, att, dock>>
  /\ UNCHANGED <<req, client, byHand, failing, personFrame>>

(* Both rows go back to where they were; neither waits for the other, and   *)
(* the model takes the request's update first.                              *)
UndoRequest(p) ==
  /\ person[p].pc = "undo"
  /\ ReviewAgain(person[p].r) /\ Does(p, "restore")
  /\ UNCHANGED <<pointer, att, dock, client, byHand, failing, spent, personFrame>>

UndoAttempt(p) ==
  /\ person[p].pc = "restore"
  /\ MoveAttempt(person[p].a, {"failed"}, "needs_review") /\ Free(p)
  /\ UNCHANGED <<req, pointer, dock, client, byHand, failing, spent, personFrame>>

PersonStep(p) ==
  \/ Detach(p) \/ FailAttempt(p) \/ Reopen(p) \/ Close(p) \/ SweepAttempts(p)
  \/ DiscardRequest(p) \/ DiscardAttempt(p) \/ Empty(p) \/ UndoRequest(p)
  \/ UndoAttempt(p)

-----------------------------------------------------------------------------
(* The Book Dock and the download client, as far as they act on their own.  *)

DockEmptied(a) ==
  /\ dock[a] = "placed"
  /\ dock' = [dock EXCEPT ![a] = "none"]
  /\ pointer' = PointersWithout(a) /\ att' = AttemptsWithout(a)
  /\ UNCHANGED <<req, client, library, byHand, work, todo, pass, poll, person, stale,
                 spent>>

ClientEnds(a) ==
  /\ client[a] = "working"
  /\ \E end \in {"done", "broken"} : client' = [client EXCEPT ![a] = end]
  /\ UNCHANGED <<rows, dock, library, byHand, work, todo, pass, poll, person, stale,
                 spent>>

-----------------------------------------------------------------------------
(* The watchdog reads a batch of attempts that nothing has touched for      *)
(* hours, and fails them one by one.  It finds work that is still going on  *)
(* only when that takes hours too.                                          *)

InImport(a) == \/ \E k \in DOMAIN queue : queue[k] = a
               \/ \E i \in Importers : import[i].a = a

WorkedOn(a) ==
  \/ Adding(a) \/ poll[a].pc # "idle" \/ InImport(a)
  \/ dock[a] = "placed" /\ att[a].dock /\ att[a].status = "importing"
  \/ \E f \in Filers : filing[f].pc # "idle" /\ a \in {filing[f].a, filing[f].file}

BugOverdue == ActiveAttempt \cup {"completed"}

Overdue == ActiveAttempt \cup {"completed", "importing"}

WatchdogReads(a) ==
  /\ att[a].status \in Overdue /\ a \notin stale
  /\ ~WorkedOn(a)
  /\ stale' = stale \cup {a}
  /\ UNCHANGED <<rows, outside, work, todo, pass, poll, person, spent>>

WatchdogActs(a) ==
  /\ a \in stale
  /\ stale' = stale \ {a}
  /\ IF WorkedOn(a) \/ att[a].status = "needs_review"
       THEN spent.timeouts < MaxTimeouts /\ spent' = [spent EXCEPT !.timeouts = @ + 1]
       ELSE UNCHANGED spent
  /\ FailDownload(a)
  /\ UNCHANGED <<req, pointer, outside, queue, import, filing, holding, todo, pass, poll,
                 person>>

ReleaseStranded(r) ==
  /\ req[r] = "searching"
  /\ IF \E p \in Passes : pass[p].r = r
       THEN spent.timeouts < MaxTimeouts /\ spent' = [spent EXCEPT !.timeouts = @ + 1]
       ELSE UNCHANGED spent
  /\ MoveRequest(r, {"searching"}, "approved")
  /\ UNCHANGED <<pointer, att, outside, work, todo, pass, poll, person, stale>>

AbandonSelfServe(r) ==
  /\ r \in SelfServe /\ req[r] \in Abandonable
  /\ \A a \in Attempts : att[a].req # r
  /\ MoveRequest(r, Abandonable, "cancelled")
  /\ UNCHANGED <<pointer, att, outside, work, todo, pass, poll, person, stale, spent>>

(* A restart keeps the tables, the Book Dock, the client and the library.   *)
ServerCrash ==
  /\ spent.crashes < MaxCrashes /\ spent' = [spent EXCEPT !.crashes = @ + 1]
  /\ todo' = {} /\ pass' = [p \in Passes |-> IdlePass]
  /\ poll' = [a \in Attempts |-> IdlePoll]
  /\ queue' = <<>> /\ import' = [i \in Importers |-> IdleImport]
  /\ filing' = [f \in Filers |-> IdleFiling]
  /\ failing' = {} /\ holding' = {}
  /\ person' = [p \in Persons |-> IdlePerson] /\ stale' = {}
  /\ UNCHANGED <<rows, outside>>

-----------------------------------------------------------------------------
Next ==
  \/ \E r \in Requests : Submit(r) \/ Approve(r) \/ Reject(r) \/ ListForResearch(r)
  \/ \E p \in Passes : PassStep(p) \/ GrabByHand(p)
  \/ \E a \in Attempts : PollStep(a) \/ FailRequest(a)
  \/ \E a \in Attempts, from \in {"import", "verify"} : HoldRequest(a, from)
  \/ StartImport \/ \E i \in Importers : ImportStep(i)
  \/ \E a \in Attempts : ImportChosen(a) \/ Ingested(a) \/ Verify(a)
  \/ \E f \in Filers : FilingStep(f)
  \/ \E r \in Requests : FileHeld(r)
  \/ \E p \in Persons, r \in Requests : Cancel(p, r) \/ Fulfil(p, r) \/ Discard(p, r)
  \/ \E p \in Persons, a \in Attempts : StopTransfer(p, a)
  \/ \E p \in Persons : PersonStep(p)
  \/ \E a \in Attempts : DockEmptied(a) \/ ClientEnds(a)
  \/ \E a \in Attempts : WatchdogReads(a) \/ WatchdogActs(a)
  \/ \E r \in Requests : ReleaseStranded(r) \/ AbandonSelfServe(r)
  \/ ServerCrash

Spec == Init /\ [][Next]_vars

(* Everything the server has begun goes on; the poll, the import queue, the *)
(* events of the Book Dock and the watchdog's sweeps come round; a transfer *)
(* that goes on for good is one the watchdog finds without progress.        *)
(* Nothing is assumed of people or of the download client.                  *)
Fairness ==
  /\ \A p \in Passes : WF_vars(PassStep(p))
  /\ \A a \in Attempts :
       /\ WF_vars(PollAsks(a))
       /\ WF_vars(PollUnanswered(a) \/ PollFails(a) \/ PollReports(a) \/ PollMoves(a))
       /\ WF_vars(ResumeUnimported(a)) /\ WF_vars(FailRequest(a))
       /\ \A from \in {"import", "verify"} : WF_vars(HoldRequest(a, from))
       /\ WF_vars(Ingested(a)) /\ WF_vars(Verify(a))
       /\ SF_vars(WatchdogReads(a)) /\ SF_vars(WatchdogActs(a))
  /\ WF_vars(StartImport)
  /\ \A i \in Importers : WF_vars(ImportStep(i))
  /\ \A f \in Filers : WF_vars(FilingStep(f))
  /\ \A p \in Persons : WF_vars(PersonStep(p))

FairSpec == Spec /\ Fairness
-----------------------------------------------------------------------------
(* Properties. *)

(* A decision stands: whatever the workers write later, a request that was  *)
(* cancelled, rejected or fulfilled stays so.                               *)
Closed == {"cancelled", "rejected", "available"}
SettledStays == [][\A r \in Requests : req[r] \in Closed => req'[r] = req[r]]_vars

(* At most one grab at a time is fetching a release for a request.          *)
Fetches(p, r) ==
  /\ pass[p].r = r
  /\ \/ pass[p].pc = "resolve"
     \/ pass[p].pc = "add" /\ att[pass[p].a].status \in InFlight
OneGrab == \A r \in Requests : Cardinality({p \in Passes : Fetches(p, r)}) <= 1

(* Nothing is downloaded for a request that no grab has claimed.            *)
Claimed == \A a \in Attempts : att[a].status \in ActiveAttempt =>
  req[att[a].req] \in ActiveTransferRequest \cup Closed

(* One request puts at most one copy in the library.                        *)
OneCopy == \A r \in Requests : library[r] <= 1

(* Nobody is told of a book that is not there: an available request had a   *)
(* copy filed for it, or was fulfilled by hand.                             *)
AvailableHasBook == \A r \in Requests :
  req[r] = "available" => r \in byHand \/ library[r] > 0

(* Automation makes no more attempts for a request than the limit allows.   *)
Budget == \A r \in Requests : Automated(r) <= AutoLimit

(* A status that says that somebody is working has somebody working: an     *)
(* attempt that is not settled, a grab, or a person's operation.            *)
Working(r) ==
  \/ \E a \in Attempts : att[a].req = r /\ (att[a].status \in Unsettled \/ a \in failing)
  \/ \E p \in Passes : pass[p].r = r
  \/ \E p \in Persons : person[p].r = r
WorkerBacked == \A r \in Requests :
  req[r] \in {"grabbed", "downloading", "importing"} => Working(r)

(* Work ends: a request does not stay in the hands of a worker for good.    *)
InWork(r) == req[r] \in {"grabbed", "downloading", "importing"}
WorkEnds == \A r \in Requests : InWork(r) ~> ~InWork(r)

(* The whole keeps the promise of RequestPromise to everybody who asks.     *)
PhaseOf(status) ==
  CASE status = "absent" -> "none"
    [] status = "pending" -> "asked"
    [] status = "rejected" -> "refused"
    [] status = "cancelled" -> "cancelled"
    [] status = "available" -> "answered"
    [] OTHER -> "agreed"
Promise == INSTANCE RequestPromise WITH
  phase <- [r \in Requests |-> PhaseOf(req[r])],
  has <- {r \in Requests : r \in byHand \/ library[r] > 0}
KeepsPromise == Promise!Spec
-----------------------------------------------------------------------------
(* Assumptions on behaviours.                                               *)

(* Two updates that follow one another without any work between them are    *)
(* not overtaken: the second is the next step.                              *)
Halfway ==
  \/ failing # {} \/ holding # {} \/ \E a \in Attempts : poll[a].pc = "move"
  \/ \E p \in Persons : person[p].pc \in {"decline", "undo", "restore"}
Completes ==
  \/ \E a \in Attempts : FailRequest(a) \/ PollMoves(a)
  \/ \E a \in Attempts, from \in {"import", "verify"} : HoldRequest(a, from)
  \/ \E p \in Persons : DiscardAttempt(p) \/ UndoRequest(p) \/ UndoAttempt(p)
  \/ ServerCrash
Prompt == Halfway => Completes

(* One person at a time decides about what is held.                         *)
Alone == \A p \in Persons : person[p].op = "discard" =>
  filing[Moderator].pc = "idle" /\ import["chosen"].pc = "idle"
=============================================================================
