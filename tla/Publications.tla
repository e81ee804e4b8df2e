---------------------------- MODULE Publications ----------------------------
(***************************************************************************)
(* The replacement of one book file by a new revision                      *)
(* (RevisionPublicationService) and its recovery.  A publication stages    *)
(* the new bytes and a copy of the old ones beside the file, writes a      *)
(* journal row, renames the new bytes over the file, makes them the        *)
(* current revision, and clears up.  File operations are not undone when   *)
(* the transaction around them is lost.                                    *)
(*                                                                         *)
(* Metadata writes publish for nobody in particular, story updates,        *)
(* rollbacks and uploaded replacements for a job; recoverPending finishes  *)
(* the former, the job or FanfictionRecoveryService the latter.  Every     *)
(* transaction takes the advisory lock of the file and reads the journal   *)
(* again.  The three transactions of a publication, and a metadata write   *)
(* from its beginning, hold the book lock of the server as well.           *)
(*                                                                         *)
(* A checksum is a number: 1 at first, p + 1 for the bytes made for p, and *)
(* above N + 1 what something else wrote.  Revision 0 is the first, p the  *)
(* one of publication p, above N what was found on disk.                   *)
(***************************************************************************)
EXTENDS Integers, FiniteSets

CONSTANTS
  Jobs,             \* story updates, rollbacks and replacements of the file
  Writer,           \* metadata writes
  \* Bounds of the model.
  N,                \* publications
  MaxOutside,       \* changes of the file by something else
  MaxFaults,        \* crashes, and transactions lost
  MaxStops          \* jobs cancelled or failed, and retried

ASSUME PublicationsAssumption ==
  /\ N \in Nat \ {0} /\ MaxOutside \in Nat /\ MaxFaults \in Nat /\ MaxStops \in Nat
  /\ IsFiniteSet(Jobs) /\ Writer \notin Jobs

VARIABLES
  target,     \* the book file
  dirs,       \* the staging directory of each publication
  kept,       \* the retained file of each revision
  row,        \* the current revision of the file
  revs,       \* the revisions: checksum, and where the bytes are kept
  pub,        \* the journal, and what is being prepared
  book,       \* the holder of the book lock: a publication, resumed as what
  tx,         \* the transaction that holds the lock of the file
  job,        \* the jobs: state, and the revision they report
  spent       \* what is used up of the bounds

vars == <<target, dirs, kept, row, revs, pub, book, tx, job, spent>>
files == <<target, dirs, kept>>

Pubs == 1..N
Revs == 0..(N + MaxOutside)
Absent == 0
Fresh(p) == p + 1
IsForeign(c) == c > N + 1
Contents == 1..(N + 1 + MaxOutside)

Empty == [staged |-> Absent, backup |-> Absent]
Unused == [state |-> "unused", by |-> Writer, expected |-> 0, prev |-> 1, next |-> 1,
           review |-> "none", settled |-> FALSE]
Nobody == [pub |-> 0, as |-> "none"]
NoTx == [pub |-> 0, step |-> "none"]

TypeOK ==
  /\ target \in Contents
  /\ dirs \in [Pubs -> [staged : {Absent} \cup Contents, backup : {Absent} \cup Contents]]
  /\ kept \in [Revs -> {Absent} \cup Contents]
  /\ revs \in [Revs -> [sha : {Absent} \cup Contents, storage : {"none", "backup", "kept"}]]
  /\ row \in Revs /\ revs[row].sha # Absent
  /\ pub \in [Pubs ->
       [state : {"unused", "staged", "dropped", "prepared", "filesystem_published",
                 "database_committed", "cleanup_complete", "failed"},
        by : Jobs \cup {Writer}, expected : Revs, prev : Contents, next : Contents,
        review : {"none", "content", "metadata"}, settled : BOOLEAN]]
  /\ book \in [pub : {0} \cup Pubs, as : {"none", "owner", "recovery"}]
  /\ tx \in [pub : {0} \cup Pubs, step : {"none", "checked", "renamed", "retained", "removed", "pruned"}]
  /\ job \in [Jobs -> [state : {"active", "content_review", "metadata_review", "stopped", "done"},
                       receipt : Revs]]
  /\ spent \in [outside : 0..MaxOutside, observed : 0..MaxOutside, faults : Nat, stops : Nat]

Init ==
  /\ target = 1 /\ row = 0
  /\ dirs = [p \in Pubs |-> Empty] /\ kept = [r \in Revs |-> Absent]
  /\ revs = [r \in Revs |-> [sha |-> IF r = 0 THEN 1 ELSE Absent, storage |-> "none"]]
  /\ pub = [p \in Pubs |-> Unused] /\ book = Nobody /\ tx = NoTx
  /\ job = [j \in Jobs |-> [state |-> "active", receipt |-> 0]]
  /\ spent = [outside |-> 0, observed |-> 0, faults |-> 0, stops |-> 0]

Active(p) == pub[p].state \in {"prepared", "filesystem_published"}
Committed(p) == pub[p].state \in {"database_committed", "cleanup_complete"}
Ended(p) == pub[p].state \in {"cleanup_complete", "failed"}
Owned(p) == pub[p].by # Writer
Idle == tx = NoTx
To(p, s) == pub' = [pub EXCEPT ![p].state = s]

-----------------------------------------------------------------------------
(* Preparing. *)

(* A job finds what it has published before it begins again.               *)
Owns(j) == \E p \in Pubs : pub[p].by = j /\ (Active(p) \/ Committed(p))

Readable(r) ==
  CASE revs[r].storage = "kept"   -> kept[r]
    [] revs[r].storage = "backup" ->
         dirs[CHOOSE p \in Pubs : Committed(p) /\ pub[p].expected = r].backup
    [] OTHER -> Absent

(* Outside the lock: new bytes, the current ones again, or those of a       *)
(* retained revision; beside them a copy of a file that has the checksum of *)
(* the current revision.                                                    *)
Stage(p, by, c) ==
  /\ pub[p].state = "unused" /\ \A q \in 1..(p - 1) : pub[q].state # "unused"
  /\ target = revs[row].sha
  /\ IF by = Writer
     THEN c = Fresh(p) /\ book = Nobody /\ book' = [pub |-> p, as |-> "owner"]
     ELSE /\ UNCHANGED book
          /\ job[by].state = "active" /\ job[by].receipt = 0 /\ ~Owns(by)
          /\ c \in {Fresh(p), target} \cup ({Readable(r) : r \in Revs} \ {Absent})
  /\ dirs' = [dirs EXCEPT ![p] = [staged |-> c, backup |-> target]]
  /\ pub' = [pub EXCEPT ![p] = [Unused EXCEPT !.state = "staged", !.by = by, !.expected = row,
                                              !.prev = target, !.next = c]]
  /\ UNCHANGED <<target, kept, row, revs, tx, job, spent>>

(* A metadata write goes on for as long as the server runs.                 *)
Doing(p) == IF Owned(p) THEN job[pub[p].by].state ELSE "active"

BugMayJournal(p) == row = pub[p].expected
MayJournal(p) == row = pub[p].expected /\ ~\E q \in Pubs : Active(q)

Release(p) == book' = IF book.pub = p THEN Nobody ELSE book

(* An update may have to be reviewed before it goes on.                     *)
Journal(p) ==
  /\ pub[p].state = "staged" /\ Idle /\ Doing(p) = "active" /\ MayJournal(p)
  /\ \E r \in IF Owned(p) THEN {"none", "content", "metadata"} ELSE {"none"} :
       pub' = [pub EXCEPT ![p].state = "prepared", ![p].review = r]
  /\ UNCHANGED <<files, row, revs, tx, book, job, spent>>

Discard(p) ==
  /\ pub[p].state = "staged"
  /\ To(p, "dropped") /\ Release(p) /\ dirs' = [dirs EXCEPT ![p] = Empty]
  /\ UNCHANGED <<target, kept, row, revs, tx, job, spent>>

-----------------------------------------------------------------------------
(* Resuming. *)

(* Recovery steps in for a job that neither runs nor waits for a review of  *)
(* its metadata.                                                            *)
Interrupted(p) == Doing(p) \notin {"active", "metadata_review"}

(* It never installs: it goes on from bytes that are in place.              *)
InPlace(p) ==
  \/ Committed(p)
  \/ target = pub[p].next /\ (pub[p].next # pub[p].prev \/ pub[p].state # "prepared")

Allowed(p, as) ==
  IF as = "recovery" THEN Interrupted(p) ELSE Doing(p) = "active" /\ pub[p].review = "none"

MayPublish(p) ==
  /\ pub[p].state = "prepared" /\ row = pub[p].expected
  /\ target # pub[p].next =>
       /\ book.as = "owner" /\ target = pub[p].prev
       /\ dirs[p] = [staged |-> pub[p].next, backup |-> pub[p].prev]

MayCommit(p) ==
  pub[p].state = "filesystem_published" /\ row = pub[p].expected /\ target = pub[p].next

(* The copy of the old bytes moves to the retained revisions, unless a      *)
(* later clean-up has given it up already.                                  *)
Retains(p) == Owned(p) /\ revs[pub[p].expected].storage # "none"

BugMayClean(p) ==
  /\ pub[p].state = "database_committed"
  /\ Retains(p) => pub[p].prev = dirs[p].backup
MayClean(p) ==
  /\ pub[p].state = "database_committed"
  /\ Retains(p) => pub[p].prev \in {kept[pub[p].expected], dirs[p].backup}

Resume(p, as) ==
  /\ book = Nobody /\ (Active(p) \/ pub[p].state = "database_committed")
  /\ Allowed(p, as) /\ (as = "recovery" => InPlace(p))
  /\ book' = [pub |-> p, as |-> as]
  /\ UNCHANGED <<files, row, revs, pub, tx, job, spent>>

(* Each transaction asks again, and an error ends the whole of it.          *)
Begins(p) == book.pub = p /\ Idle /\ Allowed(p, book.as)

GiveUp(p) ==
  /\ book.pub = p /\ Idle /\ pub[p].state # "staged"
  /\ ~(Allowed(p, book.as) /\ (MayPublish(p) \/ MayCommit(p) \/ MayClean(p)))
  /\ book' = Nobody
  /\ UNCHANGED <<files, row, revs, pub, tx, job, spent>>

Publish(p) ==
  /\ Begins(p) /\ MayPublish(p)
  /\ tx' = [pub |-> p, step |-> IF target = pub[p].next THEN "renamed" ELSE "checked"]
  /\ UNCHANGED <<files, row, revs, pub, book, job, spent>>

(* Nothing looks at the file again before it is replaced.                   *)
Rename ==
  LET p == tx.pub IN
  /\ tx.step = "checked"
  /\ target' = dirs[p].staged /\ dirs' = [dirs EXCEPT ![p].staged = Absent]
  /\ tx' = [tx EXCEPT !.step = "renamed"]
  /\ UNCHANGED <<kept, row, revs, pub, book, job, spent>>

CommitPublish ==
  /\ tx.step = "renamed"
  /\ To(tx.pub, "filesystem_published") /\ tx' = NoTx
  /\ UNCHANGED <<files, row, revs, book, job, spent>>

BugCommitRevision(p) ==
  /\ Begins(p) /\ MayCommit(p)
  /\ revs' = [revs EXCEPT ![row].storage = IF Owned(p) THEN "backup" ELSE @]
  /\ row' = p /\ To(p, "database_committed")
  /\ UNCHANGED <<files, book, tx, job, spent>>
CommitRevision(p) ==
  /\ Begins(p) /\ MayCommit(p)
  /\ revs' = [revs EXCEPT ![p].sha = pub[p].next,
                          ![row].storage = IF Owned(p) THEN "backup" ELSE @]
  /\ row' = p /\ To(p, "database_committed")
  /\ UNCHANGED <<files, tx, book, job, spent>>

Retain(p) ==
  /\ Begins(p) /\ MayClean(p)
  /\ kept' = IF Retains(p) THEN [kept EXCEPT ![pub[p].expected] = pub[p].prev] ELSE kept
  /\ tx' = [pub |-> p, step |-> "retained"]
  /\ UNCHANGED <<target, dirs, row, revs, pub, book, job, spent>>

RemoveDirectory ==
  /\ tx.step = "retained"
  /\ dirs' = [dirs EXCEPT ![tx.pub] = Empty]
  /\ tx' = [tx EXCEPT !.step = "removed"]
  /\ UNCHANGED <<target, kept, row, revs, pub, book, job, spent>>

Latest == CHOOSE p \in Pubs : Committed(p) /\ \A q \in Pubs : Committed(q) => q <= p

BugPrunes(p) == IF Owned(p) THEN {q \in Pubs : Committed(q) /\ revs[pub[q].expected].storage # "none"} ELSE {}
(* The publications whose old bytes are given up: all but the latest's.     *)
Prunes(p) ==
  IF Owned(p)
  THEN {q \in Pubs : Committed(q) /\ pub[q].expected # pub[Latest].expected
                     /\ revs[pub[q].expected].storage # "none"}
  ELSE {}

(* Where the bytes are, as this transaction sees it.                        *)
InLibrary(p, q) == IF q = p THEN Retains(p) ELSE revs[pub[q].expected].storage = "kept"

Prune ==
  LET p == tx.pub IN
  /\ tx.step = "removed"
  /\ kept' = [r \in Revs |->
       IF \E q \in Prunes(p) : pub[q].expected = r /\ InLibrary(p, q) THEN Absent ELSE kept[r]]
  /\ dirs' = [q \in Pubs |->
       IF q \in Prunes(p) /\ ~InLibrary(p, q) THEN [dirs[q] EXCEPT !.backup = Absent] ELSE dirs[q]]
  /\ tx' = [tx EXCEPT !.step = "pruned"]
  /\ UNCHANGED <<target, row, revs, pub, book, job, spent>>

CommitCleanup ==
  LET p == tx.pub IN
  /\ tx.step = "pruned"
  /\ revs' = [r \in Revs |->
       [revs[r] EXCEPT !.storage = IF \E q \in Prunes(p) : pub[q].expected = r THEN "none"
                                   ELSE IF r = pub[p].expected /\ Retains(p) THEN "kept" ELSE @]]
  /\ To(p, "cleanup_complete") /\ tx' = NoTx /\ book' = Nobody
  /\ UNCHANGED <<files, row, job, spent>>

-----------------------------------------------------------------------------
(* Cancelling and recovery. *)

BugUntouched(p) == pub[p].state = "prepared"
Untouched(p) == pub[p].state = "prepared" /\ target = pub[p].prev

(* A job whose matches have gone stale takes its update back, and the       *)
(* recovery that of a job that has stopped.                                 *)
FailPublication(p) ==
  /\ Idle /\ Owned(p) /\ Untouched(p)
  /\ \/ Doing(p) = "active"
     \/ Interrupted(p) /\ ~InPlace(p)
  /\ To(p, "failed")
  /\ UNCHANGED <<files, row, revs, tx, book, job, spent>>

RemoveFailed(p) ==
  /\ pub[p].state = "failed" /\ dirs[p] # Empty
  /\ dirs' = [dirs EXCEPT ![p] = Empty]
  /\ UNCHANGED <<target, kept, row, revs, pub, tx, book, job, spent>>

(* The job is told of the revision it has published, if it does not know.   *)
Acknowledge(p) ==
  LET j == pub[p].by IN
  /\ Owned(p) /\ Ended(p) /\ ~pub[p].settled /\ dirs[p] = Empty
  /\ Interrupted(p) \/ job[j].receipt = p
  /\ pub' = [pub EXCEPT ![p].settled = TRUE]
  /\ job' = IF pub[p].state = "cleanup_complete"
            THEN [job EXCEPT ![j] = [state |-> "done", receipt |-> p]] ELSE job
  /\ UNCHANGED <<files, row, revs, tx, spent, book>>

-----------------------------------------------------------------------------
(* Jobs. *)

(* The transaction of a job holds the job's row as well.                    *)
BugUnheld(j) == j \in Jobs
Unheld(j) == tx.pub \in Pubs => pub[tx.pub].by # j

Finish(j) ==
  /\ job[j].state = "active"
  /\ \E p \in Pubs :
       /\ pub[p].by = j /\ pub[p].state = "cleanup_complete"
       /\ job' = [job EXCEPT ![j] = [state |-> "done", receipt |-> p]]
  /\ UNCHANGED <<files, row, revs, pub, tx, spent, book>>

AskReview(j) ==
  /\ job[j].state = "active"
  /\ \E p \in Pubs :
       /\ pub[p].by = j /\ pub[p].state = "prepared" /\ pub[p].review # "none"
       /\ job' = [job EXCEPT ![j].state =
                    IF pub[p].review = "content" THEN "content_review" ELSE "metadata_review"]
  /\ UNCHANGED <<files, row, revs, pub, tx, spent, book>>

Approve(j) ==
  /\ job[j].state \in {"content_review", "metadata_review"} /\ Unheld(j)
  /\ job' = [job EXCEPT ![j].state = "active"]
  /\ pub' = [p \in Pubs |-> IF pub[p].by = j THEN [pub[p] EXCEPT !.review = "none"] ELSE pub[p]]
  /\ UNCHANGED <<files, row, revs, tx, spent, book>>

(* Cancelled, failed, or turned down.                                       *)
Stop(j) ==
  /\ job[j].state \notin {"stopped", "done"} /\ Unheld(j)
  /\ job' = [job EXCEPT ![j].state = "stopped"]
  /\ UNCHANGED <<files, row, revs, pub, tx, spent, book>>

Retry(j) ==
  /\ job[j].state = "stopped" /\ Unheld(j) /\ spent.stops < MaxStops
  /\ job' = [job EXCEPT ![j].state = "active"]
  /\ spent' = [spent EXCEPT !.stops = @ + 1]
  /\ UNCHANGED <<files, row, revs, pub, tx, book>>

-----------------------------------------------------------------------------
(* The surroundings. *)

(* Something else writes the file, whatever the server is doing.            *)
Outside ==
  /\ spent.outside < MaxOutside
  /\ target' = N + 2 + spent.outside
  /\ spent' = [spent EXCEPT !.outside = @ + 1]
  /\ UNCHANGED <<dirs, kept, row, revs, pub, tx, book, job>>

(* The scanner finds the file changed.                                      *)
Observe ==
  /\ Idle /\ ~\E p \in Pubs : Active(p)
  /\ target # revs[row].sha /\ spent.observed < MaxOutside
  /\ row' = N + 1 + spent.observed
  /\ revs' = [revs EXCEPT ![row'] = [sha |-> target, storage |-> "none"]]
  /\ spent' = [spent EXCEPT !.observed = @ + 1]
  /\ UNCHANGED <<files, pub, tx, book, job>>

Fault ==
  /\ spent.faults < MaxFaults /\ spent' = [spent EXCEPT !.faults = @ + 1]
  /\ tx' = NoTx /\ book' = Nobody

(* A transaction fails, between two of its steps or as a whole.             *)
Lose ==
  /\ \E p \in Pubs : book.pub = p /\ pub[p].state # "staged"
  /\ Fault /\ UNCHANGED <<files, row, revs, pub, job>>

(* What was being prepared is forgotten, its directory stays.               *)
Crash ==
  /\ Fault
  /\ pub' = [p \in Pubs |->
       IF pub[p].state = "staged" THEN [pub[p] EXCEPT !.state = "dropped"] ELSE pub[p]]
  /\ UNCHANGED <<files, row, revs, job>>

-----------------------------------------------------------------------------
Next ==
  \/ \E p \in Pubs, by \in Jobs \cup {Writer}, c \in Contents : Stage(p, by, c)
  \/ \E p \in Pubs : Journal(p) \/ Discard(p)
  \/ \E p \in Pubs : GiveUp(p) \/ Publish(p) \/ CommitRevision(p) \/ Retain(p)
  \/ \E p \in Pubs, as \in {"owner", "recovery"} : Resume(p, as)
  \/ Rename \/ CommitPublish \/ RemoveDirectory \/ Prune \/ CommitCleanup
  \/ \E p \in Pubs : FailPublication(p) \/ RemoveFailed(p) \/ Acknowledge(p)
  \/ \E j \in Jobs : Finish(j) \/ AskReview(j) \/ Approve(j) \/ Stop(j) \/ Retry(j)
  \/ Outside \/ Observe \/ Lose \/ Crash

Spec == Init /\ [][Next]_vars

-----------------------------------------------------------------------------
(* Properties. *)

(* The bytes on disk are those of the current revision, or of a publication *)
(* that will make them so, or something else wrote them: no crash leaves a  *)
(* file that nothing accounts for (resumeLocked, commitPublished).          *)
RowExplained ==
  \/ target = revs[row].sha
  \/ IsForeign(target)
  \/ \E p \in Pubs : Active(p) /\ pub[p].next = target

(* A publication under way is always for the current revision: nothing that *)
(* was published or found meanwhile is overwritten by it (prepareInternal,  *)
(* observeFile).                                                            *)
StillExpected == \A p \in Pubs : Active(p) => row = pub[p].expected

(* The bytes a story update or replacement took the place of can be read at *)
(* every moment until something else takes the place of the new ones        *)
(* (cleanup, pruneRetainedFiles).                                           *)
CopyOf(p) ==
  \/ kept[pub[p].expected] = pub[p].prev
  \/ dirs[p].backup = pub[p].prev /\ pub[p].state = "database_committed"
RollbackKept == \A p \in Pubs : Committed(p) /\ Owned(p) /\ p = Latest => CopyOf(p)

(* Recovery of a job installs nothing that was not in place (settle).       *)
NoInstallAfterStop ==
  [][\A p \in Pubs : Interrupted(p) => ~(Rename /\ tx.pub = p)]_vars

(* The bytes an update has prepared are there until it has been reviewed    *)
(* (fanfiction-updates.integration.test.ts:393).                            *)
StagedUntilReviewed ==
  \A j \in Jobs : job[j].state = "content_review" =>
    \E p \in Pubs : pub[p].by = j /\ pub[p].state = "prepared" /\ dirs[p].staged = pub[p].next

(* No crash and no lost transaction leaves a publication that recovery can  *)
(* neither finish nor take back, which would keep the book from being moved *)
(* for ever: its steps can be done again from wherever they stopped.  Two   *)
(* things end this: something else wrote the file, or the copy to retain    *)
(* was given up by a clean-up that was lost: it keeps the copy of the latest *)
(* publication, a metadata write also when an older one is of a story       *)
(* (settle, resumeLocked, recoverPending, withRelocation).                  *)
LeftBehind(p) ==
  /\ Active(p) \/ pub[p].state = "database_committed"
  /\ Idle /\ (Owned(p) => Interrupted(p))
CopyLost(p) == pub[p].state = "database_committed" /\ Retains(p) /\ ~CopyOf(p)
Recoverable ==
  \A p \in Pubs : LeftBehind(p) /\ ~IsForeign(target) /\ ~CopyLost(p) =>
    \/ MayCommit(p) \/ MayClean(p)
    \/ pub[p].state = "prepared" /\ target = pub[p].next
    \/ Untouched(p) /\ (Owned(p) \/ dirs[p] = [staged |-> pub[p].next, backup |-> pub[p].prev])
=============================================================================
