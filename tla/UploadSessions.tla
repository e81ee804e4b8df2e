--------------------------- MODULE UploadSessions ---------------------------
(***************************************************************************)
(* One file on its way from a client to the server, in chunks.  The bytes  *)
(* received are staged in a file of the session; once all are there the    *)
(* file is imported: into a library, as one more file of a book, or into   *)
(* the Book Dock.  The client may lose answers, ask again, send a chunk    *)
(* twice, and start over under the same key; the server may fail, or die   *)
(* and start again; sessions that are left lying are swept away.           *)
(*                                                                         *)
(* A lock per session, in memory, orders chunks, completion and            *)
(* cancellation, but not the sweep, nor the correction of the size by      *)
(* whoever looks at the session.  The file is <<1, ..., Size>>, so that    *)
(* a byte is its own place.                                                *)
(***************************************************************************)
EXTENDS Naturals, Sequences, FiniteSets

CONSTANTS
  Requests,       \* calls under way at once
  Nobody,
  Targets,        \* a subset of {"library", "existing_book", "book_dock"}
  Size, Chunk,    \* of the file, and at most of a chunk
  Signature,      \* how much of the file shows that it is what it is called
  \* Bounds of the model.
  MaxSessions, MaxFailures, MaxCrashes, MaxLapses

Sessions == 1..MaxSessions

ASSUME UploadAssumption ==
  /\ Nobody \notin Requests
  /\ Targets \subseteq {"library", "existing_book", "book_dock"}
  /\ Size \in Nat \ {0} /\ Chunk \in Nat \ {0} /\ Signature \in Nat
  /\ MaxSessions \in Nat /\ MaxFailures \in Nat /\ MaxCrashes \in Nat /\ MaxLapses \in Nat

VARIABLES
  target,
  readable,       \* whether the file is of the format its name says
  row,            \* the sessions in the database
  staged,         \* their files of received bytes
  lock,           \* who has the lock of a session
  req,            \* the calls under way
  finishing,      \* sessions whose book is being processed in the background
  sweep,          \* sessions the sweep has found, and the one it is at
  disk,           \* sessions whose file lies at the destination
  booked,         \* and those it has been entered for
  acked,          \* the largest size a chunk was answered with
  spent           \* of the bounds

vars == <<target, readable, row, staged, lock, req, finishing, sweep, disk, booked, acked, spent>>
quiet == <<target, readable>>

Status == {"none", "receiving", "processing", "completed", "failed", "cancelled", "expired"}

(* late: past its date.  key: it still has the key of the upload.  result:  *)
(* the book it has become is known.                                         *)
Row == [status : Status, received : 0..Size, late : BOOLEAN, key : BOOLEAN, result : BOOLEAN]
NoRow == [status |-> "none", received |-> 0, late |-> FALSE, key |-> FALSE, result |-> FALSE]

Staged == [there : BOOLEAN, bytes : Seq(1..Size)]
Gone == [there |-> FALSE, bytes |-> <<>>]

(* from and n are of a chunk, k how much of it is written, or a size that   *)
(* was measured; status and received are of the row as it was read; data is *)
(* what an import has copied.                                               *)
Call == [op : {"none", "create", "append", "get", "complete", "cancel"},
         at : {"idle", "found", "free", "body", "waiting", "wrong", "ready", "writing",
               "checked", "marked", "copied", "looked", "placed", "booked"},
         s : 0..MaxSessions, from : 0..Size, n : 0..Chunk, k : 0..(Size + Chunk),
         status : Status, received : 0..Size, data : Seq(1..Size)]
Idle == [op |-> "none", at |-> "idle", s |-> 0, from |-> 0, n |-> 0, k |-> 0,
         status |-> "none", received |-> 0, data |-> <<>>]

TypeOK ==
  /\ target \in Targets /\ readable \in BOOLEAN
  /\ row \in [Sessions -> Row] /\ staged \in [Sessions -> Staged]
  /\ \A s \in Sessions : Len(staged[s].bytes) <= Size
  /\ lock \in [Sessions -> Requests \cup {Nobody}]
  /\ req \in [Requests -> Call]
  /\ finishing \subseteq Sessions /\ disk \subseteq Sessions /\ booked \subseteq Sessions
  /\ sweep \in [todo : SUBSET Sessions, at : 0..MaxSessions]
  /\ acked \in [Sessions -> 0..Size]
  /\ spent \in [failures : 0..MaxFailures, crashes : 0..MaxCrashes, lapses : 0..MaxLapses]

Init ==
  /\ target \in Targets /\ readable \in BOOLEAN
  /\ row = [s \in Sessions |-> NoRow] /\ staged = [s \in Sessions |-> Gone]
  /\ lock = [s \in Sessions |-> Nobody] /\ req = [q \in Requests |-> Idle]
  /\ finishing = {} /\ sweep = [todo |-> {}, at |-> 0] /\ disk = {} /\ booked = {}
  /\ acked = [s \in Sessions |-> 0]
  /\ spent = [failures |-> 0, crashes |-> 0, lapses |-> 0]

Go(q, at) == req' = [req EXCEPT ![q].at = at]

(* The call ends, with or without an error, and leaves the lock.            *)
Done(q) ==
  /\ req' = [req EXCEPT ![q] = Idle]
  /\ lock' = [s \in Sessions |-> IF lock[s] = q THEN Nobody ELSE lock[s]]

Fails(s) == row' = [row EXCEPT ![s].status = "failed"]
Remove(s) == staged' = [staged EXCEPT ![s] = Gone]

Spend(what, most) == spent[what] < most /\ spent' = [spent EXCEPT ![what] = @ + 1]

-----------------------------------------------------------------------------
(* create *)

(* Mutant: an upload being imported is not handed back.                     *)
BugResumable(s) ==
  \/ row[s].status = "completed"
  \/ row[s].status = "receiving" /\ ~row[s].late

Keyed == {s \in Sessions : row[s].key}
Resumable(s) ==
  \/ row[s].status \in {"processing", "completed"}
  \/ row[s].status = "receiving" /\ ~row[s].late

(* Nothing more happens if there is a session to hand back.                 *)
Find(q) ==
  /\ req[q].op = "none" /\ \A s \in Keyed : ~Resumable(s)
  /\ \E s \in IF Keyed = {} THEN {0} ELSE Keyed :
       req' = [req EXCEPT ![q] =
         [Idle EXCEPT !.op = "create", !.at = IF s = 0 THEN "free" ELSE "found", !.s = s]]
  /\ UNCHANGED <<quiet, row, staged, lock, finishing, sweep, disk, booked, acked, spent>>

ReleaseKey(q) ==
  /\ req[q].at = "found"
  /\ row' = [row EXCEPT ![req[q].s].key = FALSE] /\ Go(q, "free")
  /\ UNCHANGED <<quiet, staged, lock, finishing, sweep, disk, booked, acked, spent>>

Fresh == {s \in Sessions : row[s].status = "none"}

(* The key is unique: who comes second fails, and takes its file away again. *)
Insert(q) ==
  /\ req[q].at = "free"
  /\ IF Keyed = {} /\ Fresh # {}
     THEN \E s \in Fresh :
          /\ \A t \in Fresh : s <= t
          /\ row' = [row EXCEPT ![s] = [NoRow EXCEPT !.status = "receiving", !.key = TRUE]]
          /\ staged' = [staged EXCEPT ![s] = [there |-> TRUE, bytes |-> <<>>]]
     ELSE UNCHANGED <<row, staged>>
  /\ Done(q)
  /\ UNCHANGED <<quiet, finishing, sweep, disk, booked, acked, spent>>

-----------------------------------------------------------------------------
(* The start of the other calls. *)

Receiving(s) == row[s].status = "receiving" /\ ~row[s].late

(* A chunk is received before the lock is taken; its place is checked first. *)
Upload(q, s, n) ==
  /\ req[q].op = "none" /\ Receiving(s) /\ n <= Size - row[s].received
  /\ req' = [req EXCEPT ![q] =
       [Idle EXCEPT !.op = "append", !.at = "body", !.s = s, !.from = row[s].received, !.n = n]]
  /\ UNCHANGED <<quiet, row, staged, lock, finishing, sweep, disk, booked, acked, spent>>

(* The chunk has arrived, or the connection is given up.                    *)
Arrive(q) ==
  /\ req[q].at = "body" /\ Go(q, "waiting")
  /\ UNCHANGED <<quiet, row, staged, lock, finishing, sweep, disk, booked, acked, spent>>
Stall(q) ==
  /\ req[q].at = "body" /\ Done(q)
  /\ UNCHANGED <<quiet, row, staged, finishing, sweep, disk, booked, acked, spent>>

(* Asked of any other session, a call changes nothing.                      *)
Matters(s, op) ==
  \/ row[s].status = "receiving"
  \/ op = "cancel" /\ row[s].status \in {"processing", "failed", "expired"}

Ask(q, s, op) ==
  /\ req[q].op = "none" /\ Matters(s, op)
  /\ req' = [req EXCEPT ![q] = [Idle EXCEPT !.op = op, !.at = "waiting", !.s = s]]
  /\ UNCHANGED <<quiet, row, staged, lock, finishing, sweep, disk, booked, acked, spent>>

(* Mutant: no lock.                                                         *)
BugMayEnter(q) == TRUE

MayEnter(q) == lock[req[q].s] = Nobody

(* Having the lock, or without it to look, the row is read.  The staged     *)
(* file has the last word on the size of a session that is receiving.  (It  *)
(* is never larger than the upload: TypeOK.)  Row and file are read in one  *)
(* step; what the sweep may do between them it may also do after.           *)
Enter(q) ==
  /\ req[q].at = "waiting" /\ req[q].op \in {"append", "complete", "get"}
  /\ req[q].op = "get" \/ MayEnter(q)
  /\ LET s == req[q].s
         size == Len(staged[s].bytes)
         wrong == row[s].status = "receiving" /\ size # row[s].received IN
     IF req[q].op = "get" /\ ~wrong THEN Done(q)
     ELSE /\ req' = [req EXCEPT ![q].at = IF wrong THEN "wrong" ELSE "ready",
                                ![q].k = IF wrong THEN size ELSE 0,
                                ![q].status = row[s].status, ![q].received = row[s].received]
          /\ lock' = IF req[q].op = "get" THEN lock ELSE [lock EXCEPT ![s] = q]
  /\ UNCHANGED <<quiet, row, staged, finishing, sweep, disk, booked, acked, spent>>

Correct(q) ==
  /\ req[q].at = "wrong"
  /\ row' = [row EXCEPT ![req[q].s].received = req[q].k]
  /\ IF req[q].op = "get" THEN Done(q)
     ELSE /\ req' = [req EXCEPT ![q].at = "ready", ![q].received = req[q].k, ![q].k = 0,
                                ![q].status = row[req[q].s].status]
          /\ UNCHANGED lock
  /\ UNCHANGED <<quiet, staged, finishing, sweep, disk, booked, acked, spent>>

StillReceiving(q) == req[q].status = "receiving" /\ ~row[req[q].s].late

-----------------------------------------------------------------------------
(* appendChunk *)

(* Mutant: checked before the lock is taken, and not again.                 *)
BugFits(q) == TRUE

(* Where the chunk belongs is checked again under the lock.                 *)
Fits(q) == req[q].from = req[q].received /\ req[q].n <= Size - req[q].received

(* The first bytes show a file that is not what its name says.              *)
Exposed(q) == ~readable /\ req[q].received = 0 /\ (req[q].n >= Signature \/ req[q].n = Size)

BeginWrite(q) ==
  /\ req[q].op = "append" /\ req[q].at = "ready"
  /\ \/ /\ ~(StillReceiving(q) /\ Fits(q)) /\ Done(q) /\ UNCHANGED <<row, staged>>
     \/ /\ StillReceiving(q) /\ Fits(q) /\ Exposed(q)
        /\ Fails(req[q].s) /\ Remove(req[q].s) /\ Done(q)
     \/ /\ StillReceiving(q) /\ Fits(q) /\ ~Exposed(q)
        /\ Go(q, "writing") /\ UNCHANGED <<row, staged, lock>>
  /\ UNCHANGED <<quiet, finishing, sweep, disk, booked, acked, spent>>

(* The file is opened, and made if it is not there, with the first byte;    *)
(* what is written to one that was removed since is lost.                   *)
WriteByte(q) ==
  /\ req[q].at = "writing" /\ req[q].k < req[q].n
  /\ LET s == req[q].s IN
     staged' = IF staged[s].there \/ req[q].k = 0
               THEN [staged EXCEPT ![s] =
                      [there |-> TRUE, bytes |-> Append(staged[s].bytes, req[q].from + req[q].k + 1)]]
               ELSE staged
  /\ req' = [req EXCEPT ![q].k = @ + 1]
  /\ UNCHANGED <<quiet, row, lock, finishing, sweep, disk, booked, acked, spent>>

(* Mutant: all is taken back.                                               *)
BugCut(bytes, q) == <<>>

Cut(bytes, q) == SubSeq(bytes, 1, req[q].received)

(* The disk is full.  What was written is taken back, if that succeeds.     *)
WriteFails(q) ==
  /\ req[q].at = "writing" /\ req[q].k < req[q].n /\ Spend("failures", MaxFailures)
  /\ LET s == req[q].s IN
     \/ /\ staged[s].there /\ Len(staged[s].bytes) >= req[q].received
        /\ staged' = [staged EXCEPT ![s].bytes = Cut(staged[s].bytes, q)]
     \/ UNCHANGED staged
  /\ Done(q)
  /\ UNCHANGED <<quiet, row, finishing, sweep, disk, booked, acked>>

EndWrite(q) ==
  /\ req[q].at = "writing" /\ req[q].k = req[q].n
  /\ LET s == req[q].s
         size == req[q].received + req[q].n IN
     /\ row' = [row EXCEPT ![s].received = size, ![s].late = FALSE]
     /\ acked' = [acked EXCEPT ![s] = size]
  /\ Done(q)
  /\ UNCHANGED <<quiet, staged, finishing, sweep, disk, booked, spent>>

-----------------------------------------------------------------------------
(* complete *)

There(s) == staged[s].there

(* Contents are looked at before the import begins; a file that is gone     *)
(* cannot be.                                                               *)
Check(q) ==
  /\ req[q].op = "complete" /\ req[q].at = "ready"
  /\ LET s == req[q].s
         whole == StillReceiving(q) /\ req[q].received = Size /\ There(s) IN
     \/ /\ ~whole /\ Done(q) /\ UNCHANGED <<row, staged>>
     \/ /\ whole /\ ~readable /\ Fails(s) /\ Remove(s) /\ Done(q)
     \/ /\ whole /\ readable /\ Go(q, "checked") /\ UNCHANGED <<row, staged, lock>>
  /\ UNCHANGED <<quiet, finishing, sweep, disk, booked, acked, spent>>

Mark(q) ==
  /\ req[q].at = "checked"
  /\ row' = [row EXCEPT ![req[q].s].status = "processing"]
  /\ Go(q, "marked")
  /\ UNCHANGED <<quiet, staged, lock, finishing, sweep, disk, booked, acked, spent>>

Copy(q) ==
  /\ req[q].at = "marked"
  /\ LET s == req[q].s IN
     IF There(s)
     THEN /\ req' = [req EXCEPT ![q].at = "copied", ![q].data = staged[s].bytes]
          /\ UNCHANGED <<row, lock>>
     ELSE Fails(s) /\ Done(q)
  /\ UNCHANGED <<quiet, staged, finishing, sweep, disk, booked, acked, spent>>

(* A library and a book have one place for the file; the Dock finds one.    *)
OnePlace == target # "book_dock"
Taken == OnePlace /\ disk # {}

Look(q) ==
  /\ req[q].at = "copied"
  /\ IF Taken THEN Fails(req[q].s) /\ Done(q) ELSE Go(q, "looked") /\ UNCHANGED <<row, lock>>
  /\ UNCHANGED <<quiet, staged, finishing, sweep, disk, booked, acked, spent>>

(* What has come there since is replaced.                                   *)
Place(q) ==
  /\ req[q].at = "looked" /\ Go(q, "placed")
  /\ disk' = (IF OnePlace THEN {} ELSE disk) \cup {req[q].s}
  /\ UNCHANGED <<quiet, row, staged, lock, finishing, sweep, booked, acked, spent>>

Entered == OnePlace /\ booked # {}

(* A new book is entered together with the session's result, and processed  *)
(* in the background; a second file of its name joins it.  A book has no    *)
(* two files in one place.                                                  *)
Enroll(q) ==
  /\ req[q].at = "placed"
  /\ LET s == req[q].s
         second == Entered IN
     /\ booked' = IF second THEN booked ELSE booked \cup {s}
     /\ \/ /\ target = "library" /\ Done(q)
           /\ row' = [row EXCEPT ![s].result = TRUE] /\ finishing' = finishing \cup {s}
        \/ /\ target = "existing_book" /\ second /\ Fails(s) /\ Done(q)
           /\ UNCHANGED finishing
        \/ /\ target # "library" /\ ~second /\ Go(q, "booked")
           /\ UNCHANGED <<row, finishing, lock>>
  /\ UNCHANGED <<quiet, staged, sweep, disk, acked, spent>>

Completes(s) == row' = [row EXCEPT ![s].status = "completed", ![s].result = TRUE] /\ Remove(s)

Finish(q) ==
  /\ req[q].at = "booked" /\ Completes(req[q].s) /\ Done(q)
  /\ UNCHANGED <<quiet, finishing, sweep, disk, booked, acked, spent>>

(* Mutant: it is taken away from a book as well, and after it was entered.  *)
BugDiscards(q) == req[q].at \in {"placed", "booked"}

(* A file that was placed is taken away again, except from a book's folder. *)
Discards(q) == req[q].at = "placed" /\ target # "existing_book"

ImportFails(q) ==
  /\ req[q].at \in {"copied", "looked", "placed", "booked"} /\ Spend("failures", MaxFailures)
  /\ disk' = IF ~Discards(q) THEN disk ELSE IF OnePlace THEN {} ELSE disk \ {req[q].s}
  /\ Fails(req[q].s) /\ Done(q)
  /\ UNCHANGED <<quiet, staged, finishing, sweep, booked, acked>>

FinishBook(s) ==
  /\ s \in finishing /\ finishing' = finishing \ {s} /\ Completes(s)
  /\ UNCHANGED <<quiet, lock, req, sweep, disk, booked, acked, spent>>

BookFails(s) ==
  /\ s \in finishing /\ finishing' = finishing \ {s} /\ Spend("failures", MaxFailures)
  /\ Fails(s)
  /\ UNCHANGED <<quiet, staged, lock, req, sweep, disk, booked, acked>>

-----------------------------------------------------------------------------
(* cancel, the sweep and the server. *)

Cancel(q) ==
  /\ req[q].op = "cancel" /\ req[q].at = "waiting" /\ MayEnter(q)
  /\ LET s == req[q].s IN
     IF row[s].status \in {"processing", "completed"} THEN UNCHANGED <<row, staged>>
     ELSE row' = [row EXCEPT ![s].status = "cancelled"] /\ Remove(s)
  /\ Done(q)
  /\ UNCHANGED <<quiet, finishing, sweep, disk, booked, acked, spent>>

Lapse(s) ==
  /\ row[s].status \in {"receiving", "failed"} /\ ~row[s].late /\ Spend("lapses", MaxLapses)
  /\ row' = [row EXCEPT ![s].late = TRUE]
  /\ UNCHANGED <<quiet, staged, lock, req, finishing, sweep, disk, booked, acked>>

Lapsed(s) == row[s].status \in {"receiving", "failed"} /\ row[s].late

(* cleanupExpired: a list, then for each a new status and no file.          *)
SweepList ==
  /\ sweep = [todo |-> {}, at |-> 0] /\ \E s \in Sessions : Lapsed(s)
  /\ sweep' = [todo |-> {s \in Sessions : Lapsed(s)}, at |-> 0]
  /\ UNCHANGED <<quiet, row, staged, lock, req, finishing, disk, booked, acked, spent>>

SweepMark(s) ==
  /\ s \in sweep.todo /\ sweep.at = 0
  /\ sweep' = [todo |-> sweep.todo \ {s}, at |-> s]
  /\ row' = [row EXCEPT ![s].status = "expired"]
  /\ UNCHANGED <<quiet, staged, lock, req, finishing, disk, booked, acked, spent>>

SweepRemove ==
  /\ sweep.at # 0 /\ sweep' = [sweep EXCEPT !.at = 0] /\ Remove(sweep.at)
  /\ UNCHANGED <<quiet, row, lock, req, finishing, disk, booked, acked, spent>>

(* Mutant: nothing goes on after a restart.                                 *)
BugContinued(s) == FALSE

Continued(s) == row[s].status = "processing" /\ row[s].result

(* Calls, locks and lists are in memory.  What was being imported goes on   *)
(* if its book is known, and has failed otherwise.                          *)
Restart ==
  /\ Spend("crashes", MaxCrashes)
  /\ row' = [s \in Sessions |->
       IF Lapsed(s) THEN [row[s] EXCEPT !.status = "expired"]
       ELSE IF row[s].status = "processing" /\ ~row[s].result
            THEN [row[s] EXCEPT !.status = "failed"]
            ELSE row[s]]
  /\ staged' = [s \in Sessions |-> IF Lapsed(s) THEN Gone ELSE staged[s]]
  /\ finishing' = {s \in Sessions : Continued(s)}
  /\ req' = [q \in Requests |-> Idle] /\ lock' = [s \in Sessions |-> Nobody]
  /\ sweep' = [todo |-> {}, at |-> 0]
  /\ UNCHANGED <<quiet, disk, booked, acked>>

Step(q) ==
  \/ ReleaseKey(q) \/ Insert(q) \/ Correct(q) \/ BeginWrite(q) \/ WriteByte(q)
  \/ EndWrite(q) \/ Check(q) \/ Mark(q) \/ Copy(q) \/ Look(q) \/ Place(q) \/ Enroll(q) \/ Finish(q)

Next ==
  \/ \E q \in Requests :
       \/ Find(q) \/ Arrive(q) \/ Stall(q) \/ Enter(q) \/ Cancel(q) \/ Step(q)
       \/ WriteFails(q) \/ ImportFails(q)
       \/ \E s \in Sessions :
            \/ \E n \in 1..Chunk : Upload(q, s, n)
            \/ \E op \in {"get", "complete", "cancel"} : Ask(q, s, op)
  \/ \E s \in Sessions : FinishBook(s) \/ BookFails(s) \/ Lapse(s) \/ SweepMark(s)
  \/ SweepList \/ SweepRemove \/ Restart

Spec == Init /\ [][Next]_vars

-----------------------------------------------------------------------------
Upto(n) == [i \in 1..n |-> i]

(* The staged bytes of a session that is receiving are the start of the     *)
(* file, whatever chunks came twice, late or in part (appendChunk).         *)
InOrder ==
  \A s \in Sessions : row[s].status = "receiving" =>
    staged[s].bytes = Upto(Len(staged[s].bytes))

(* What is imported is the whole file (complete).                           *)
WholeFile ==
  \A q \in Requests : req[q].at \in {"copied", "looked", "placed", "booked"} => req[q].data = Upto(Size)

(* What a chunk was answered with stays received, through failures and      *)
(* restarts, while the session is receiving.                                *)
NothingAckedLost ==
  \A s \in Sessions : Receiving(s) => acked[s] <= Len(staged[s].bytes)

(* A file is added once, however often answers are lost and the upload is   *)
(* started over.  Only the Dock takes another copy, and only after a        *)
(* failure, a restart or a session past its date.                           *)
AddedOnce ==
  target # "book_dock" \/ spent = [failures |-> 0, crashes |-> 0, lapses |-> 0] =>
    \A s, t \in booked : s = t

(* What has been entered keeps its file, whichever later step fails, as     *)
(* long as no session is swept in the middle of its import.                 *)
FileKept == spent.lapses = 0 => booked \subseteq disk

(* A cancelled upload stays cancelled, and nothing is added for it: no call *)
(* that was under way brings it back (cancel).  The sweep, which takes no   *)
(* lock, is left out.                                                       *)
CancelHolds ==
  [][\A s \in Sessions : row[s].status = "cancelled" /\ spent.lapses = 0 =>
       row'[s].status = "cancelled" /\ (s \in booked' => s \in booked)]_vars

(* An import that has begun is always in somebody's hands: the call that    *)
(* has the lock, or the background, which a restart begins anew; otherwise  *)
(* the session could not be cancelled, nor uploaded again under its key.    *)
ImportCarried ==
  \A s \in Sessions : row[s].status = "processing" =>
    \/ s \in finishing
    \/ lock[s] # Nobody /\ req[lock[s]].at \in {"marked", "copied", "looked", "placed", "booked"}
=============================================================================
