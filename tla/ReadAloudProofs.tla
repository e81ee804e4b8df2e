-------------------------- MODULE ReadAloudProofs --------------------------
(***************************************************************************)
(* What holds of ReadAloud for every number of jobs and every bound.       *)
(***************************************************************************)
EXTENDS ReadAloud, TLAPS

USE DEF Stage, ActiveStatus, TerminalStatus

(* What the initial rows and the initial run are. *)
LEMMA NoRowType == NoRow \in Row
  BY DEF Row, NoRow

LEMMA IdleRunType == IdleRun \in Run
  BY DEF Run, IdleRun

LEMMA RowFields ==
  ASSUME NEW r \in Row
  PROVE  /\ r.attempt \in Nat /\ r.attempt + 1 \in Nat /\ r.dec \in Nat
         /\ r.cancel \in BOOLEAN /\ r.approved \in BOOLEAN
  BY DEF Row

(* The row updates keep a row a row. *)
LEMMA RowUpdates ==
  ASSUME NEW r \in Row
  PROVE  /\ NoRow \in Row /\ NewRow \in Row
         /\ ClaimQueued(r) \in Row
         /\ Heartbeat(r) \in Row
         /\ BeginPublishing(r) \in Row
         /\ MarkAwaitingReview(r) \in Row
         /\ Complete(r) \in Row
         /\ Requeue(r) \in Row
         /\ RequestCancellation(r) \in Row
         /\ ClaimForPublishing(r) \in Row
         /\ Resync(r) \in Row
         /\ Retry(r) \in Row
         /\ RecoverCancelled(r) \in Row
         /\ RecoverFailed(r) \in Row
         /\ RecoverRequeued(r) \in Row
         /\ ExpireReview(r) \in Row
         /\ ClearExpiredWorkWindow(r) \in Row
         /\ \A stage \in Stage : UpdateProgress(r, stage) \in Row
         /\ \A window \in {"none", "open"} : Fail(r, window) \in Row
<1>0. NoRow \in Row /\ NewRow \in Row
  <2>1. NoRow \in Row
    BY DEF Row, NoRow
  <2>2. NewRow = [NoRow EXCEPT !.status = "queued"]
    BY DEF NewRow
  <2> QED
    BY <2>1, <2>2 DEF Row
<1>1. ClaimQueued(r) \in Row
  <2>1. \A n \in Nat : [r EXCEPT !.status = "processing", !.stage = "working",
                                 !.attempt = n, !.lease = "live"] \in Row
    BY DEF Row
  <2>2. r.attempt + 1 \in Nat
    BY DEF Row
  <2> QED
    BY <2>1, <2>2 DEF ClaimQueued
<1>2. Heartbeat(r) \in Row
  BY DEF Row, Heartbeat, Processing
<1>3. BeginPublishing(r) \in Row
  BY DEF Row, BeginPublishing, Processing
<1>4. MarkAwaitingReview(r) \in Row
  BY DEF Row, MarkAwaitingReview, Processing
<1>5. Complete(r) \in Row
  BY DEF Row, Complete, Processing
<1>6. Requeue(r) \in Row
  <2>1. CASE r.cancel
    BY <2>1 DEF Row, Requeue, Processing
  <2>2. CASE ~r.cancel
    BY <2>2 DEF Row, Requeue, Processing
  <2> QED
    BY <2>1, <2>2
<1>7. RequestCancellation(r) \in Row
  BY DEF Row, RequestCancellation, Processing
<1>8. ClaimForPublishing(r) \in Row
  BY DEF Row, ClaimForPublishing, Processing
<1>9. Resync(r) \in Row
  <2>1. \A n \in Nat : [r EXCEPT !.status = "queued", !.stage = "queued", !.approved = FALSE,
                                 !.attempt = 0, !.dec = n] \in Row
    BY DEF Row
  <2>2. r.dec + 1 \in Nat
    BY DEF Row
  <2> QED
    BY <2>1, <2>2 DEF Resync
<1>10. Retry(r) \in Row
  BY DEF Row, Retry, Processing
<1>11. RecoverCancelled(r) \in Row
  BY DEF Row, RecoverCancelled
<1>12. RecoverFailed(r) \in Row
  BY DEF Row, RecoverFailed
<1>13. RecoverRequeued(r) \in Row
  BY DEF Row, RecoverRequeued
<1>14. ExpireReview(r) \in Row
  BY DEF Row, ExpireReview, Processing
<1>15. ClearExpiredWorkWindow(r) \in Row
  BY DEF Row, ClearExpiredWorkWindow, Processing
<1>16. \A stage \in Stage : UpdateProgress(r, stage) \in Row
  BY DEF Row, UpdateProgress, Processing
<1>17. \A window \in {"none", "open"} : Fail(r, window) \in Row
  BY DEF Row, Fail, Processing
<1> QED
  BY <1>0, <1>1, <1>2, <1>3, <1>4, <1>5, <1>6, <1>7, <1>8, <1>9, <1>10, <1>11, <1>12, <1>13, <1>14, <1>15, <1>16, <1>17

(* The run keeps its type when it starts, moves on, fails or is over. *)
LEMMA RunStarts ==
  /\ RunTyped(IdleRun)
  /\ \A j \in Jobs : \A n, d \in Nat : \A a \in BOOLEAN :
       RunTyped([IdleRun EXCEPT !.pc = "prepare", !.job = j, !.attempt = n,
                                !.approved = a, !.dec = d])
<1>1. IdleRun \in Run /\ IdleRun.pc = "idle"
  BY DEF Run, IdleRun
<1>2. \A j \in Jobs : \A n, d \in Nat : \A a \in BOOLEAN :
        [IdleRun EXCEPT !.pc = "prepare", !.job = j, !.attempt = n,
                        !.approved = a, !.dec = d] \in Run
  BY <1>1 DEF Run
<1>3. \A j, n, d, a :
        [IdleRun EXCEPT !.pc = "prepare", !.job = j, !.attempt = n,
                        !.approved = a, !.dec = d].job = j
  BY <1>1 DEF Run
<1>4. ASSUME NEW j \in Jobs, NEW n \in Nat, NEW d \in Nat, NEW a \in BOOLEAN
      PROVE  RunTyped([IdleRun EXCEPT !.pc = "prepare", !.job = j, !.attempt = n,
                                      !.approved = a, !.dec = d])
  <2> DEFINE r == [IdleRun EXCEPT !.pc = "prepare", !.job = j, !.attempt = n,
                                  !.approved = a, !.dec = d]
  <2>1. r \in Run /\ r.job = j
    BY <1>2, <1>3
  <2> HIDE DEF r
  <2>2. RunTyped(r)
    BY <2>1 DEF RunTyped
  <2> QED
    BY <2>2 DEF r
<1>5. RunTyped(IdleRun)
  BY <1>1 DEF RunTyped
<1> QED
  BY <1>4, <1>5

LEMMA RunMoves ==
  ASSUME NEW r, RunTyped(r), r.pc # "idle"
  PROVE  /\ \A pc \in {"submit", "poll", "cancel", "publish", "complete", "remove"} :
              RunTyped([r EXCEPT !.pc = pc])
         /\ \A e \in {"cancelled", "lost", "retryable", "fatal"} :
              RunTyped([IdleRun EXCEPT !.pc = "failure", !.job = r.job,
                                       !.attempt = r.attempt, !.error = e])
         /\ RunTyped([r EXCEPT !.pc = "submit", !.resubmits = @ + 1])
         /\ RunTyped([r EXCEPT !.pc = "validate", !.resubmits = 0])
         /\ \A b \in BOOLEAN : RunTyped([r EXCEPT !.pc = "finish", !.review = b])
         /\ \A b \in BOOLEAN : RunTyped([r EXCEPT !.pc = "settle", !.cancelled = b])
<1> USE DEF RunTyped
<1>1. \A pc \in {"submit", "poll", "cancel", "publish", "complete", "remove"} :
        RunTyped([r EXCEPT !.pc = pc])
  BY DEF Run
<1>2. \A e \in {"cancelled", "lost", "retryable", "fatal"} :
        RunTyped([IdleRun EXCEPT !.pc = "failure", !.job = r.job, !.attempt = r.attempt,
                                 !.error = e])
  BY IdleRunType DEF Run
<1>3. \A n \in Nat : \A pc \in {"submit", "validate"} :
        RunTyped([r EXCEPT !.pc = pc, !.resubmits = n])
  BY DEF Run
<1>4. r.resubmits + 1 \in Nat
  BY DEF Run
<1>5. \A b \in BOOLEAN : RunTyped([r EXCEPT !.pc = "finish", !.review = b])
  BY DEF Run
<1>6. \A b \in BOOLEAN : RunTyped([r EXCEPT !.pc = "settle", !.cancelled = b])
  BY DEF Run
<1> HIDE DEF RunTyped
<1> QED
  BY <1>1, <1>2, <1>3, <1>4, <1>5, <1>6

(* Counters, records and the worker's answer keep their types. *)
LEMMA SpentMoves ==
  ASSUME NEW s \in Spent
  PROVE  /\ [s EXCEPT !.crashes = @ + 1] \in Spent
         /\ [s EXCEPT !.stops = @ + 1] \in Spent
         /\ [s EXCEPT !.stalls = @ + 1] \in Spent
         /\ [s EXCEPT !.retries = @ + 1] \in Spent
         /\ [s EXCEPT !.resyncs = @ + 1] \in Spent
<1>1. \A n \in Nat : /\ [s EXCEPT !.crashes = n] \in Spent
                     /\ [s EXCEPT !.stops = n] \in Spent
                     /\ [s EXCEPT !.stalls = n] \in Spent
                     /\ [s EXCEPT !.retries = n] \in Spent
                     /\ [s EXCEPT !.resyncs = n] \in Spent
  BY DEF Spent
<1>2. /\ s.crashes + 1 \in Nat /\ s.stops + 1 \in Nat /\ s.stalls + 1 \in Nat
      /\ s.retries + 1 \in Nat /\ s.resyncs + 1 \in Nat
  BY DEF Spent
<1> QED
  BY <1>1, <1>2

LEMMA RecordMoves ==
  ASSUME NEW rec \in Record
  PROVE  /\ NoRecord \in Record
         /\ CancelRecord(rec) \in Record
         /\ \A d \in Nat : [status |-> "running", cancel |-> FALSE, dec |-> d] \in Record
         /\ \A status \in {"completed", "failed", "cancelled"} :
              [rec EXCEPT !.status = status] \in Record
  BY DEF Record, NoRecord, CancelRecord

LEMMA WorkerActiveType == WorkerActive \in Jobs \cup {NoJob}
  BY DEF WorkerActive

(* The forms in which the actions use the updates. *)
LEMMA PutType ==
  ASSUME row \in [Jobs -> Row], NEW j \in Jobs, NEW r \in Row, Put(j, r)
  PROVE  row' \in [Jobs -> Row]
  BY DEF Put

LEMMA RunRow ==
  ASSUME TypeOK, run.pc # "idle"
  PROVE  run.job \in Jobs /\ row[run.job] \in Row
  BY DEF TypeOK, RunTyped

LEMMA WorkerPutType ==
  ASSUME worker \in [Jobs -> Record], NEW j \in Jobs
  PROVE  /\ worker' = [worker EXCEPT ![j] = CancelRecord(@)] => worker' \in [Jobs -> Record]
         /\ \A status \in {"completed", "failed", "cancelled"} :
              worker' = [worker EXCEPT ![j].status = status] => worker' \in [Jobs -> Record]
         /\ \A d \in Nat :
              worker' = [worker EXCEPT ![j] = [status |-> "running", cancel |-> FALSE,
                                               dec |-> d]] => worker' \in [Jobs -> Record]
<1>1. worker[j] \in Record
  OBVIOUS
<1>2. CancelRecord(worker[j]) \in Record
  BY <1>1, RecordMoves
<1>3. \A status \in {"completed", "failed", "cancelled"} :
        [worker[j] EXCEPT !.status = status] \in Record
  BY <1>1, RecordMoves
<1>4. \A d \in Nat : [status |-> "running", cancel |-> FALSE, dec |-> d] \in Record
  BY <1>1, RecordMoves
<1> QED
  BY <1>2, <1>3, <1>4

LEMMA GotoType ==
  ASSUME RunTyped(run), run.pc # "idle",
         NEW pc \in {"submit", "poll", "cancel", "publish", "complete", "remove"},
         Goto(pc)
  PROVE  RunTyped(run)'
  BY RunMoves DEF Goto

LEMMA RaiseType ==
  ASSUME RunTyped(run), run.pc # "idle",
         NEW e \in {"cancelled", "lost", "retryable", "fatal"}, Raise(e)
  PROVE  RunTyped(run)'
  BY RunMoves DEF Raise

LEMMA ClaimType ==
  ASSUME row \in [Jobs -> Row], NEW j \in Jobs, Claim(j)
  PROVE  row' \in [Jobs -> Row] /\ RunTyped(run)'
<1>1. row[j] \in Row
  OBVIOUS
<1>2. row' \in [Jobs -> Row]
  BY <1>1, RowUpdates, PutType DEF Claim
<1>3. RunTyped(run)'
  BY <1>1, RowFields, RunStarts DEF Claim
<1> QED
  BY <1>2, <1>3

LEMMA InitType == Init => TypeOK
<1> SUFFICES ASSUME Init PROVE TypeOK
  OBVIOUS
<1>1. row \in [Jobs -> Row]
  BY RowUpdates, NoRowType DEF Init
<1>2. RunTyped(run)
  BY RunStarts DEF Init
<1>3. worker \in [Jobs -> Record]
  BY DEF Init, Record, NoRecord
<1>4. spent \in Spent
  BY DEF Init, Spent
<1> QED
  BY <1>1, <1>2, <1>3, <1>4 DEF Init, TypeOK, NoFolder

LEMMA NextType == TypeOK /\ [Next]_vars => TypeOK'
<1> SUFFICES ASSUME TypeOK, [Next]_vars PROVE TypeOK'
  OBVIOUS
<1>1. ASSUME NEW j \in Jobs, Create(j) PROVE TypeOK'
  <2>1. row' \in [Jobs -> Row]
    BY <1>1, PutType, RowUpdates DEF TypeOK, Create
  <2> QED
    BY <1>1, <2>1 DEF TypeOK, Create, Put, memory, userVars
<1>2. ASSUME NEW j \in Jobs, Cancel(j) PROVE TypeOK'
  <2>1. row' \in [Jobs -> Row]
    BY <1>2, PutType, RowUpdates DEF TypeOK, Cancel
  <2> QED
    BY <1>2, <2>1 DEF TypeOK, Cancel, Put, memory, userVars
<1>3. ASSUME NEW j \in Jobs, Publish(j) PROVE TypeOK'
  <2>1. row' \in [Jobs -> Row]
    BY <1>3, PutType, RowUpdates DEF TypeOK, Publish
  <2>2. bg' \in [Jobs -> {"none", "validate", "publish", "complete", "failure", "remove"}]
    BY <1>3 DEF TypeOK, Publish
  <2>3. approvals' \in [Jobs -> SUBSET Nat]
    BY <1>3, RowFields DEF TypeOK, Publish
  <2> QED
    BY <1>3, <2>1, <2>2, <2>3 DEF TypeOK, Publish, Put, memory, userVars
<1>4. ASSUME NEW j \in Jobs, ResyncJob(j) PROVE TypeOK'
  <2>1. row' \in [Jobs -> Row]
    BY <1>4, PutType, RowUpdates DEF TypeOK, ResyncJob
  <2>2. spent' \in Spent
    BY <1>4, SpentMoves DEF TypeOK, ResyncJob
  <2> QED
    BY <1>4, <2>1, <2>2 DEF TypeOK, ResyncJob, Put, memory, userVars
<1>5. ASSUME NEW j \in Jobs, RetryJob(j) PROVE TypeOK'
  <2>1. row' \in [Jobs -> Row]
    BY <1>5, PutType, RowUpdates DEF TypeOK, RetryJob
  <2>2. spent' \in Spent
    BY <1>5, SpentMoves DEF TypeOK, RetryJob
  <2> QED
    BY <1>5, <2>1, <2>2 DEF TypeOK, RetryJob, Put, memory, userVars
<1>6. ASSUME NEW j \in Jobs, Tick(j) PROVE TypeOK'
  <2>1. row' \in [Jobs -> Row]
    BY <1>6, PutType, RowUpdates, ClaimType DEF TypeOK, Tick
  <2>2. RunTyped(run)'
    BY <1>6, GotoType, RaiseType, RunStarts, ClaimType DEF TypeOK, Tick
  <2> QED
    BY <1>6, <2>1, <2>2 DEF TypeOK, Tick, Claim, Put, runFrame, memory, userVars
<1>7. ASSUME NEW j \in Jobs, TickAdopt(j) PROVE TypeOK'
  <2>1. row' \in [Jobs -> Row]
    BY <1>7, PutType, RowUpdates, ClaimType DEF TypeOK, TickAdopt
  <2>2. RunTyped(run)'
    BY <1>7, GotoType, RaiseType, RunStarts, ClaimType DEF TypeOK, TickAdopt
  <2> QED
    BY <1>7, <2>1, <2>2 DEF TypeOK, TickAdopt, Claim, Put, runFrame, memory, userVars
<1>8. ASSUME NEW j \in Jobs, BgValidate(j) PROVE TypeOK'
  <2>1. bg' \in [Jobs -> {"none", "validate", "publish", "complete", "failure", "remove"}]
    BY <1>8 DEF TypeOK, BgValidate, BgGoto
  <2> QED
    BY <1>8, <2>1 DEF TypeOK, BgValidate, BgGoto, bgFrame, memory, userVars
<1>9. ASSUME NEW j \in Jobs, BgPublish(j) PROVE TypeOK'
  <2>1. bg' \in [Jobs -> {"none", "validate", "publish", "complete", "failure", "remove"}]
    BY <1>9 DEF TypeOK, BgPublish, BgGoto, AddToLibrary
  <2>2. library' \in [Jobs -> SUBSET Nat]
    BY <1>9 DEF TypeOK, BgPublish, BgGoto, AddToLibrary
  <2> QED
    BY <1>9, <2>1, <2>2 DEF TypeOK, BgPublish, BgGoto, AddToLibrary, bgFrame, memory, userVars
<1>10. ASSUME NEW j \in Jobs, BgComplete(j) PROVE TypeOK'
  <2>1. row' \in [Jobs -> Row]
    BY <1>10, PutType, RowUpdates DEF TypeOK, BgComplete, BgGoto
  <2>2. bg' \in [Jobs -> {"none", "validate", "publish", "complete", "failure", "remove"}]
    BY <1>10 DEF TypeOK, BgComplete, BgGoto
  <2> QED
    BY <1>10, <2>1, <2>2 DEF TypeOK, BgComplete, BgGoto, Put, bgFrame, memory, userVars
<1>11. ASSUME NEW j \in Jobs, BgFailure(j) PROVE TypeOK'
  <2>1. row' \in [Jobs -> Row]
    BY <1>11, PutType, RowUpdates DEF TypeOK, BgFailure, BgGoto
  <2>2. bg' \in [Jobs -> {"none", "validate", "publish", "complete", "failure", "remove"}]
    BY <1>11 DEF TypeOK, BgFailure, BgGoto
  <2> QED
    BY <1>11, <2>1, <2>2 DEF TypeOK, BgFailure, BgGoto, Put, bgFrame, memory, userVars
<1>12. ASSUME NEW j \in Jobs, BgRemove(j) PROVE TypeOK'
  <2>1. bg' \in [Jobs -> {"none", "validate", "publish", "complete", "failure", "remove"}]
    BY <1>12 DEF TypeOK, BgRemove, BgGoto
  <2>2. work' \in [Jobs -> Nat \cup {NoFolder, NoOutput}]
    BY <1>12 DEF TypeOK, BgRemove, BgGoto
  <2> QED
    BY <1>12, <2>1, <2>2 DEF TypeOK, BgRemove, BgGoto, bgFrame, memory, userVars
<1>13. ASSUME NEW j \in Jobs, Renew(j) PROVE TypeOK'
  <2>1. row' \in [Jobs -> Row]
    BY <1>13, PutType, RowUpdates DEF TypeOK, Renew
  <2> QED
    BY <1>13, <2>1 DEF TypeOK, Renew, Put, memory, userVars
<1>14. ASSUME NEW j \in Jobs, LeaseLapse(j) PROVE TypeOK'
  <2>1. row' \in [Jobs -> Row]
    <3>1. row[j] \in Row /\ [row[j] EXCEPT !.lease = "lapsed"] \in Row
      BY DEF TypeOK, Row
    <3> QED
      BY <1>14, <3>1, PutType DEF TypeOK, LeaseLapse
  <2>2. spent' \in Spent
    BY <1>14, SpentMoves DEF TypeOK, LeaseLapse
  <2>3. recovery' \in [pc : {"idle", "fail", "requeue"}, due : SUBSET Jobs]
    BY <1>14 DEF TypeOK, LeaseLapse, Put
  <2> QED
    BY <1>14, <2>1, <2>2, <2>3 DEF TypeOK, LeaseLapse, Put, memory, userVars
<1>15. ASSUME NEW j \in Jobs, RemoveFolder(j) PROVE TypeOK'
  <2>1. work' \in [Jobs -> Nat \cup {NoFolder, NoOutput}]
    BY <1>15 DEF TypeOK, RemoveFolder
  <2> QED
    BY <1>15, <2>1 DEF TypeOK, RemoveFolder, memory, userVars
<1>16. ASSUME NEW j \in Jobs, TellWorker(j) PROVE TypeOK'
  <2>1. worker' \in [Jobs -> Record]
    BY <1>16, WorkerPutType DEF TypeOK, TellWorker
  <2> QED
    BY <1>16, <2>1 DEF TypeOK, TellWorker, memory, userVars
<1>17. ASSUME NEW j \in Jobs, ExpireReviews(j) PROVE TypeOK'
  <2>1. row' \in [Jobs -> Row]
    BY <1>17, PutType, RowUpdates DEF TypeOK, ExpireReviews
  <2> QED
    BY <1>17, <2>1 DEF TypeOK, ExpireReviews, Put, memory, userVars
<1>18. ASSUME NEW j \in Jobs, WindowLapse(j) PROVE TypeOK'
  <2>1. row' \in [Jobs -> Row]
    BY <1>18, PutType, RowUpdates DEF TypeOK, WindowLapse
  <2> QED
    BY <1>18, <2>1 DEF TypeOK, WindowLapse, Put, memory, userVars
<1>19. ASSUME NEW j \in Jobs, WorkerFinish(j) PROVE TypeOK'
  <2>1. worker' \in [Jobs -> Record]
    BY <1>19, WorkerPutType DEF TypeOK, WorkerFinish
  <2>2. work' \in [Jobs -> Nat \cup {NoFolder, NoOutput}]
    <3>1. worker[j].dec \in Nat
      BY DEF TypeOK, Record
    <3> QED
      BY <1>19, <3>1 DEF TypeOK, WorkerFinish
  <2> QED
    BY <1>19, <2>1, <2>2 DEF TypeOK, WorkerFinish, workerFrame, memory, userVars
<1>20. CASE RefreshHealth
  <2>1. health' \in Jobs \cup {NoJob}
    BY <1>20, WorkerActiveType DEF TypeOK, RefreshHealth
  <2> QED
    BY <1>20, <2>1 DEF TypeOK, RefreshHealth, memory, userVars
<1>21. CASE TickUnwanted
  <2>1. health' \in Jobs \cup {NoJob}
    BY <1>21, WorkerActiveType DEF TypeOK, TickUnwanted
  <2>2. worker' \in [Jobs -> Record]
    BY <1>21, WorkerPutType DEF TypeOK, TickUnwanted
  <2>3. row' \in [Jobs -> Row]
    BY <1>21, PutType, RowUpdates, ClaimType DEF TypeOK, TickUnwanted
  <2>4. RunTyped(run)'
    BY <1>21, GotoType, RaiseType, RunStarts, ClaimType DEF TypeOK, TickUnwanted
  <2> QED
    BY <1>21, <2>1, <2>2, <2>3, <2>4 DEF TypeOK, TickUnwanted, Claim, Put, runFrame, memory, userVars
<1>22. CASE RunPrepare
  <2>1. row' \in [Jobs -> Row]
    BY <1>22, RunRow, PutType, RowUpdates DEF TypeOK, RunPrepare
  <2>2. RunTyped(run)'
    BY <1>22, GotoType, RaiseType, RunStarts DEF TypeOK, RunPrepare
  <2>3. work' \in [Jobs -> Nat \cup {NoFolder, NoOutput}]
    BY <1>22 DEF TypeOK, RunPrepare
  <2> QED
    BY <1>22, <2>1, <2>2, <2>3 DEF TypeOK, RunPrepare, Put, Goto, Raise, runFrame, memory, userVars
<1>23. CASE RunSubmit
  <2>1. RunTyped(run)'
    BY <1>23, GotoType, RaiseType, RunStarts DEF TypeOK, RunSubmit
  <2>2. worker' \in [Jobs -> Record]
    <3>1. run.dec \in Nat
      BY DEF TypeOK, RunTyped, Run
    <3> QED
      BY <1>23, <3>1, RunRow, WorkerPutType DEF TypeOK, RunSubmit
  <2>3. work' \in [Jobs -> Nat \cup {NoFolder, NoOutput}]
    BY <1>23 DEF TypeOK, RunSubmit
  <2> QED
    BY <1>23, <2>1, <2>2, <2>3 DEF TypeOK, RunSubmit, Goto, Raise, runFrame, memory, userVars
<1>24. CASE RunPoll
  <2>1. row' \in [Jobs -> Row]
    BY <1>24, RunRow, PutType, RowUpdates DEF TypeOK, RunPoll
  <2>2. RunTyped(run)'
    <3>1. /\ RunTyped([run EXCEPT !.pc = "submit", !.resubmits = @ + 1])
          /\ RunTyped([run EXCEPT !.pc = "validate", !.resubmits = 0])
      BY <1>24, RunMoves DEF TypeOK, RunPoll
    <3> QED
      BY <1>24, <3>1, GotoType, RaiseType DEF TypeOK, RunPoll
  <2>3. worker' \in [Jobs -> Record]
    BY <1>24, RunRow, WorkerPutType DEF TypeOK, RunPoll
  <2> QED
    BY <1>24, <2>1, <2>2, <2>3 DEF TypeOK, RunPoll, Put, Goto, Raise, runFrame, memory, userVars
<1>25. CASE RunCancel
  <2>1. RunTyped(run)'
    BY <1>25, GotoType, RaiseType, RunStarts DEF TypeOK, RunCancel
  <2> QED
    BY <1>25, <2>1 DEF TypeOK, RunCancel, Raise, runFrame, memory, userVars
<1>26. CASE RunValidate
  <2>1. row' \in [Jobs -> Row]
    BY <1>26, RunRow, PutType, RowUpdates DEF TypeOK, RunValidate
  <2>2. RunTyped(run)'
    <3> DEFINE due == <<run.job, work[run.job]>> \in ReviewDue /\ ~run.approved
    <3>1. due \in BOOLEAN
      OBVIOUS
    <3> HIDE DEF due
    <3>2. RunTyped([run EXCEPT !.pc = "finish", !.review = due])
      BY <1>26, <3>1, RunMoves DEF TypeOK, RunValidate
    <3>3. \/ run' = [run EXCEPT !.pc = "finish", !.review = due]
          \/ Raise("retryable")
      BY <1>26 DEF RunValidate, due
    <3>4. RunTyped(run) /\ run.pc # "idle"
      BY <1>26 DEF TypeOK, RunValidate
    <3> QED
      BY <3>2, <3>3, <3>4, RaiseType
  <2> QED
    BY <1>26, <2>1, <2>2 DEF TypeOK, RunValidate, Put, Raise, runFrame, memory, userVars
<1>27. CASE RunFinish
  <2>1. row' \in [Jobs -> Row]
    BY <1>27, RunRow, PutType, RowUpdates DEF TypeOK, RunFinish
  <2>2. RunTyped(run)'
    BY <1>27, GotoType, RaiseType, RunStarts DEF TypeOK, RunFinish
  <2> QED
    BY <1>27, <2>1, <2>2 DEF TypeOK, RunFinish, Put, Goto, Raise, runFrame, memory, userVars
<1>28. CASE RunPublish
  <2>1. RunTyped(run)'
    BY <1>28, GotoType, RaiseType, RunStarts DEF TypeOK, RunPublish, AddToLibrary
  <2>2. library' \in [Jobs -> SUBSET Nat]
    BY <1>28 DEF TypeOK, RunPublish, AddToLibrary
  <2> QED
    BY <1>28, <2>1, <2>2 DEF TypeOK, RunPublish, AddToLibrary, Goto, Raise, memory, userVars
<1>29. CASE RunComplete
  <2>1. row' \in [Jobs -> Row]
    BY <1>29, RunRow, PutType, RowUpdates DEF TypeOK, RunComplete
  <2>2. RunTyped(run)'
    BY <1>29, GotoType, RaiseType, RunStarts DEF TypeOK, RunComplete
  <2> QED
    BY <1>29, <2>1, <2>2 DEF TypeOK, RunComplete, Put, Goto, Raise, runFrame, memory, userVars
<1>30. CASE RunFailure
  <2>1. RunTyped(run)'
    BY <1>30, GotoType, RaiseType, RunStarts, RunMoves DEF TypeOK, RunFailure
  <2> QED
    BY <1>30, <2>1 DEF TypeOK, RunFailure, runFrame, memory, userVars
<1>31. CASE RunSettle
  <2>1. row' \in [Jobs -> Row]
    BY <1>31, RunRow, PutType, RowUpdates DEF TypeOK, RunSettle
  <2>2. RunTyped(run)'
    BY <1>31, GotoType, RaiseType, RunStarts DEF TypeOK, RunSettle
  <2> QED
    BY <1>31, <2>1, <2>2 DEF TypeOK, RunSettle, Put, Goto, runFrame, memory, userVars
<1>32. CASE RunRemove
  <2>1. RunTyped(run)'
    BY <1>32, GotoType, RaiseType, RunStarts DEF TypeOK, RunRemove
  <2>2. work' \in [Jobs -> Nat \cup {NoFolder, NoOutput}]
    BY <1>32 DEF TypeOK, RunRemove
  <2> QED
    BY <1>32, <2>1, <2>2 DEF TypeOK, RunRemove, runFrame, memory, userVars
<1>33. CASE RecoverStart
  <2>1. row' \in [Jobs -> Row]
    BY <1>33, RowUpdates DEF TypeOK, RecoverStart
  <2>2. recovery' \in [pc : {"idle", "fail", "requeue"}, due : SUBSET Jobs]
    BY <1>33 DEF TypeOK, RecoverStart
  <2> QED
    BY <1>33, <2>1, <2>2 DEF TypeOK, RecoverStart, recoverFrame, memory, userVars
<1>34. CASE RecoverFail
  <2>1. row' \in [Jobs -> Row]
    BY <1>34, RowUpdates DEF TypeOK, RecoverFail
  <2>2. recovery' \in [pc : {"idle", "fail", "requeue"}, due : SUBSET Jobs]
    BY <1>34 DEF TypeOK, RecoverFail
  <2> QED
    BY <1>34, <2>1, <2>2 DEF TypeOK, RecoverFail, recoverFrame, memory, userVars
<1>35. CASE RecoverRequeue
  <2>1. row' \in [Jobs -> Row]
    BY <1>35, RowUpdates DEF TypeOK, RecoverRequeue
  <2>2. recovery' \in [pc : {"idle", "fail", "requeue"}, due : SUBSET Jobs]
    BY <1>35 DEF TypeOK, RecoverRequeue
  <2> QED
    BY <1>35, <2>1, <2>2 DEF TypeOK, RecoverRequeue, recoverFrame, memory, userVars
<1>36. CASE SweepKeep
  <2>1. sweep' \in [pc : {"idle", "list", "remove"}, keep : SUBSET Jobs, todo : SUBSET Jobs]
    BY <1>36 DEF TypeOK, SweepKeep
  <2> QED
    BY <1>36, <2>1 DEF TypeOK, SweepKeep, sweepFrame, memory, userVars
<1>37. CASE SweepList
  <2>1. sweep' \in [pc : {"idle", "list", "remove"}, keep : SUBSET Jobs, todo : SUBSET Jobs]
    BY <1>37 DEF TypeOK, SweepList
  <2> QED
    BY <1>37, <2>1 DEF TypeOK, SweepList, sweepFrame, memory, userVars
<1>38. CASE SweepRemove
  <2>1. sweep' \in [pc : {"idle", "list", "remove"}, keep : SUBSET Jobs, todo : SUBSET Jobs]
    BY <1>38 DEF TypeOK, SweepRemove
  <2>2. work' \in [Jobs -> Nat \cup {NoFolder, NoOutput}]
    BY <1>38 DEF TypeOK, SweepRemove
  <2> QED
    BY <1>38, <2>1, <2>2 DEF TypeOK, SweepRemove, sweepFrame, memory, userVars
<1>39. CASE WorkerShutdown
  <2>1. worker' \in [Jobs -> Record]
    BY <1>39, RecordMoves DEF TypeOK, WorkerShutdown
  <2>2. spent' \in Spent
    BY <1>39, SpentMoves DEF TypeOK, WorkerShutdown
  <2> QED
    BY <1>39, <2>1, <2>2 DEF TypeOK, WorkerShutdown, workerFrame, memory, userVars
<1>40. CASE WorkerExit
  <2>1. worker' \in [Jobs -> Record]
    BY <1>40, RecordMoves DEF TypeOK, WorkerExit
  <2> QED
    BY <1>40, <2>1 DEF TypeOK, WorkerExit, workerFrame, memory, userVars
<1>41. CASE WorkerCrash
  <2>1. worker' \in [Jobs -> Record]
    BY <1>41, RecordMoves DEF TypeOK, WorkerCrash
  <2>2. spent' \in Spent
    BY <1>41, SpentMoves DEF TypeOK, WorkerCrash
  <2> QED
    BY <1>41, <2>1, <2>2 DEF TypeOK, WorkerCrash, workerFrame, memory, userVars
<1>42. CASE ServerCrash
  <2>1. RunTyped(run)'
    BY <1>42, GotoType, RaiseType, RunStarts DEF TypeOK, ServerCrash
  <2>2. health' \in Jobs \cup {NoJob}
    BY <1>42, WorkerActiveType DEF TypeOK, ServerCrash
  <2>3. spent' \in Spent
    BY <1>42, SpentMoves DEF TypeOK, ServerCrash
  <2>4. bg' \in [Jobs -> {"none", "validate", "publish", "complete", "failure", "remove"}]
    BY <1>42 DEF TypeOK, ServerCrash
  <2> QED
    BY <1>42, <2>1, <2>2, <2>3, <2>4 DEF TypeOK, ServerCrash, memory, userVars
<1>43. CASE UNCHANGED vars
  BY <1>43 DEF TypeOK, vars, memory, userVars
<1> QED
  BY <1>1, <1>2, <1>3, <1>4, <1>5, <1>6, <1>7, <1>8, <1>9, <1>10, <1>11,
     <1>12, <1>13, <1>14, <1>15, <1>16, <1>17, <1>18, <1>19, <1>20, <1>21,
     <1>22, <1>23, <1>24, <1>25, <1>26, <1>27, <1>28, <1>29, <1>30, <1>31,
     <1>32, <1>33, <1>34, <1>35, <1>36, <1>37, <1>38, <1>39, <1>40, <1>41,
     <1>42, <1>43
  DEF Next, UserStep, BgStep, RunStep, RecoveryStep, SweepStep

(* Every variable keeps its type, and a run that is not idle is on a job.   *)
THEOREM TypeCorrect == Spec => []TypeOK
<1>1. Init => TypeOK
  BY InitType
<1>2. TypeOK /\ [Next]_vars => TypeOK'
  BY NextType
<1> QED
  BY <1>1, <1>2, PTL DEF Spec

-----------------------------------------------------------------------------
(* Where the run goes, and what it takes along. *)
LEMMA GotoEffect ==
  ASSUME RunTyped(run), NEW pc, Goto(pc)
  PROVE  run'.pc = pc /\ run'.job = run.job /\ run'.attempt = run.attempt
  BY DEF Goto, RunTyped, Run

LEMMA RaiseEffect ==
  ASSUME NEW e, Raise(e)
  PROVE  run'.pc = "failure" /\ run'.job = run.job /\ run'.attempt = run.attempt
  BY DEF Raise, IdleRun

LEMMA IdleEffect == IdleRun.pc = "idle" /\ IdleRun.job = NoJob
  BY DEF IdleRun

LEMMA PollEffect ==
  ASSUME RunTyped(run)
  PROVE  /\ LET r == [run EXCEPT !.pc = "submit", !.resubmits = @ + 1]
            IN r.pc = "submit" /\ r.job = run.job /\ r.attempt = run.attempt
         /\ LET r == [run EXCEPT !.pc = "validate", !.resubmits = 0]
            IN r.pc = "validate" /\ r.job = run.job /\ r.attempt = run.attempt
         /\ \A b : LET r == [run EXCEPT !.pc = "finish", !.review = b]
                   IN r.pc = "finish" /\ r.job = run.job /\ r.attempt = run.attempt
         /\ \A b : LET r == [run EXCEPT !.pc = "settle", !.cancelled = b]
                   IN r.pc = "settle" /\ r.job = run.job /\ r.attempt = run.attempt
  BY DEF RunTyped, Run

(* A run that is not idle is on a job. *)
LEMMA RunOnJob == ASSUME TypeOK PROVE run.pc # "idle" => run.job \in Jobs
  BY DEF TypeOK, RunTyped

LEMMA ClaimEffect ==
  ASSUME TypeOK, NEW j \in Jobs, Claim(j)
  PROVE  /\ run.pc = "idle" /\ run'.pc = "prepare" /\ run'.job = j
         /\ run'.attempt = row[j].attempt + 1
         /\ row[j].status = "queued" /\ row'[j].status = "processing"
         /\ row'[j].lease = "live" /\ row'[j].attempt = row[j].attempt + 1
         /\ \A k \in Jobs : k # j => row'[k] = row[k]
<1>1. run.pc = "idle" /\ run'.pc = "prepare" /\ run'.job = j
  BY DEF Claim, IdleRun
<1>2. run'.attempt = row[j].attempt + 1
  BY DEF Claim, IdleRun
<1>3. row[j] \in Row /\ row'[j] = ClaimQueued(row[j])
  BY DEF Claim, Put, TypeOK
<1>4. /\ row'[j].status = "processing" /\ row'[j].lease = "live"
      /\ row'[j].attempt = row[j].attempt + 1
  BY <1>3 DEF ClaimQueued, Row
<1>5. row[j].status = "queued" /\ \A k \in Jobs : k # j => row'[k] = row[k]
  BY DEF Claim, Claimable, Put, TypeOK
<1> QED
  BY <1>1, <1>2, <1>4, <1>5

-----------------------------------------------------------------------------
(* One active job per book. *)

(* Apart from creation and retry, no update makes an inactive row active. *)
LEMMA StaysInactive ==
  ASSUME NEW r \in Row
  PROVE  /\ Active(RequestCancellation(r)) => Active(r)
         /\ ReviewOpen(r) => Active(r)
         /\ Claimable(r) => Active(r)
         /\ Active(Heartbeat(r)) => Active(r)
         /\ \A stage \in Stage : Active(UpdateProgress(r, stage)) => Active(r)
         /\ Publishable(r) => Active(r)
         /\ Active(Complete(r)) => Active(r)
         /\ \A window \in {"none", "open"} : Active(Fail(r, window)) => Active(r)
         /\ Active(Requeue(r)) => Active(r)
         /\ Active(RecoverCancelled(r)) => Active(r)
         /\ Active(RecoverFailed(r)) => Active(r)
         /\ Active(RecoverRequeued(r)) => Active(r)
         /\ ~Active(ExpireReview(r))
         /\ Active(ClearExpiredWorkWindow(r)) => Active(r)
<1> USE DEF Active, ActiveStatus, Processing, Row
<1>1. Active(RequestCancellation(r)) => Active(r)
  BY DEF RequestCancellation
<1>2. (ReviewOpen(r) => Active(r)) /\ (Claimable(r) => Active(r))
      /\ (Publishable(r) => Active(r))
  BY DEF ReviewOpen, Claimable, Publishable
<1>3. Active(Heartbeat(r)) => Active(r)
  BY DEF Heartbeat
<1>4. \A stage \in Stage : Active(UpdateProgress(r, stage)) => Active(r)
  BY DEF UpdateProgress
<1>5. Active(Complete(r)) => Active(r)
  BY DEF Complete
<1>6. \A window \in {"none", "open"} : Active(Fail(r, window)) => Active(r)
  BY DEF Fail
<1>7. Active(Requeue(r)) => Active(r)
  BY DEF Requeue
<1>8. Active(RecoverCancelled(r)) => Active(r)
  BY DEF RecoverCancelled
<1>9. Active(RecoverFailed(r)) => Active(r)
  BY DEF RecoverFailed
<1>10. Active(RecoverRequeued(r)) => Active(r)
  BY DEF RecoverRequeued, LeaseExpired
<1>11. ~Active(ExpireReview(r))
  BY DEF ExpireReview
<1>12. Active(ClearExpiredWorkWindow(r)) => Active(r)
  BY DEF ClearExpiredWorkWindow
<1> HIDE DEF Active, Processing, Row
<1> QED
  BY <1>1, <1>2, <1>3, <1>4, <1>5, <1>6, <1>7, <1>8, <1>9, <1>10, <1>11, <1>12

LEMMA PutActive ==
  ASSUME row \in [Jobs -> Row], NEW j \in Jobs, NEW r, Put(j, r),
         Active(r) => Active(row[j])
  PROVE  \A k \in Jobs : Active(row'[k]) => Active(row[k])
  BY DEF Put

(* A step makes a job active only if no other job of its book is, and then  *)
(* it touches no other row.                                                *)
NoneStarts == \A k \in Jobs : Active(row'[k]) => Active(row[k])
OneStarts == \E j \in Jobs : BookFree(j) /\ \A k \in Jobs : k # j => row'[k] = row[k]

LEMMA Starts == TypeOK /\ [Next]_vars => NoneStarts \/ OneStarts
<1> SUFFICES ASSUME TypeOK, [Next]_vars PROVE NoneStarts \/ OneStarts
  OBVIOUS
<1>0. UNCHANGED row => NoneStarts
  BY DEF NoneStarts
<1>1. ASSUME NEW j \in Jobs, Create(j) \/ RetryJob(j) PROVE OneStarts
  BY <1>1 DEF Create, RetryJob, Put, TypeOK, OneStarts
<1>2. ASSUME NEW j \in Jobs, Cancel(j) PROVE NoneStarts
  BY <1>2, StaysInactive, PutActive DEF Cancel, TypeOK, NoneStarts
<1>3. ASSUME NEW j \in Jobs, Publish(j) \/ ResyncJob(j) PROVE NoneStarts
  BY <1>3, StaysInactive, PutActive DEF Publish, ResyncJob, TypeOK, NoneStarts
<1>4. ASSUME NEW j \in Jobs, Claim(j) PROVE NoneStarts
  BY <1>4, StaysInactive, PutActive DEF Claim, TypeOK, NoneStarts
<1>5. ASSUME NEW j \in Jobs, Tick(j) \/ TickAdopt(j) PROVE NoneStarts
  BY <1>4, <1>5 DEF Tick, TickAdopt
<1>6. TickUnwanted => NoneStarts
  BY <1>0, <1>4 DEF TickUnwanted
<1>7. ASSUME NEW j \in Jobs, BgStep(j) PROVE NoneStarts
  <2>1. CASE BgComplete(j)
    BY <1>0, <2>1, StaysInactive, PutActive DEF BgComplete, TypeOK, NoneStarts
  <2>2. CASE BgFailure(j)
    BY <1>0, <2>2, StaysInactive, PutActive DEF BgFailure, TypeOK, NoneStarts
  <2>3. CASE BgValidate(j) \/ BgPublish(j) \/ BgRemove(j)
    BY <1>0, <2>3 DEF BgValidate, BgPublish, BgRemove
  <2> QED
    BY <1>7, <2>1, <2>2, <2>3 DEF BgStep
<1>8. ASSUME NEW j \in Jobs, Renew(j) PROVE NoneStarts
  BY <1>8, StaysInactive, PutActive DEF Renew, TypeOK, NoneStarts
<1>9. ASSUME NEW j \in Jobs, LeaseLapse(j) PROVE NoneStarts
  BY <1>9, PutActive DEF LeaseLapse, TypeOK, NoneStarts, Active, Row
<1>10. ASSUME NEW j \in Jobs, ExpireReviews(j) \/ WindowLapse(j) PROVE NoneStarts
  BY <1>10, StaysInactive, PutActive DEF ExpireReviews, WindowLapse, TypeOK, NoneStarts
<1>11. ASSUME NEW j \in Jobs, RemoveFolder(j) \/ TellWorker(j) \/ WorkerFinish(j)
       PROVE  NoneStarts
  BY <1>0, <1>11 DEF RemoveFolder, TellWorker, WorkerFinish, workerFrame
<1>12. RunStep => NoneStarts
  <2>1. ASSUME run.pc # "idle" PROVE run.job \in Jobs /\ row[run.job] \in Row
    BY <2>1, RunRow
  <2>2. CASE RunPrepare \/ RunPoll \/ RunValidate
    BY <1>0, <2>1, <2>2, StaysInactive, PutActive
    DEF RunPrepare, RunPoll, RunValidate, TypeOK, NoneStarts, Stage
  <2>3. CASE RunFinish
    BY <1>0, <2>1, <2>3, StaysInactive, PutActive DEF RunFinish, TypeOK, NoneStarts
  <2>4. CASE RunComplete
    BY <1>0, <2>1, <2>4, StaysInactive, PutActive DEF RunComplete, TypeOK, NoneStarts
  <2>5. CASE RunSettle
    BY <1>0, <2>1, <2>5, StaysInactive, PutActive DEF RunSettle, TypeOK, NoneStarts
  <2>6. CASE RunSubmit \/ RunCancel \/ RunPublish \/ RunFailure \/ RunRemove
    BY <1>0, <2>6 DEF RunSubmit, RunCancel, RunPublish, RunFailure, RunRemove
  <2> QED
    BY <2>2, <2>3, <2>4, <2>5, <2>6 DEF RunStep
<1>13. RecoveryStep => NoneStarts
  BY StaysInactive DEF RecoveryStep, RecoverStart, RecoverFail, RecoverRequeue, TypeOK,
     NoneStarts
<1>14. SweepStep => NoneStarts
  BY <1>0 DEF SweepStep, SweepKeep, SweepList, SweepRemove, sweepFrame
<1>15. RefreshHealth \/ WorkerShutdown \/ WorkerExit \/ WorkerCrash \/ ServerCrash
       => NoneStarts
  BY <1>0 DEF RefreshHealth, WorkerShutdown, WorkerExit, WorkerCrash, ServerCrash,
     workerFrame
<1>16. UNCHANGED vars => NoneStarts
  BY <1>0 DEF vars
<1> QED
  BY <1>1, <1>2, <1>3, <1>5, <1>6, <1>7, <1>8, <1>9, <1>10, <1>11, <1>12, <1>13, <1>14,
     <1>15, <1>16 DEF Next, UserStep

(* Two jobs of one book are never active together. *)
THEOREM OneActiveCorrect == Spec => []OneActivePerBook
<1>1. Init => OneActivePerBook
  BY DEF Init, OneActivePerBook, NoRow, Active, ActiveStatus
<1>2. TypeOK /\ OneActivePerBook /\ [Next]_vars => OneActivePerBook'
  <2> SUFFICES ASSUME TypeOK, OneActivePerBook, [Next]_vars PROVE OneActivePerBook'
    OBVIOUS
  <2>1. CASE NoneStarts
    BY <2>1 DEF NoneStarts, OneActivePerBook, Active
  <2>2. CASE OneStarts
    BY <2>2 DEF OneStarts, BookFree, OneActivePerBook, Active
  <2> QED
    BY <2>1, <2>2, Starts
<1> QED
  BY <1>1, <1>2, TypeCorrect, PTL DEF Spec

-----------------------------------------------------------------------------
(* How often a job is picked up. *)

(* Attempts.  A quiet update neither spends an attempt nor lets a row come  *)
(* to wait for a claim, a review or recovery.                               *)
Quiet(r, s) ==
  /\ s.attempt = r.attempt \/ s.attempt = 0
  /\ s.status = "queued" => r.status = "queued" \/ s.attempt = 0
  /\ s.status = "processing" =>
       s.attempt = r.attempt /\ r.status \in {"processing", "awaiting_review"}
  /\ s.status = "awaiting_review" => r.status = "awaiting_review"
  /\ LeaseExpired(s) /\ ~s.cancel => LeaseExpired(r) /\ ~r.cancel

LEMMA QuietUpdates ==
  ASSUME NEW r \in Row
  PROVE  /\ Quiet(r, r) /\ Quiet(r, NewRow)
         /\ Quiet(r, RequestCancellation(r))
         /\ ReviewOpen(r) => Quiet(r, ClaimForPublishing(r)) /\ Quiet(r, Resync(r))
         /\ Retryable(r) => Quiet(r, Retry(r))
         /\ Quiet(r, Heartbeat(r))
         /\ \A stage \in Stage : Quiet(r, UpdateProgress(r, stage))
         /\ Quiet(r, Complete(r))
         /\ \A window \in {"none", "open"} : Quiet(r, Fail(r, window))
         /\ Publishable(r) => Quiet(r, BeginPublishing(r))
         /\ Quiet(r, RecoverCancelled(r)) /\ Quiet(r, RecoverFailed(r))
         /\ Quiet(r, ExpireReview(r)) /\ Quiet(r, ClearExpiredWorkWindow(r))
<1> USE DEF Quiet, LeaseExpired, Processing, Row
<1>1. Quiet(r, r)
  OBVIOUS
<1>2. Quiet(r, NewRow)
  BY DEF NewRow, NoRow
<1>3. Quiet(r, RequestCancellation(r))
  BY DEF RequestCancellation
<1>4. ReviewOpen(r) => Quiet(r, ClaimForPublishing(r))
  BY DEF ReviewOpen, ClaimForPublishing
<1>5. ReviewOpen(r) => Quiet(r, Resync(r))
  BY DEF ReviewOpen, Resync
<1>6. Retryable(r) => Quiet(r, Retry(r))
  BY DEF Retryable, Retry
<1>7. Quiet(r, Heartbeat(r))
  BY DEF Heartbeat
<1>8. \A stage \in Stage : Quiet(r, UpdateProgress(r, stage))
  BY DEF UpdateProgress
<1>9. Quiet(r, Complete(r))
  BY DEF Complete
<1>10. \A window \in {"none", "open"} : Quiet(r, Fail(r, window))
  BY DEF Fail
<1>11. Publishable(r) => Quiet(r, BeginPublishing(r))
  BY DEF BeginPublishing, Publishable
<1>12. Quiet(r, RecoverCancelled(r))
  BY DEF RecoverCancelled
<1>13. Quiet(r, RecoverFailed(r))
  BY DEF RecoverFailed
<1>14. Quiet(r, ExpireReview(r))
  BY DEF ExpireReview
<1>15. Quiet(r, ClearExpiredWorkWindow(r))
  BY DEF ClearExpiredWorkWindow
<1> HIDE DEF Quiet, LeaseExpired, Processing, Row
<1> QED
  BY <1>1, <1>2, <1>3, <1>4, <1>5, <1>6, <1>7, <1>8, <1>9, <1>10, <1>11, <1>12, <1>13,
     <1>14, <1>15

LEMMA PutQuiet ==
  ASSUME row \in [Jobs -> Row], NEW j \in Jobs, NEW r, Put(j, r), Quiet(row[j], r)
  PROVE  \A k \in Jobs : Quiet(row[k], row'[k])
<1>1. row'[j] = r /\ \A k \in Jobs : k # j => row'[k] = row[k]
  BY DEF Put
<1>2. \A k \in Jobs : Quiet(row[k], row[k])
  BY QuietUpdates
<1> QED
  BY <1>1, <1>2

(* Quiet updates, a run that stays with its job or ends, and a recovery     *)
(* that does not come to requeue, leave the attempts as they should be.     *)
KeepsRun ==
  \/ run' = run
  \/ run'.pc = "idle"
  \/ run.pc # "idle" /\ run'.job = run.job /\ run'.attempt = run.attempt
KeepsRecovery == recovery' = recovery \/ recovery'.pc # "requeue"

LEMMA QuietStep ==
  ASSUME TypeOK, AttemptsLeft, KeepsRun, KeepsRecovery,
         \A k \in Jobs : Quiet(row[k], row'[k])
  PROVE  AttemptsLeft'
<1>1. \A k \in Jobs : row[k].attempt \in Nat
  BY RowFields DEF TypeOK
<1>2. AttemptsBounded'
  BY <1>1, MaxAttemptsAssumption DEF AttemptsLeft, AttemptsBounded, Quiet
<1>3. \A k \in Jobs : row'[k].status = "queued" => row'[k].attempt < MaxAttempts
  BY <1>1, MaxAttemptsAssumption DEF AttemptsLeft, Quiet
<1>4. run'.pc # "idle" =>
        /\ row'[run'.job].status # "awaiting_review"
        /\ Processing(row'[run'.job]) => run'.attempt = row'[run'.job].attempt
  <2>1. CASE run'.pc # "idle"
    <3>1. run.pc # "idle" /\ run'.job = run.job /\ run'.attempt = run.attempt
      BY <2>1 DEF KeepsRun
    <3>2. run.job \in Jobs
      BY <3>1, RunOnJob
    <3> QED
      BY <3>1, <3>2 DEF AttemptsLeft, Quiet, Processing
  <2> QED
    BY <2>1
<1>5. recovery'.pc = "requeue" =>
        \A k \in recovery'.due :
          LeaseExpired(row'[k]) /\ ~row'[k].cancel => row'[k].attempt < MaxAttempts
  <2>1. CASE recovery' = recovery /\ recovery.pc = "requeue"
    <3>1. ASSUME NEW k \in recovery.due, LeaseExpired(row'[k]), ~row'[k].cancel
          PROVE  row'[k].attempt < MaxAttempts
      <4>1. k \in Jobs
        BY DEF TypeOK
      <4>2. LeaseExpired(row[k]) /\ ~row[k].cancel
        BY <3>1, <4>1 DEF Quiet
      <4>3. row[k].attempt < MaxAttempts
        BY <2>1, <4>2 DEF AttemptsLeft
      <4> QED
        BY <1>1, <4>1, <4>3, MaxAttemptsAssumption DEF Quiet
    <3> QED
      BY <2>1, <3>1
  <2> QED
    BY <2>1 DEF KeepsRecovery
<1> QED
  BY <1>2, <1>3, <1>4, <1>5 DEF AttemptsLeft, LeaseExpired, Processing

(* The steps that are not quiet. *)
LEMMA ClaimStep ==
  ASSUME TypeOK, AttemptsLeft, NEW j \in Jobs, Claim(j), UNCHANGED runFrame
  PROVE  AttemptsLeft'
<1>1. /\ run.pc = "idle" /\ run'.job = j /\ run'.attempt = row[j].attempt + 1
      /\ row[j].status = "queued" /\ row'[j].status = "processing"
      /\ row'[j].lease = "live" /\ row'[j].attempt = row[j].attempt + 1
      /\ \A k \in Jobs : k # j => row'[k] = row[k]
  BY ClaimEffect
<1>2. row[j].attempt \in Nat /\ row[j].attempt < MaxAttempts
  BY <1>1, RowFields DEF TypeOK, AttemptsLeft
<1>3. AttemptsBounded'
  BY <1>1, <1>2, MaxAttemptsAssumption DEF AttemptsLeft, AttemptsBounded
<1>4. recovery' = recovery
  BY DEF runFrame
<1>5. recovery.due \subseteq Jobs
  BY DEF TypeOK
<1> QED
  BY <1>1, <1>3, <1>4, <1>5 DEF AttemptsLeft, LeaseExpired, Processing

LEMMA ReviewStep ==
  ASSUME TypeOK, AttemptsLeft, RunFinish, run' = IdleRun
  PROVE  AttemptsLeft'
<1>1. run.job \in Jobs /\ row[run.job] \in Row
  BY RunRow DEF RunFinish
<1>2. run'.pc = "idle"
  BY IdleEffect
<1>3. Put(run.job, MarkAwaitingReview(row[run.job]))
  BY <1>1, <1>2, GotoEffect, RaiseEffect DEF TypeOK, RunFinish
<1>4. /\ row'[run.job].status = "awaiting_review"
      /\ row'[run.job].attempt = row[run.job].attempt
      /\ \A k \in Jobs : k # run.job => row'[k] = row[k]
  BY <1>1, <1>3 DEF Put, MarkAwaitingReview, Row, TypeOK
<1>5. recovery' = recovery
  BY DEF RunFinish, runFrame
<1>6. recovery.due \subseteq Jobs
  BY DEF TypeOK
<1> QED
  BY <1>1, <1>2, <1>4, <1>5, <1>6 DEF AttemptsLeft, AttemptsBounded, LeaseExpired, Processing

(* The run's own count stands for the row's: that is what lets a failure    *)
(* the worker did not cause put the job back in the queue.                 *)
LEMMA SettleStep ==
  ASSUME TypeOK, AttemptsLeft, RunSettle
  PROVE  AttemptsLeft'
<1> DEFINE j == run.job
           r == row[run.job]
<1>1. j \in Jobs /\ r \in Row
  BY RunRow DEF RunSettle
<1>2. recovery' = recovery /\ recovery.due \subseteq Jobs
  BY DEF RunSettle, runFrame, TypeOK
<1>3. run' = IdleRun \/ Goto("remove")
  BY DEF RunSettle
<1>4. KeepsRun
  BY <1>3, IdleEffect, GotoEffect DEF TypeOK, KeepsRun, RunSettle
<1>5. CASE UNCHANGED row \/ \E w \in {"none", "open"} : Put(j, Fail(r, w))
  <2>1. \A k \in Jobs : Quiet(row[k], row'[k])
    BY <1>1, <1>5, PutQuiet, QuietUpdates DEF TypeOK
  <2> QED
    BY <1>2, <1>4, <2>1, QuietStep DEF KeepsRecovery
<1>6. CASE run.attempt < MaxAttempts /\ Put(j, Requeue(r)) /\ run' = IdleRun
  <2>1. run'.pc = "idle"
    BY <1>6, IdleEffect
  <2>2. row'[j] = Requeue(r) /\ \A k \in Jobs : k # j => row'[k] = row[k]
    BY <1>1, <1>6 DEF Put, TypeOK
  <2>3. /\ row'[j].attempt = r.attempt
        /\ ~Processing(r) => row'[j] = r
        /\ Processing(r) => ~Processing(row'[j])
    BY <1>1, <2>2 DEF Requeue, Processing, Row
  <2>4. Processing(r) => r.attempt < MaxAttempts
    BY <1>6 DEF AttemptsLeft, RunSettle
  <2>5. AttemptsBounded'
    BY <1>1, <2>2, <2>3 DEF AttemptsLeft, AttemptsBounded
  <2>6. \A k \in Jobs : row'[k].status = "queued" => row'[k].attempt < MaxAttempts
    BY <1>1, <2>2, <2>3, <2>4 DEF AttemptsLeft
  <2>7. recovery.pc = "requeue" => \A k \in recovery.due :
          LeaseExpired(row'[k]) /\ ~row'[k].cancel => row'[k].attempt < MaxAttempts
    BY <1>1, <1>2, <2>2, <2>3 DEF AttemptsLeft, LeaseExpired, Processing
  <2> QED
    BY <1>2, <2>1, <2>5, <2>6, <2>7 DEF AttemptsLeft, LeaseExpired, Processing
<1> QED
  BY <1>5, <1>6 DEF RunSettle

LEMMA LapseStep ==
  ASSUME TypeOK, AttemptsLeft, NEW j \in Jobs, LeaseLapse(j)
  PROVE  AttemptsLeft'
<1>1. row[j] \in Row
  BY DEF TypeOK
<1>2. /\ row'[j].status = row[j].status /\ row'[j].attempt = row[j].attempt
      /\ \A k \in Jobs : k # j => row'[k] = row[k]
  BY <1>1 DEF LeaseLapse, Put, TypeOK, Row
<1>3. /\ run' = run /\ recovery'.pc = recovery.pc
      /\ recovery'.due = recovery.due \ {j} /\ recovery.due \subseteq Jobs
  BY DEF LeaseLapse, TypeOK
<1>4. run.pc # "idle" => run.job \in Jobs
  BY RunOnJob
<1> QED
  BY <1>2, <1>3, <1>4 DEF AttemptsLeft, AttemptsBounded, LeaseExpired, Processing

(* Recovery's second update leaves nothing due that has used its attempts. *)
LEMMA RecoverFailStep ==
  ASSUME TypeOK, AttemptsLeft, RecoverFail
  PROVE  AttemptsLeft'
<1>1. \A k \in Jobs : row[k] \in Row /\ row[k].attempt \in Nat
  BY RowFields DEF TypeOK
<1>2. \A k \in Jobs : row'[k] = IF k \in recovery.due THEN RecoverFailed(row[k]) ELSE row[k]
  BY DEF RecoverFail
<1>3. \A k \in Jobs : Quiet(row[k], row'[k])
  BY <1>1, <1>2, QuietUpdates
<1>4. run' = run /\ recovery'.pc = "requeue" /\ recovery'.due = recovery.due
  BY DEF RecoverFail, recoverFrame, TypeOK
<1>5. recovery.due \subseteq Jobs
  BY DEF TypeOK
<1>6. ASSUME NEW k \in recovery.due, LeaseExpired(row'[k]), ~row'[k].cancel
      PROVE  row'[k].attempt < MaxAttempts
  <2>1. row'[k] = RecoverFailed(row[k]) /\ row[k] \in Row /\ row[k].attempt \in Nat
    BY <1>1, <1>2, <1>5
  <2> QED
    BY <1>6, <2>1, MaxAttemptsAssumption DEF RecoverFailed, LeaseExpired, Processing, Row
<1>7. run.pc # "idle" => run.job \in Jobs
  BY RunOnJob
<1>8. AttemptsBounded'
  BY <1>1, <1>3, MaxAttemptsAssumption DEF AttemptsLeft, AttemptsBounded, Quiet
<1>9. \A k \in Jobs : row'[k].status = "queued" => row'[k].attempt < MaxAttempts
  BY <1>1, <1>3, MaxAttemptsAssumption DEF AttemptsLeft, Quiet
<1>10. run'.pc # "idle" =>
         /\ row'[run'.job].status # "awaiting_review"
         /\ Processing(row'[run'.job]) => run'.attempt = row'[run'.job].attempt
  BY <1>3, <1>4, <1>7 DEF AttemptsLeft, Quiet, Processing
<1> QED
  BY <1>4, <1>6, <1>8, <1>9, <1>10 DEF AttemptsLeft, LeaseExpired, Processing

LEMMA RecoverRequeueStep ==
  ASSUME TypeOK, AttemptsLeft, RecoverRequeue
  PROVE  AttemptsLeft'
<1>1. \A k \in Jobs : row[k] \in Row
  BY DEF TypeOK
<1>2. \A k \in Jobs : row'[k] = IF k \in recovery.due THEN RecoverRequeued(row[k]) ELSE row[k]
  BY DEF RecoverRequeue
<1>3. \A k \in Jobs :
        /\ row'[k].attempt = row[k].attempt
        /\ row'[k].status = row[k].status
           \/ /\ row'[k].status = "queued" /\ k \in recovery.due
              /\ LeaseExpired(row[k]) /\ ~row[k].cancel
  BY <1>1, <1>2 DEF RecoverRequeued, Row
<1>4. run' = run /\ recovery'.pc = "idle" /\ recovery.pc = "requeue"
  BY DEF RecoverRequeue, recoverFrame
<1>5. run.pc # "idle" => run.job \in Jobs
  BY RunOnJob
<1> QED
  BY <1>3, <1>4, <1>5 DEF AttemptsLeft, AttemptsBounded, Processing

LEMMA NextAttempts == TypeOK /\ AttemptsLeft /\ [Next]_vars => AttemptsLeft'
<1> SUFFICES ASSUME TypeOK, AttemptsLeft, [Next]_vars PROVE AttemptsLeft'
  OBVIOUS
<1>1. ASSUME NEW j \in Jobs, Create(j) PROVE AttemptsLeft'
  <2>1. \A k \in Jobs : Quiet(row[k], row'[k])
    BY <1>1, PutQuiet, QuietUpdates DEF TypeOK, Create
  <2> QED
    BY <1>1, <2>1, QuietStep DEF Create, memory, KeepsRun, KeepsRecovery
<1>2. ASSUME NEW j \in Jobs, Cancel(j) PROVE AttemptsLeft'
  <2>1. \A k \in Jobs : Quiet(row[k], row'[k])
    BY <1>2, PutQuiet, QuietUpdates DEF TypeOK, Cancel
  <2> QED
    BY <1>2, <2>1, QuietStep DEF Cancel, memory, KeepsRun, KeepsRecovery
<1>3. ASSUME NEW j \in Jobs, Publish(j) PROVE AttemptsLeft'
  <2>1. \A k \in Jobs : Quiet(row[k], row'[k])
    BY <1>3, PutQuiet, QuietUpdates DEF TypeOK, Publish
  <2> QED
    BY <1>3, <2>1, QuietStep DEF Publish, memory, KeepsRun, KeepsRecovery
<1>4. ASSUME NEW j \in Jobs, ResyncJob(j) PROVE AttemptsLeft'
  <2>1. \A k \in Jobs : Quiet(row[k], row'[k])
    BY <1>4, PutQuiet, QuietUpdates DEF TypeOK, ResyncJob
  <2> QED
    BY <1>4, <2>1, QuietStep DEF ResyncJob, memory, KeepsRun, KeepsRecovery
<1>5. ASSUME NEW j \in Jobs, RetryJob(j) PROVE AttemptsLeft'
  <2>1. \A k \in Jobs : Quiet(row[k], row'[k])
    BY <1>5, PutQuiet, QuietUpdates DEF TypeOK, RetryJob
  <2> QED
    BY <1>5, <2>1, QuietStep DEF RetryJob, memory, KeepsRun, KeepsRecovery
<1>6. ASSUME NEW j \in Jobs, Renew(j) PROVE AttemptsLeft'
  <2>1. \A k \in Jobs : Quiet(row[k], row'[k])
    BY <1>6, PutQuiet, QuietUpdates DEF TypeOK, Renew
  <2> QED
    BY <1>6, <2>1, QuietStep DEF Renew, memory, KeepsRun, KeepsRecovery
<1>7. ASSUME NEW j \in Jobs, ExpireReviews(j) PROVE AttemptsLeft'
  <2>1. \A k \in Jobs : Quiet(row[k], row'[k])
    BY <1>7, PutQuiet, QuietUpdates DEF TypeOK, ExpireReviews
  <2> QED
    BY <1>7, <2>1, QuietStep DEF ExpireReviews, memory, KeepsRun, KeepsRecovery
<1>8. ASSUME NEW j \in Jobs, WindowLapse(j) PROVE AttemptsLeft'
  <2>1. \A k \in Jobs : Quiet(row[k], row'[k])
    BY <1>8, PutQuiet, QuietUpdates DEF TypeOK, WindowLapse
  <2> QED
    BY <1>8, <2>1, QuietStep DEF WindowLapse, memory, KeepsRun, KeepsRecovery
<1>9. ASSUME NEW j \in Jobs, Tick(j) PROVE AttemptsLeft'
  BY <1>9, ClaimStep DEF Tick, runFrame
<1>10. ASSUME NEW j \in Jobs, TickAdopt(j) PROVE AttemptsLeft'
  BY <1>10, ClaimStep DEF TickAdopt, runFrame
<1>11. ASSUME NEW j \in Jobs, BgValidate(j) PROVE AttemptsLeft'
  BY <1>11 DEF BgValidate, AttemptsLeft, AttemptsBounded, LeaseExpired, Processing, bgFrame
<1>12. ASSUME NEW j \in Jobs, BgPublish(j) PROVE AttemptsLeft'
  BY <1>12 DEF BgPublish, AttemptsLeft, AttemptsBounded, LeaseExpired, Processing, bgFrame
<1>13. ASSUME NEW j \in Jobs, RemoveFolder(j) PROVE AttemptsLeft'
  BY <1>13 DEF RemoveFolder, AttemptsLeft, AttemptsBounded, LeaseExpired, Processing
<1>14. ASSUME NEW j \in Jobs, TellWorker(j) PROVE AttemptsLeft'
  BY <1>14 DEF TellWorker, AttemptsLeft, AttemptsBounded, LeaseExpired, Processing
<1>15. ASSUME NEW j \in Jobs, WorkerFinish(j) PROVE AttemptsLeft'
  BY <1>15 DEF WorkerFinish, AttemptsLeft, AttemptsBounded, LeaseExpired, Processing, workerFrame, memory
<1>16. ASSUME NEW j \in Jobs, BgComplete(j) PROVE AttemptsLeft'
  <2>1. \A k \in Jobs : Quiet(row[k], row'[k])
    <3>1. CASE UNCHANGED row
      BY <3>1, QuietUpdates DEF TypeOK
    <3>2. CASE ~ UNCHANGED row
      BY <1>16, <3>2, PutQuiet, QuietUpdates DEF TypeOK, BgComplete
    <3> QED
      BY <3>1, <3>2
  <2> QED
    BY <1>16, <2>1, QuietStep DEF BgComplete, bgFrame, KeepsRun, KeepsRecovery
<1>17. ASSUME NEW j \in Jobs, BgFailure(j) PROVE AttemptsLeft'
  <2>1. \A k \in Jobs : Quiet(row[k], row'[k])
    <3>1. CASE UNCHANGED row
      BY <3>1, QuietUpdates DEF TypeOK
    <3>2. CASE ~ UNCHANGED row
      BY <1>17, <3>2, PutQuiet, QuietUpdates DEF TypeOK, BgFailure
    <3> QED
      BY <3>1, <3>2
  <2> QED
    BY <1>17, <2>1, QuietStep DEF BgFailure, bgFrame, KeepsRun, KeepsRecovery
<1>18. ASSUME NEW j \in Jobs, BgRemove(j) PROVE AttemptsLeft'
  BY <1>18 DEF BgRemove, AttemptsLeft, AttemptsBounded, LeaseExpired, Processing, bgFrame
<1>19. ASSUME NEW j \in Jobs, LeaseLapse(j) PROVE AttemptsLeft'
  BY <1>19, LapseStep
<1>20. CASE RefreshHealth
  BY <1>20 DEF RefreshHealth, AttemptsLeft, AttemptsBounded, LeaseExpired, Processing
<1>21. CASE TickUnwanted
  <2>1. CASE UNCHANGED <<row, run>>
    BY <1>21, <2>1 DEF TickUnwanted, runFrame, AttemptsLeft, AttemptsBounded, LeaseExpired,
       Processing
  <2>2. CASE \E j \in Jobs : Claim(j)
    BY <1>21, <2>2, ClaimStep DEF TickUnwanted, runFrame
  <2> QED
    BY <1>21, <2>1, <2>2 DEF TickUnwanted
<1>22. CASE RunPrepare
  <2>1. \A k \in Jobs : Quiet(row[k], row'[k])
    BY <1>22, RunRow, PutQuiet, QuietUpdates DEF TypeOK, RunPrepare, Stage
  <2>2. KeepsRun
    BY <1>22, GotoEffect, RaiseEffect DEF TypeOK, KeepsRun, RunPrepare
  <2> QED
    BY <1>22, <2>1, <2>2, QuietStep DEF RunPrepare, runFrame, KeepsRecovery
<1>23. CASE RunSubmit
  <2>1. \A k \in Jobs : Quiet(row[k], row'[k])
    BY <1>23, QuietUpdates DEF TypeOK, RunSubmit
  <2>2. KeepsRun
    BY <1>23, GotoEffect, RaiseEffect DEF TypeOK, KeepsRun, RunSubmit
  <2> QED
    BY <1>23, <2>1, <2>2, QuietStep DEF RunSubmit, runFrame, KeepsRecovery
<1>24. CASE RunPoll
  <2>1. \A k \in Jobs : Quiet(row[k], row'[k])
    <3>1. CASE UNCHANGED row
      BY <3>1, QuietUpdates DEF TypeOK
    <3>2. CASE ~ UNCHANGED row
      BY <1>24, <3>2, RunRow, PutQuiet, QuietUpdates DEF TypeOK, RunPoll, Stage
    <3> QED
      BY <3>1, <3>2
  <2>2. KeepsRun
    BY <1>24, GotoEffect, RaiseEffect, PollEffect DEF TypeOK, KeepsRun, RunPoll
  <2> QED
    BY <1>24, <2>1, <2>2, QuietStep DEF RunPoll, runFrame, KeepsRecovery
<1>25. CASE RunCancel
  <2>1. \A k \in Jobs : Quiet(row[k], row'[k])
    BY <1>25, QuietUpdates DEF TypeOK, RunCancel
  <2>2. KeepsRun
    BY <1>25, GotoEffect, RaiseEffect DEF TypeOK, KeepsRun, RunCancel
  <2> QED
    BY <1>25, <2>1, <2>2, QuietStep DEF RunCancel, runFrame, KeepsRecovery
<1>26. CASE RunValidate
  <2>1. \A k \in Jobs : Quiet(row[k], row'[k])
    BY <1>26, RunRow, PutQuiet, QuietUpdates DEF TypeOK, RunValidate, Stage
  <2>2. KeepsRun
    <3> DEFINE b == <<run.job, work[run.job]>> \in ReviewDue /\ ~run.approved
    <3>1. CASE run' = [run EXCEPT !.pc = "finish", !.review = b]
      <4> HIDE DEF b
      <4> QED
        BY <1>26, <3>1, PollEffect DEF TypeOK, KeepsRun, RunValidate
    <3>2. CASE Raise("retryable")
      BY <1>26, <3>2, RaiseEffect DEF KeepsRun, RunValidate
    <3> QED
      BY <1>26, <3>1, <3>2 DEF RunValidate
  <2> QED
    BY <1>26, <2>1, <2>2, QuietStep DEF RunValidate, runFrame, KeepsRecovery
<1>27. CASE RunFinish
  <2>1. CASE run' = IdleRun
    BY <1>27, <2>1, ReviewStep
  <2>2. CASE run' # IdleRun
    <3>1. \A k \in Jobs : Quiet(row[k], row'[k])
      <4>1. CASE UNCHANGED row
        BY <4>1, QuietUpdates DEF TypeOK
      <4>2. CASE ~ UNCHANGED row
        BY <1>27, <2>2, <4>2, RunRow, PutQuiet, QuietUpdates DEF TypeOK, RunFinish
      <4> QED
        BY <4>1, <4>2
    <3>2. KeepsRun
      BY <1>27, <2>2, GotoEffect, RaiseEffect DEF TypeOK, KeepsRun, RunFinish
    <3> QED
      BY <1>27, <3>1, <3>2, QuietStep DEF RunFinish, runFrame, KeepsRecovery
  <2> QED
    BY <2>1, <2>2
<1>28. CASE RunPublish
  <2>1. \A k \in Jobs : Quiet(row[k], row'[k])
    BY <1>28, QuietUpdates DEF TypeOK, RunPublish
  <2>2. KeepsRun
    BY <1>28, GotoEffect, RaiseEffect DEF TypeOK, KeepsRun, RunPublish
  <2> QED
    BY <1>28, <2>1, <2>2, QuietStep DEF RunPublish, KeepsRecovery
<1>29. CASE RunComplete
  <2>1. \A k \in Jobs : Quiet(row[k], row'[k])
    <3>1. CASE UNCHANGED row
      BY <3>1, QuietUpdates DEF TypeOK
    <3>2. CASE ~ UNCHANGED row
      BY <1>29, <3>2, RunRow, PutQuiet, QuietUpdates DEF TypeOK, RunComplete
    <3> QED
      BY <3>1, <3>2
  <2>2. KeepsRun
    BY <1>29, GotoEffect, RaiseEffect DEF TypeOK, KeepsRun, RunComplete
  <2> QED
    BY <1>29, <2>1, <2>2, QuietStep DEF RunComplete, runFrame, KeepsRecovery
<1>30. CASE RunFailure
  <2>1. \A k \in Jobs : Quiet(row[k], row'[k])
    BY <1>30, QuietUpdates DEF TypeOK, RunFailure
  <2>2. KeepsRun
    BY <1>30, PollEffect DEF TypeOK, KeepsRun, RunFailure
  <2> QED
    BY <1>30, <2>1, <2>2, QuietStep DEF RunFailure, runFrame, KeepsRecovery
<1>31. CASE RunSettle
  BY <1>31, SettleStep
<1>32. CASE RunRemove
  <2>1. \A k \in Jobs : Quiet(row[k], row'[k])
    BY <1>32, QuietUpdates DEF TypeOK, RunRemove
  <2>2. KeepsRun
    BY <1>32, IdleEffect DEF KeepsRun, RunRemove
  <2> QED
    BY <1>32, <2>1, <2>2, QuietStep DEF RunRemove, runFrame, KeepsRecovery
<1>33. CASE RecoverStart
  <2>1. \A k \in Jobs : Quiet(row[k], row'[k])
    BY <1>33, QuietUpdates DEF RecoverStart, TypeOK
  <2> QED
    BY <1>33, <2>1, QuietStep DEF RecoverStart, recoverFrame, KeepsRun, KeepsRecovery
<1>34. CASE RecoverFail
  BY <1>34, RecoverFailStep
<1>35. CASE RecoverRequeue
  BY <1>35, RecoverRequeueStep
<1>36. CASE SweepKeep
  BY <1>36 DEF SweepKeep, sweepFrame, AttemptsLeft, AttemptsBounded, LeaseExpired, Processing
<1>37. CASE SweepList
  BY <1>37 DEF SweepList, sweepFrame, AttemptsLeft, AttemptsBounded, LeaseExpired, Processing
<1>38. CASE SweepRemove
  BY <1>38 DEF SweepRemove, sweepFrame, AttemptsLeft, AttemptsBounded, LeaseExpired, Processing
<1>39. CASE WorkerShutdown
  BY <1>39 DEF WorkerShutdown, workerFrame, memory, AttemptsLeft, AttemptsBounded, LeaseExpired, Processing
<1>40. CASE WorkerExit
  BY <1>40 DEF WorkerExit, workerFrame, memory, AttemptsLeft, AttemptsBounded, LeaseExpired, Processing
<1>41. CASE WorkerCrash
  BY <1>41 DEF WorkerCrash, workerFrame, memory, AttemptsLeft, AttemptsBounded, LeaseExpired, Processing
<1>42. CASE ServerCrash
  BY <1>42, IdleEffect DEF ServerCrash, AttemptsLeft, AttemptsBounded, LeaseExpired, Processing
<1>43. CASE UNCHANGED vars
  BY <1>43 DEF vars, memory, AttemptsLeft, AttemptsBounded, LeaseExpired, Processing
<1> QED
  BY <1>1, <1>2, <1>3, <1>4, <1>5, <1>6, <1>7, <1>8, <1>9, <1>10, <1>11,
     <1>12, <1>13, <1>14, <1>15, <1>16, <1>17, <1>18, <1>19, <1>20, <1>21,
     <1>22, <1>23, <1>24, <1>25, <1>26, <1>27, <1>28, <1>29, <1>30, <1>31,
     <1>32, <1>33, <1>34, <1>35, <1>36, <1>37, <1>38, <1>39, <1>40, <1>41,
     <1>42, <1>43
  DEF Next, UserStep, BgStep, RunStep, RecoveryStep, SweepStep

(* No claim, whoever queued the job, goes past READ_ALOUD_MAX_ATTEMPTS.     *)
(* Stalled leases are allowed: a job that recovery took from a live run is  *)
(* still counted.                                                          *)
THEOREM AttemptsCorrect == Spec => [](AttemptsLeft /\ AttemptsBounded)
<1>1. Init => AttemptsLeft
  BY IdleEffect, MaxAttemptsAssumption DEF Init, NoRow, AttemptsLeft, AttemptsBounded
<1>2. AttemptsLeft => AttemptsBounded
  BY DEF AttemptsLeft
<1> QED
  BY <1>1, <1>2, NextAttempts, TypeCorrect, PTL DEF Spec
=============================================================================
