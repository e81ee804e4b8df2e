-------------------------- MODULE ReadAloudPromise --------------------------
(***************************************************************************)
(* What users are promised: what ends up in the book, and what holds while *)
(* no lease lapses under a live run.                                       *)
(*                                                                         *)
(* No output that needs a review is added without it, a job adds one       *)
(* output at most, and a completed job has added its own; what a review    *)
(* offers is there to be added; and a job whose output was added is not    *)
(* cancelled.  For every number of jobs, attempts, restarts, retries,      *)
(* re-syncs and stalled leases: none of this needs the run or the          *)
(* publication to be the only one on its row.  (The last result alone is   *)
(* about jobs that nobody retries by hand.)                                *)
(*                                                                         *)
(* As long as no lease lapses under a live run, a row belongs to whoever   *)
(* is on it, nothing is added after a cancel, nobody writes in the folder  *)
(* that is being copied, and the processes implement ReadAloudLifecycle.   *)
(***************************************************************************)
EXTENDS ReadAloudProofs

(* The output that j's decisions lead to asks for a review. *)
Due(j) == <<j, row[j].dec>> \in ReviewDue

Begun(r) == r.status \notin {"absent", "awaiting_review"}

Early == {"prepare", "submit", "poll", "cancel", "validate", "finish"}

On(j) == run.pc # "idle" /\ run.job = j

(* From here on the job can be asked for no other output.                   *)
Committed(j) ==
  \/ library[j] # {}
  \/ run.job = j /\ run.pc \in {"publish", "complete"}
  \/ bg[j] \in {"validate", "publish", "complete"}

(* The output in the folder of j is about to be judged or copied. *)
Offered(j) ==
  \/ row[j].status = "awaiting_review"
  \/ bg[j] \in {"validate", "publish"}
  \/ /\ run.job = j
     /\ \/ run.pc \in {"validate", "finish", "publish"}
        \/ run.pc = "poll" /\ worker[j].status = "completed"

(* The run's copy of the row is the row's as far as it still decides.       *)
CopyOK(j) ==
  On(j) =>
    /\ Begun(row[j])
    /\ run.pc \in Early =>
         /\ run.dec = row[j].dec
         /\ Processing(row[j]) => run.approved = row[j].approved
    /\ run.pc \in {"validate", "finish"} => worker[j].status # "running"
    /\ run.pc = "finish" =>
         /\ run.review => Due(j) /\ ~run.approved
         /\ Due(j) /\ ~run.review => run.approved

(* The worker makes the output of the row's own decisions.                  *)
MakingOK(j) ==
  worker[j].status = "running" =>
    worker[j].dec = row[j].dec /\ work[j] \notin Nat /\ Begun(row[j])

OfferedOK(j) == Offered(j) /\ work[j] \in Nat => work[j] = row[j].dec

(* Approval is approval of the very output; recovery takes a publication    *)
(* under way for an approval, which it is if one was needed.                *)
ApprovedOK(j) ==
  /\ row[j].approved /\ Due(j) => row[j].dec \in approvals[j]
  /\ Processing(row[j]) /\ row[j].stage = "publishing" /\ Due(j) => row[j].approved

CommittedOK(j) ==
  /\ Committed(j) => Begun(row[j]) /\ (Due(j) => row[j].approved)
  /\ bg[j] \in {"validate", "publish", "complete"} => row[j].approved

AddedOK(j) ==
  /\ \A v \in library[j] : v = row[j].dec
  /\ \/ run.job = j /\ run.pc = "complete"
     \/ bg[j] = "complete"
     \/ row[j].status = "completed"
     => row[j].dec \in library[j]

JobOK(j) ==
  CopyOK(j) /\ MakingOK(j) /\ OfferedOK(j) /\ ApprovedOK(j) /\ CommittedOK(j) /\ AddedOK(j)

OutputsInv == \A j \in Jobs : JobOK(j)

-----------------------------------------------------------------------------
(* A plain update leaves the decisions and the approval of a row alone (but *)
(* for a publication that recovery remembers), and brings it neither to a   *)
(* run, nor to a publication or a review.                                   *)
Plain(r, s) ==
  /\ s.dec = r.dec
  /\ s.approved = r.approved \/
       (s.approved /\ Processing(r) /\ r.stage = "publishing" /\ ~Processing(s))
  /\ Begun(r) => Begun(s)
  /\ s.status = "awaiting_review" => r.status = "awaiting_review"
  /\ Processing(s) => Processing(r)
  /\ s.status = "completed" => r.status = "completed"
  /\ Processing(s) /\ s.stage = "publishing" => r.stage = "publishing"

LEMMA PlainUpdates ==
  ASSUME NEW r \in Row
  PROVE  /\ Plain(r, r)
         /\ Plain(r, RequestCancellation(r))
         /\ Retryable(r) => Plain(r, Retry(r))
         /\ Plain(r, Heartbeat(r))
         /\ \A stage \in {"working", "validating"} : Plain(r, UpdateProgress(r, stage))
         /\ \A window \in {"none", "open"} : Plain(r, Fail(r, window))
         /\ Plain(r, Requeue(r))
         /\ Processing(r) => Plain(r, [r EXCEPT !.lease = "lapsed"])
         /\ Plain(r, RecoverCancelled(r)) /\ Plain(r, RecoverFailed(r))
         /\ Plain(r, RecoverRequeued(r))
         /\ r.status = "awaiting_review" => Plain(r, ExpireReview(r))
         /\ Plain(r, ClearExpiredWorkWindow(r))
<1> USE DEF Plain, LeaseExpired, Processing, Row, Begun
<1>1. Plain(r, r)
  OBVIOUS
<1>2. Plain(r, RequestCancellation(r))
  BY DEF RequestCancellation
<1>3. Retryable(r) => Plain(r, Retry(r))
  BY DEF Retryable, Retry
<1>4. Plain(r, Heartbeat(r))
  BY DEF Heartbeat
<1>5. \A stage \in {"working", "validating"} : Plain(r, UpdateProgress(r, stage))
  BY DEF UpdateProgress
<1>6. \A window \in {"none", "open"} : Plain(r, Fail(r, window))
  BY DEF Fail
<1>7. Plain(r, Requeue(r))
  BY DEF Requeue
<1>8. Processing(r) => Plain(r, [r EXCEPT !.lease = "lapsed"])
  OBVIOUS
<1>9. Plain(r, RecoverCancelled(r))
  BY DEF RecoverCancelled
<1>10. Plain(r, RecoverFailed(r))
  BY DEF RecoverFailed
<1>11. Plain(r, RecoverRequeued(r))
  BY DEF RecoverRequeued
<1>12. r.status = "awaiting_review" => Plain(r, ExpireReview(r))
  BY DEF ExpireReview
<1>13. Plain(r, ClearExpiredWorkWindow(r))
  BY DEF ClearExpiredWorkWindow
<1> HIDE DEF Plain, LeaseExpired, Processing, Row, Begun
<1> QED
  BY <1>1, <1>2, <1>3, <1>4, <1>5, <1>6, <1>7, <1>8, <1>9, <1>10, <1>11, <1>12, <1>13

LEMMA PutPlain ==
  ASSUME row \in [Jobs -> Row], NEW j \in Jobs, NEW r, Put(j, r), Plain(row[j], r)
  PROVE  \A k \in Jobs : Plain(row[k], row'[k])
<1>1. row'[j] = r /\ \A k \in Jobs : k # j => row'[k] = row[k]
  BY DEF Put
<1>2. \A k \in Jobs : Plain(row[k], row[k])
  BY PlainUpdates
<1> QED
  BY <1>1, <1>2

(* What each part of the state may do in a step that is calm for j.         *)
RunCalm(j) ==
  On(j)' =>
    /\ On(j)
    /\ \/ run' = run
       \/ run'.pc \in {"failure", "settle", "remove"}
       \/ /\ run.pc \in Early /\ run'.pc \in {"submit", "poll", "cancel"}
          /\ run'.dec = run.dec /\ run'.approved = run.approved
          /\ run'.pc = "poll" => worker[j].status # "completed"
WorkerCalm(j) ==
  /\ worker'[j].status = "running" =>
       worker[j].status = "running" /\ worker'[j].dec = worker[j].dec
  /\ worker'[j].status = "completed" => worker[j].status = "completed"
WorkCalm(j) == work'[j] = work[j] \/ work'[j] \notin Nat
BgCalm(j) == bg'[j] = bg[j] \/ bg'[j] \in {"none", "failure", "remove"}
BookCalm(j) == library'[j] = library[j] /\ approvals'[j] = approvals[j]

Calm(j) ==
  /\ Plain(row[j], row'[j])
  /\ RunCalm(j) /\ WorkerCalm(j) /\ WorkCalm(j) /\ BgCalm(j) /\ BookCalm(j)

LEMMA CalmStep ==
  ASSUME TypeOK, TypeOK', NEW j \in Jobs, JobOK(j), Calm(j)
  PROVE  JobOK(j)'
<1> USE DEF JobOK, Calm
<1>0. /\ row[j] \in Row /\ row'[j] \in Row
      /\ row[j].approved \in BOOLEAN /\ row'[j].approved \in BOOLEAN
  BY RowFields DEF TypeOK
<1>1. CopyOK(j)'
  BY <1>0 DEF CopyOK, Plain, RunCalm, WorkerCalm, On, Due, Early
<1>2. MakingOK(j)'
  BY <1>0 DEF MakingOK, Plain, WorkerCalm, WorkCalm
<1>3. OfferedOK(j)'
  BY <1>0 DEF OfferedOK, Offered, Plain, WorkerCalm, WorkCalm, RunCalm, BgCalm, On
<1>4. ApprovedOK(j)'
  BY <1>0 DEF ApprovedOK, Plain, BookCalm, Due
<1>5. CommittedOK(j)'
  BY <1>0 DEF CommittedOK, Committed, Plain, RunCalm, BgCalm, BookCalm, Due, On
<1>6. AddedOK(j)'
  BY <1>0 DEF AddedOK, Plain, RunCalm, BgCalm, BookCalm, On
<1> QED
  BY <1>1, <1>2, <1>3, <1>4, <1>5, <1>6

-----------------------------------------------------------------------------
(* The steps.  First what they have in common. *)

RunIdles == run' = run \/ run' = IdleRun

LEMMA RunIdlesCalm ==
  ASSUME RunIdles
  PROVE  \A j : RunCalm(j)
  BY IdleEffect DEF RunIdles, RunCalm, On

LEMMA RaiseCalm ==
  ASSUME NEW e, Raise(e), run.pc # "idle"
  PROVE  \A j : RunCalm(j)
  BY RaiseEffect DEF RunCalm, On

(* A run that goes on takes its copy of the row along. *)
LEMMA GotoCopy ==
  ASSUME RunTyped(run), NEW pc, Goto(pc)
  PROVE  /\ run'.pc = pc /\ run'.job = run.job /\ run'.dec = run.dec
         /\ run'.approved = run.approved /\ run'.review = run.review
  BY DEF Goto, RunTyped, Run

LEMMA CopyEffect ==
  ASSUME RunTyped(run)
  PROVE  /\ LET r == [run EXCEPT !.pc = "submit", !.resubmits = @ + 1]
            IN /\ r.pc = "submit" /\ r.job = run.job /\ r.dec = run.dec
               /\ r.approved = run.approved
         /\ LET r == [run EXCEPT !.pc = "validate", !.resubmits = 0]
            IN /\ r.pc = "validate" /\ r.job = run.job /\ r.dec = run.dec
               /\ r.approved = run.approved
         /\ \A b : LET r == [run EXCEPT !.pc = "finish", !.review = b]
                   IN /\ r.pc = "finish" /\ r.job = run.job /\ r.dec = run.dec
                      /\ r.approved = run.approved /\ r.review = b
  BY DEF RunTyped, Run

LEMMA RowCalm ==
  ASSUME TypeOK, row' = row
  PROVE  \A j \in Jobs : Plain(row[j], row'[j])
  BY PlainUpdates DEF TypeOK

(* The worker is told to cancel, ends without an output, or loses its       *)
(* records.                                                                 *)
LEMMA CancelRecordEffect ==
  ASSUME NEW rec \in Record
  PROVE  CancelRecord(rec).status = rec.status /\ CancelRecord(rec).dec = rec.dec
  BY DEF CancelRecord, Record

LEMMA WorkerSameCalm ==
  ASSUME worker' = worker PROVE \A j : WorkerCalm(j)
  BY DEF WorkerCalm

LEMMA TellCalm ==
  ASSUME TypeOK, NEW k \in Jobs,
         worker' = [worker EXCEPT ![k] = CancelRecord(@)]
  PROVE  \A j \in Jobs : WorkerCalm(j)
  BY CancelRecordEffect DEF TypeOK, WorkerCalm

LEMMA ForgetCalm ==
  ASSUME worker' = [j \in Jobs |-> NoRecord]
  PROVE  \A j \in Jobs : WorkerCalm(j)
  BY DEF NoRecord, WorkerCalm

(* A folder is removed. *)
LEMMA RemoveCalm ==
  ASSUME TypeOK, NEW k \in Jobs, work' = [work EXCEPT ![k] = NoFolder]
  PROVE  \A j \in Jobs : WorkCalm(j)
  BY DEF TypeOK, WorkCalm, NoFolder

LEMMA UserCalm ==
  ASSUME TypeOK, NEW k \in Jobs,
         Cancel(k) \/ RetryJob(k) \/ Renew(k) \/ LeaseLapse(k) \/ ExpireReviews(k)
         \/ WindowLapse(k)
  PROVE  \A j \in Jobs : Calm(j)
<1>0. row[k] \in Row
  BY DEF TypeOK
<1>1. \A j \in Jobs : Plain(row[j], row'[j])
  <2>1. ASSUME Cancel(k) PROVE \A j \in Jobs : Plain(row[j], row'[j])
    BY <1>0, <2>1, PutPlain, PlainUpdates DEF TypeOK, Cancel
  <2>2. ASSUME RetryJob(k) PROVE \A j \in Jobs : Plain(row[j], row'[j])
    BY <1>0, <2>2, PutPlain, PlainUpdates DEF TypeOK, RetryJob
  <2>3. ASSUME Renew(k) PROVE \A j \in Jobs : Plain(row[j], row'[j])
    BY <1>0, <2>3, PutPlain, PlainUpdates DEF TypeOK, Renew
  <2>4. ASSUME LeaseLapse(k) PROVE \A j \in Jobs : Plain(row[j], row'[j])
    BY <1>0, <2>4, PutPlain, PlainUpdates DEF TypeOK, LeaseLapse
  <2>5. ASSUME ExpireReviews(k) PROVE \A j \in Jobs : Plain(row[j], row'[j])
    BY <1>0, <2>5, PutPlain, PlainUpdates DEF TypeOK, ExpireReviews
  <2>6. ASSUME WindowLapse(k) PROVE \A j \in Jobs : Plain(row[j], row'[j])
    BY <1>0, <2>6, PutPlain, PlainUpdates DEF TypeOK, WindowLapse
  <2> QED
    BY <2>1, <2>2, <2>3, <2>4, <2>5, <2>6
<1>2. UNCHANGED <<run, bg, worker, work, library, approvals>>
  BY DEF Cancel, RetryJob, Renew, LeaseLapse, ExpireReviews, WindowLapse, memory, userVars
<1> QED
  BY <1>1, <1>2, RunIdlesCalm
  DEF RunIdles, Calm, WorkerCalm, WorkCalm, BgCalm, BookCalm

LEMMA FolderCalm ==
  ASSUME TypeOK, NEW k \in Jobs, RemoveFolder(k) \/ TellWorker(k) \/ BgRemove(k)
  PROVE  \A j \in Jobs : Calm(j)
<1>1. row' = row /\ run' = run /\ library' = library /\ approvals' = approvals
  BY DEF RemoveFolder, TellWorker, BgRemove, bgFrame, userVars
<1>2. \A j \in Jobs : WorkCalm(j)
  BY RemoveCalm DEF RemoveFolder, TellWorker, BgRemove, WorkCalm
<1>3. \A j \in Jobs : WorkerCalm(j)
  BY TellCalm, WorkerSameCalm DEF RemoveFolder, TellWorker, BgRemove, bgFrame
<1>4. \A j \in Jobs : BgCalm(j)
  BY DEF TypeOK, RemoveFolder, TellWorker, BgRemove, BgGoto, BgCalm
<1> QED
  BY <1>1, <1>2, <1>3, <1>4, RowCalm, RunIdlesCalm DEF RunIdles, Calm, BookCalm

LEMMA HousekeepingCalm ==
  ASSUME TypeOK, RecoveryStep \/ SweepStep \/ RefreshHealth \/ UNCHANGED vars
  PROVE  \A j \in Jobs : Calm(j)
<1>0. \A j \in Jobs : row[j] \in Row
  BY DEF TypeOK
<1>1. \A j \in Jobs : Plain(row[j], row'[j])
  <2>1. ASSUME RecoverStart PROVE \A j \in Jobs : Plain(row[j], row'[j])
    BY <1>0, <2>1, PlainUpdates DEF RecoverStart
  <2>2. ASSUME RecoverFail PROVE \A j \in Jobs : Plain(row[j], row'[j])
    BY <1>0, <2>2, PlainUpdates DEF RecoverFail
  <2>3. ASSUME RecoverRequeue PROVE \A j \in Jobs : Plain(row[j], row'[j])
    BY <1>0, <2>3, PlainUpdates DEF RecoverRequeue
  <2>4. ASSUME SweepStep \/ RefreshHealth \/ UNCHANGED vars PROVE row' = row
    BY <2>4 DEF SweepStep, SweepKeep, SweepList, SweepRemove, sweepFrame, RefreshHealth,
       vars
  <2> QED
    BY <2>1, <2>2, <2>3, <2>4, RowCalm DEF RecoveryStep
<1>2. UNCHANGED <<run, bg, worker, library, approvals>>
  BY DEF RecoveryStep, RecoverStart, RecoverFail, RecoverRequeue, recoverFrame, SweepStep,
     SweepKeep, SweepList, SweepRemove, sweepFrame, RefreshHealth, vars, memory, userVars
<1>3. \A j \in Jobs : WorkCalm(j)
  <2>1. ASSUME SweepRemove, NEW k \in sweep.todo, work' = [work EXCEPT ![k] = NoFolder]
        PROVE  \A j \in Jobs : WorkCalm(j)
    <3>1. k \in Jobs
      BY DEF TypeOK
    <3> QED
      BY <2>1, <3>1, RemoveCalm
  <2>2. work' = work => \A j \in Jobs : WorkCalm(j)
    BY DEF WorkCalm
  <2> QED
    BY <2>1, <2>2 DEF RecoveryStep, RecoverStart, RecoverFail, RecoverRequeue, recoverFrame,
       SweepStep, SweepKeep, SweepList, SweepRemove, sweepFrame, RefreshHealth, vars
<1> QED
  BY <1>1, <1>2, <1>3, RunIdlesCalm
  DEF RunIdles, Calm, WorkerCalm, BgCalm, BookCalm

LEMMA StopCalm ==
  ASSUME TypeOK, WorkerShutdown \/ WorkerExit \/ WorkerCrash \/ ServerCrash
  PROVE  \A j \in Jobs : Calm(j)
<1>1. row' = row /\ work' = work /\ library' = library /\ approvals' = approvals /\ RunIdles
  BY DEF WorkerShutdown, WorkerExit, WorkerCrash, ServerCrash, workerFrame, memory,
     userVars, RunIdles
<1>2. \A j \in Jobs : BgCalm(j)
  BY DEF WorkerShutdown, WorkerExit, WorkerCrash, ServerCrash, workerFrame, memory, BgCalm
<1>3. \A j \in Jobs : WorkerCalm(j)
  <2>1. WorkerShutdown => \A j \in Jobs : WorkerCalm(j)
    BY CancelRecordEffect DEF TypeOK, WorkerShutdown, WorkerCalm
  <2> QED
    BY <2>1, ForgetCalm, WorkerSameCalm DEF WorkerExit, WorkerCrash, ServerCrash
<1> QED
  BY <1>1, <1>2, <1>3, RowCalm, RunIdlesCalm DEF Calm, WorkCalm, BookCalm

-----------------------------------------------------------------------------
(* The steps of a run. *)

LEMMA RunFrame ==
  ASSUME UNCHANGED runFrame
  PROVE  \A j : BgCalm(j) /\ BookCalm(j)
  BY DEF runFrame, userVars, BgCalm, BookCalm

LEMMA RunPrepareCalm ==
  ASSUME TypeOK, RunPrepare
  PROVE  \A j \in Jobs : Calm(j)
<1>0. run.job \in Jobs /\ row[run.job] \in Row /\ RunTyped(run)
  BY RunRow DEF TypeOK, RunPrepare
<1>1. \A j \in Jobs : Plain(row[j], row'[j])
  BY <1>0, PutPlain, PlainUpdates DEF TypeOK, RunPrepare
<1>2. \A j \in Jobs : RunCalm(j)
  BY <1>0, RaiseCalm, GotoCopy DEF RunPrepare, RunCalm, On, Early
<1>3. \A j \in Jobs : WorkCalm(j)
  BY <1>0 DEF TypeOK, RunPrepare, WorkCalm, NoOutput
<1> QED
  BY <1>1, <1>2, <1>3, RunFrame, WorkerSameCalm DEF RunPrepare, Calm

(* A start is the one step in which the worker comes to make an output.     *)
LEMMA RunSubmitStep ==
  ASSUME TypeOK, TypeOK', RunSubmit, OutputsInv
  PROVE  OutputsInv'
<1>0. run.job \in Jobs /\ row[run.job] \in Row /\ RunTyped(run)
  BY RunRow DEF TypeOK, RunSubmit
<1>1. row' = row /\ UNCHANGED runFrame
  BY DEF RunSubmit
<1>2. CASE worker' = worker /\ work' = work
  <2>1. \A j \in Jobs : RunCalm(j)
    <3>1. CASE worker[run.job].status = "running" /\ Goto("poll")
      BY <1>0, <3>1, GotoCopy DEF RunSubmit, RunCalm, On, Early
    <3>2. CASE \E e : Raise(e)
      BY <3>2, RaiseCalm DEF RunSubmit
    <3>3. CASE /\ WorkerActive = NoJob
               /\ worker' = [worker EXCEPT ![run.job] =
                        [status |-> "running", cancel |-> FALSE, dec |-> run.dec]]
               /\ Goto("poll")
      <4>1. worker[run.job].status = "running"
        BY <1>0, <1>2, <3>3 DEF TypeOK
      <4> QED
        BY <3>1, <3>3, <4>1
    <3> QED
      BY <3>1, <3>2, <3>3 DEF RunSubmit
  <2> QED
    BY <1>1, <1>2, <2>1, RowCalm, RunFrame, WorkerSameCalm, CalmStep
    DEF Calm, WorkCalm, OutputsInv
<1>3. CASE /\ worker' = [worker EXCEPT ![run.job] =
                        [status |-> "running", cancel |-> FALSE, dec |-> run.dec]]
           /\ work' = [work EXCEPT ![run.job] = NoOutput]
           /\ Goto("poll")
  <2>1. run'.pc = "poll" /\ run'.job = run.job /\ run'.dec = run.dec
        /\ run'.approved = run.approved
    BY <1>0, <1>3, GotoCopy
  <2>2. ASSUME NEW j \in Jobs, j # run.job PROVE JobOK(j)'
    <3>1. RunCalm(j) /\ WorkerCalm(j) /\ WorkCalm(j)
      BY <1>0, <1>3, <2>1, <2>2 DEF TypeOK, RunCalm, WorkerCalm, WorkCalm, On
    <3> QED
      BY <1>1, <3>1, RowCalm, RunFrame, CalmStep DEF Calm, OutputsInv
  <2>3. ASSUME NEW j \in Jobs, j = run.job PROVE JobOK(j)'
    <3>1. /\ worker'[j].status = "running" /\ worker'[j].dec = run.dec
          /\ work'[j] \notin Nat
      BY <1>0, <1>3, <2>3 DEF TypeOK, NoOutput
    <3>2. JobOK(j) /\ On(j) /\ run.pc = "submit"
      BY <2>3 DEF OutputsInv, On, RunSubmit
    <3>3. UNCHANGED <<bg, library, approvals>>
      BY <1>1 DEF runFrame, userVars
    <3>4. CopyOK(j)' /\ MakingOK(j)'
      BY <1>1, <2>1, <2>3, <3>1, <3>2 DEF JobOK, CopyOK, MakingOK, On, Early, Due
    <3>5. OfferedOK(j)'
      BY <3>1 DEF OfferedOK
    <3>6. ApprovedOK(j)' /\ CommittedOK(j)' /\ AddedOK(j)'
      BY <1>1, <2>1, <2>3, <3>2, <3>3
      DEF JobOK, ApprovedOK, CommittedOK, Committed, AddedOK, Due
    <3> QED
      BY <3>4, <3>5, <3>6 DEF JobOK
  <2> QED
    BY <2>2, <2>3 DEF OutputsInv
<1> QED
  BY <1>2, <1>3 DEF RunSubmit

LEMMA RunPollStep ==
  ASSUME TypeOK, TypeOK', RunPoll, OutputsInv
  PROVE  OutputsInv'
<1>0. run.job \in Jobs /\ row[run.job] \in Row /\ RunTyped(run)
  BY RunRow DEF TypeOK, RunPoll
<1>1. UNCHANGED runFrame /\ work' = work
  BY DEF RunPoll
<1>2. \A j \in Jobs : Plain(row[j], row'[j])
  BY <1>0, RowCalm, PutPlain, PlainUpdates DEF TypeOK, RunPoll
<1>3. \A j \in Jobs : WorkerCalm(j)
  BY <1>0, TellCalm, WorkerSameCalm DEF RunPoll
<1>4. CASE \A j \in Jobs : RunCalm(j)
  BY <1>1, <1>2, <1>3, <1>4, RunFrame, CalmStep DEF Calm, WorkCalm, OutputsInv
<1>5. CASE /\ worker[run.job].status = "completed" /\ row' = row /\ worker' = worker
           /\ run' = [run EXCEPT !.pc = "validate", !.resubmits = 0]
  <2>1. run'.pc = "validate" /\ run'.job = run.job /\ run'.dec = run.dec
        /\ run'.approved = run.approved
    BY <1>0, <1>5, CopyEffect
  <2>2. ASSUME NEW j \in Jobs, j # run.job PROVE JobOK(j)'
    <3>1. RunCalm(j)
      BY <2>1, <2>2 DEF RunCalm, On
    <3> QED
      BY <1>1, <1>2, <1>3, <3>1, RunFrame, CalmStep DEF Calm, WorkCalm, OutputsInv
  <2>3. ASSUME NEW j \in Jobs, j = run.job PROVE JobOK(j)'
    <3>1. JobOK(j) /\ On(j) /\ run.pc = "poll"
      BY <2>3 DEF OutputsInv, On, RunPoll
    <3>2. UNCHANGED <<bg, library, approvals>>
      BY <1>1 DEF runFrame, userVars
    <3> QED
      BY <1>1, <1>5, <2>1, <2>3, <3>1, <3>2
      DEF JobOK, CopyOK, MakingOK, OfferedOK, Offered, ApprovedOK, CommittedOK, Committed,
          AddedOK, On, Early, Due
  <2> QED
    BY <2>2, <2>3 DEF OutputsInv
<1>6. CASE Goto("cancel") \/ \E e : Raise(e)
  BY <1>0, <1>4, <1>6, GotoCopy, RaiseCalm DEF RunPoll, RunCalm, On, Early
<1>7. CASE run' = [run EXCEPT !.pc = "submit", !.resubmits = @ + 1]
  BY <1>0, <1>4, <1>7, CopyEffect DEF RunPoll, RunCalm, On, Early
<1> QED
  BY <1>5, <1>6, <1>7 DEF RunPoll

LEMMA RunEndsCalm ==
  ASSUME TypeOK, RunCancel \/ RunFailure \/ RunSettle \/ RunRemove
  PROVE  \A j \in Jobs : Calm(j)
<1>0. run.pc # "idle" /\ run.job \in Jobs /\ row[run.job] \in Row /\ RunTyped(run)
  BY RunRow DEF TypeOK, RunCancel, RunFailure, RunSettle, RunRemove
<1>1. \A j \in Jobs : Plain(row[j], row'[j])
  BY <1>0, RowCalm, PutPlain, PlainUpdates
  DEF TypeOK, RunCancel, RunFailure, RunSettle, RunRemove
<1>2. \A j \in Jobs : RunCalm(j)
  <2>1. RunCancel => \A j \in Jobs : RunCalm(j)
    BY <1>0, RaiseCalm DEF RunCancel
  <2>2. RunFailure => \A j \in Jobs : RunCalm(j)
    <3> DEFINE r(b) == [run EXCEPT !.pc = "settle", !.cancelled = b]
    <3>1. RunFailure => \E b : run' = r(b)
      BY DEF RunFailure
    <3>2. \A b : r(b).pc = "settle" /\ r(b).job = run.job
      BY <1>0, PollEffect
    <3> HIDE DEF r
    <3> QED
      BY <1>0, <3>1, <3>2 DEF RunCalm, On
  <2>3. RunSettle => \A j \in Jobs : RunCalm(j)
    BY <1>0, RunIdlesCalm, GotoCopy DEF RunSettle, RunIdles, RunCalm, On
  <2>4. RunRemove => \A j \in Jobs : RunCalm(j)
    BY RunIdlesCalm DEF RunRemove, RunIdles
  <2> QED
    BY <2>1, <2>2, <2>3, <2>4
<1>3. \A j \in Jobs : WorkCalm(j)
  BY <1>0, RemoveCalm DEF RunCancel, RunFailure, RunSettle, RunRemove, WorkCalm
<1> QED
  BY <1>1, <1>2, <1>3, RunFrame, WorkerSameCalm
  DEF RunCancel, RunFailure, RunSettle, RunRemove, Calm

(* The report of the output that is there decides on its review.            *)
LEMMA RunValidateStep ==
  ASSUME TypeOK, TypeOK', RunValidate, OutputsInv
  PROVE  OutputsInv'
<1>0. run.job \in Jobs /\ row[run.job] \in Row /\ RunTyped(run)
  BY RunRow DEF TypeOK, RunValidate
<1>1. UNCHANGED runFrame /\ work' = work /\ worker' = worker
  BY DEF RunValidate
<1>2. \A j \in Jobs : Plain(row[j], row'[j])
  BY <1>0, PutPlain, PlainUpdates DEF TypeOK, RunValidate
<1>3. ASSUME NEW j \in Jobs, RunCalm(j) PROVE JobOK(j)'
  BY <1>1, <1>2, <1>3, RunFrame, WorkerSameCalm, CalmStep DEF Calm, WorkCalm, OutputsInv
<1>4. CASE Raise("retryable")
  BY <1>3, <1>4, RaiseCalm DEF RunValidate, OutputsInv
<1>5. CASE ~Raise("retryable")
  <2> DEFINE due == <<run.job, work[run.job]>> \in ReviewDue /\ ~run.approved
  <2>1. work[run.job] \in Nat /\ run' = [run EXCEPT !.pc = "finish", !.review = due]
    BY <1>5 DEF RunValidate
  <2>2. /\ run'.pc = "finish" /\ run'.job = run.job /\ run'.dec = run.dec
        /\ run'.approved = run.approved /\ run'.review = due
    <3> HIDE DEF due
    <3> QED
      BY <1>0, <2>1, CopyEffect
  <2>3. ASSUME NEW j \in Jobs, j # run.job PROVE JobOK(j)'
    <3>1. RunCalm(j)
      BY <2>2, <2>3 DEF RunCalm, On
    <3> QED
      BY <1>3, <3>1
  <2>4. ASSUME NEW j \in Jobs, j = run.job PROVE JobOK(j)'
    <3>1. JobOK(j) /\ On(j) /\ run.pc = "validate"
      BY <2>4 DEF OutputsInv, On, RunValidate
    <3>2. UNCHANGED <<bg, library, approvals>>
      BY <1>1 DEF runFrame, userVars
    <3>3. Plain(row[j], row'[j]) /\ row[j].approved \in BOOLEAN /\ row'[j].approved \in BOOLEAN
      BY <1>2, RowFields DEF TypeOK
    <3>4. work[j] = row[j].dec
      BY <2>1, <2>4, <3>1 DEF JobOK, OfferedOK, Offered, On
    <3>5. CopyOK(j)'
      BY <1>1, <2>2, <2>4, <3>1, <3>3, <3>4 DEF JobOK, CopyOK, On, Early, Due, Plain
    <3>6. MakingOK(j)' /\ OfferedOK(j)'
      BY <1>1, <3>1, <3>2, <3>3, <3>4 DEF JobOK, MakingOK, OfferedOK, Plain
    <3>7. ApprovedOK(j)'
      BY <3>1, <3>2, <3>3 DEF JobOK, ApprovedOK, Plain, Due
    <3>8. CommittedOK(j)' /\ AddedOK(j)'
      BY <2>2, <3>1, <3>2, <3>3 DEF JobOK, CommittedOK, Committed, AddedOK, Plain, Due
    <3> QED
      BY <3>5, <3>6, <3>7, <3>8 DEF JobOK
  <2> QED
    BY <2>3, <2>4 DEF OutputsInv
<1> QED
  BY <1>4, <1>5

LEMMA RunFinishStep ==
  ASSUME TypeOK, TypeOK', RunFinish, OutputsInv
  PROVE  OutputsInv'
<1>0. run.job \in Jobs /\ row[run.job] \in Row /\ RunTyped(run)
  BY RunRow DEF TypeOK, RunFinish
<1>1. UNCHANGED runFrame /\ work' = work /\ worker' = worker
  BY DEF RunFinish
<1>2. UNCHANGED <<bg, library, approvals>>
  BY <1>1 DEF runFrame, userVars
<1>3. ASSUME NEW j \in Jobs, RunCalm(j), row'[j] = row[j] PROVE JobOK(j)'
  <2>1. Plain(row[j], row'[j])
    BY <1>3, PlainUpdates DEF TypeOK
  <2> QED
    BY <1>1, <1>3, <2>1, RunFrame, WorkerSameCalm, CalmStep DEF Calm, WorkCalm, OutputsInv
<1>4. CASE Raise("cancelled") /\ row' = row
  BY <1>3, <1>4, RaiseCalm DEF RunFinish, OutputsInv
<1>5. CASE /\ Publishable(row[run.job]) /\ run.review
           /\ Put(run.job, MarkAwaitingReview(row[run.job])) /\ run' = IdleRun
  <2>1. \A j : RunCalm(j)
    BY <1>5, RunIdlesCalm DEF RunIdles
  <2>2. ASSUME NEW j \in Jobs, j # run.job PROVE JobOK(j)'
    <3>1. row'[j] = row[j]
      BY <1>5, <2>2 DEF Put, TypeOK
    <3> QED
      BY <1>3, <2>1, <3>1
  <2>3. ASSUME NEW j \in Jobs, j = run.job PROVE JobOK(j)'
    <3>1. JobOK(j) /\ On(j) /\ run.pc = "finish" /\ Processing(row[j]) /\ run.review
      BY <1>5, <2>3 DEF OutputsInv, On, RunFinish, Publishable
    <3>2. /\ row'[j].status = "awaiting_review" /\ row'[j].dec = row[j].dec
          /\ ~row'[j].approved
      BY <1>0, <1>5, <2>3 DEF Put, TypeOK, MarkAwaitingReview, Row
    <3>3. run'.pc = "idle"
      BY <1>5, IdleEffect
    <3>4. Due(j) /\ ~row[j].approved
      BY <2>3, <3>1 DEF JobOK, CopyOK, Early
    <3>5. ~Committed(j)
      BY <3>1, <3>4 DEF JobOK, CommittedOK
    <3>6. CopyOK(j)' /\ MakingOK(j)' /\ OfferedOK(j)'
      BY <1>1, <3>1, <3>2, <3>3 DEF JobOK, CopyOK, MakingOK, OfferedOK, Offered, On
    <3>7. ApprovedOK(j)'
      BY <3>2 DEF ApprovedOK, Processing
    <3>8. CommittedOK(j)' /\ AddedOK(j)'
      BY <1>2, <3>2, <3>3, <3>5 DEF CommittedOK, Committed, AddedOK
    <3> QED
      BY <3>6, <3>7, <3>8 DEF JobOK
  <2> QED
    BY <2>2, <2>3 DEF OutputsInv
<1>6. CASE /\ Publishable(row[run.job]) /\ ~run.review
           /\ Put(run.job, BeginPublishing(row[run.job])) /\ Goto("publish")
  <2>1. run'.pc = "publish" /\ run'.job = run.job
    BY <1>0, <1>6, GotoCopy
  <2>2. ASSUME NEW j \in Jobs, j # run.job PROVE JobOK(j)'
    <3>1. row'[j] = row[j] /\ RunCalm(j)
      BY <1>6, <2>1, <2>2 DEF Put, TypeOK, RunCalm, On
    <3> QED
      BY <1>3, <3>1
  <2>3. ASSUME NEW j \in Jobs, j = run.job PROVE JobOK(j)'
    <3>1. JobOK(j) /\ On(j) /\ run.pc = "finish" /\ Processing(row[j]) /\ ~run.review
      BY <1>6, <2>3 DEF OutputsInv, On, RunFinish, Publishable
    <3>2. /\ row'[j].status = "processing" /\ row'[j].dec = row[j].dec
          /\ row'[j].approved = row[j].approved
      BY <1>0, <1>6, <2>3 DEF Put, TypeOK, BeginPublishing, Row, Publishable, Processing
    <3>3. Due(j) => row[j].approved
      BY <2>3, <3>1 DEF JobOK, CopyOK, Early
    <3>4. CopyOK(j)' /\ MakingOK(j)' /\ OfferedOK(j)'
      BY <1>1, <1>2, <2>1, <3>1, <3>2
      DEF JobOK, CopyOK, MakingOK, OfferedOK, Offered, On, Early, Begun
    <3>5. ApprovedOK(j)'
      BY <1>2, <3>1, <3>2, <3>3 DEF JobOK, ApprovedOK, Due
    <3>6. CommittedOK(j)' /\ AddedOK(j)'
      BY <1>2, <2>1, <3>1, <3>2, <3>3
      DEF JobOK, CommittedOK, Committed, AddedOK, Due, Begun
    <3> QED
      BY <3>4, <3>5, <3>6 DEF JobOK
  <2> QED
    BY <2>2, <2>3 DEF OutputsInv
<1> QED
  BY <1>4, <1>5, <1>6 DEF RunFinish

(* What is copied is the output that was judged. *)
LEMMA RunPublishStep ==
  ASSUME TypeOK, TypeOK', RunPublish, OutputsInv
  PROVE  OutputsInv'
<1>0. run.job \in Jobs /\ RunTyped(run)
  BY RunRow DEF TypeOK, RunPublish
<1>1. UNCHANGED <<row, bg, worker, work, approvals>>
  BY DEF RunPublish, userVars
<1>2. ASSUME NEW j \in Jobs, RunCalm(j), library'[j] = library[j] PROVE JobOK(j)'
  <2>1. Plain(row[j], row'[j])
    BY <1>1, RowCalm
  <2> QED
    BY <1>1, <1>2, <2>1, WorkerSameCalm, CalmStep DEF Calm, WorkCalm, BgCalm, BookCalm, OutputsInv
<1>3. CASE Raise("retryable") /\ library' = library
  BY <1>2, <1>3, RaiseCalm DEF RunPublish, OutputsInv
<1>4. CASE AddToLibrary(run.job) /\ Goto("complete")
  <2>1. run'.pc = "complete" /\ run'.job = run.job
    BY <1>0, <1>4, GotoCopy
  <2>2. ASSUME NEW j \in Jobs, j # run.job PROVE JobOK(j)'
    <3>1. RunCalm(j) /\ library'[j] = library[j]
      BY <1>4, <2>1, <2>2 DEF RunCalm, On, AddToLibrary, TypeOK
    <3> QED
      BY <1>2, <3>1
  <2>3. ASSUME NEW j \in Jobs, j = run.job PROVE JobOK(j)'
    <3>1. JobOK(j) /\ On(j) /\ run.pc = "publish"
      BY <2>3 DEF OutputsInv, On, RunPublish
    <3>2. work[j] = row[j].dec /\ library'[j] = library[j] \cup {work[j]}
      BY <1>4, <2>3, <3>1 DEF JobOK, OfferedOK, Offered, AddToLibrary, TypeOK
    <3> QED
      BY <1>1, <2>1, <3>1, <3>2
      DEF JobOK, CopyOK, MakingOK, OfferedOK, Offered, ApprovedOK, CommittedOK, Committed,
          AddedOK, On, Early, Due
  <2> QED
    BY <2>2, <2>3 DEF OutputsInv
<1> QED
  BY <1>3, <1>4 DEF RunPublish

LEMMA CompleteEffect ==
  ASSUME NEW r \in Row
  PROVE  /\ Complete(r).dec = r.dec /\ Complete(r).approved = r.approved
         /\ Complete(r).stage = "publishing" => r.stage = "publishing"
         /\ Begun(r) => Begun(Complete(r))
         /\ ~Processing(Complete(r))
         /\ Complete(r).status = "awaiting_review" => r.status = "awaiting_review"
  BY DEF Complete, Row, Processing, Begun

LEMMA RunCompleteStep ==
  ASSUME TypeOK, TypeOK', RunComplete, OutputsInv
  PROVE  OutputsInv'
<1>0. run.job \in Jobs /\ row[run.job] \in Row /\ RunTyped(run)
  BY RunRow DEF TypeOK, RunComplete
<1>1. UNCHANGED runFrame /\ work' = work /\ worker' = worker
  BY DEF RunComplete
<1>2. UNCHANGED <<bg, library, approvals>>
  BY <1>1 DEF runFrame, userVars
<1>3. ASSUME NEW j \in Jobs, RunCalm(j), row'[j] = row[j] PROVE JobOK(j)'
  <2>1. Plain(row[j], row'[j])
    BY <1>3, PlainUpdates DEF TypeOK
  <2> QED
    BY <1>1, <1>3, <2>1, RunFrame, WorkerSameCalm, CalmStep DEF Calm, WorkCalm, OutputsInv
<1>4. CASE Raise("retryable") /\ row' = row
  BY <1>3, <1>4, RaiseCalm DEF RunComplete, OutputsInv
<1>5. CASE Put(run.job, Complete(row[run.job])) /\ Goto("remove")
  <2>1. run'.pc = "remove" /\ run'.job = run.job
    BY <1>0, <1>5, GotoCopy
  <2>2. ASSUME NEW j \in Jobs, j # run.job PROVE JobOK(j)'
    <3>1. row'[j] = row[j] /\ RunCalm(j)
      BY <1>5, <2>1, <2>2 DEF Put, TypeOK, RunCalm, On
    <3> QED
      BY <1>3, <3>1
  <2>3. ASSUME NEW j \in Jobs, j = run.job PROVE JobOK(j)'
    <3>1. JobOK(j) /\ On(j) /\ run.pc = "complete"
      BY <2>3 DEF OutputsInv, On, RunComplete
    <3>2. row'[j] = Complete(row[j]) /\ row[j] \in Row
      BY <1>0, <1>5, <2>3 DEF Put, TypeOK
    <3>3. /\ row'[j].dec = row[j].dec /\ row'[j].approved = row[j].approved
          /\ row'[j].stage = "publishing" => row[j].stage = "publishing"
          /\ Begun(row[j]) => Begun(row'[j])
          /\ ~Processing(row'[j])
          /\ row'[j].status = "awaiting_review" => row[j].status = "awaiting_review"
      BY <3>2, CompleteEffect
    <3>4. row[j].dec \in library[j]
      BY <2>3, <3>1 DEF JobOK, AddedOK
    <3> QED
      BY <1>1, <1>2, <2>1, <3>1, <3>3, <3>4
      DEF JobOK, CopyOK, MakingOK, OfferedOK, Offered, ApprovedOK, CommittedOK, Committed,
          AddedOK, On, Early, Due
  <2> QED
    BY <2>2, <2>3 DEF OutputsInv
<1> QED
  BY <1>4, <1>5 DEF RunComplete

-----------------------------------------------------------------------------
(* The steps of a publication that a user started. *)

LEMMA BgStepKeeps ==
  ASSUME TypeOK, TypeOK', NEW k \in Jobs,
         BgValidate(k) \/ BgPublish(k) \/ BgComplete(k) \/ BgFailure(k), OutputsInv
  PROVE  OutputsInv'
<1>0. row[k] \in Row /\ JobOK(k)
  BY DEF TypeOK, OutputsInv
<1>1. UNCHANGED <<run, worker, work, approvals>>
  BY DEF BgValidate, BgPublish, BgComplete, BgFailure, bgFrame, userVars
<1>2. ASSUME NEW j \in Jobs, Plain(row[j], row'[j]), BgCalm(j), library'[j] = library[j]
      PROVE  JobOK(j)'
  BY <1>1, <1>2, RunIdlesCalm, WorkerSameCalm, CalmStep
  DEF RunIdles, Calm, WorkCalm, BookCalm, OutputsInv
<1>3. ASSUME NEW j \in Jobs, j # k PROVE JobOK(j)'
  <2>1. row'[j] = row[j] /\ bg'[j] = bg[j] /\ library'[j] = library[j]
    BY <1>3 DEF BgValidate, BgPublish, BgComplete, BgFailure, BgGoto, Put, AddToLibrary, TypeOK
  <2>2. Plain(row[j], row'[j])
    BY <2>1, PlainUpdates DEF TypeOK
  <2> QED
    BY <1>2, <2>1, <2>2 DEF BgCalm
<1>4. JobOK(k)'
  <2>1. CASE BgFailure(k)
    <3>1. Plain(row[k], row'[k])
      BY <1>0, <2>1, PutPlain, PlainUpdates DEF BgFailure, TypeOK
    <3>2. BgCalm(k) /\ library' = library
      BY <2>1 DEF BgFailure, BgGoto, TypeOK, BgCalm
    <3> QED
      BY <1>2, <3>1, <3>2
  <2>2. CASE BgGoto(k, "failure") /\ row' = row /\ library' = library
    <3>1. BgCalm(k)
      BY <2>2 DEF BgGoto, TypeOK, BgCalm
    <3> QED
      BY <1>0, <1>2, <2>2, <3>1, PlainUpdates
  <2>3. CASE /\ bg[k] = "validate" /\ BgGoto(k, "publish") /\ row' = row
             /\ library' = library
    <3>1. bg'[k] = "publish"
      BY <2>3 DEF BgGoto, TypeOK
    <3> QED
      BY <1>0, <1>1, <2>3, <3>1
      DEF JobOK, CopyOK, MakingOK, OfferedOK, Offered, ApprovedOK, CommittedOK, Committed,
          AddedOK, On, Early, Due
  <2>4. CASE /\ bg[k] = "publish" /\ BgGoto(k, "complete") /\ row' = row
             /\ AddToLibrary(k)
    <3>1. /\ bg'[k] = "complete" /\ work[k] = row[k].dec
          /\ library'[k] = library[k] \cup {work[k]}
      BY <1>0, <2>4 DEF BgGoto, TypeOK, AddToLibrary, JobOK, OfferedOK, Offered
    <3> QED
      BY <1>0, <1>1, <2>4, <3>1
      DEF JobOK, CopyOK, MakingOK, OfferedOK, Offered, ApprovedOK, CommittedOK, Committed,
          AddedOK, On, Early, Due
  <2>5. CASE /\ bg[k] = "complete" /\ BgGoto(k, "remove") /\ library' = library
             /\ Put(k, Complete(row[k]))
    <3>1. /\ bg'[k] = "remove" /\ row'[k] = Complete(row[k])
          /\ row[k].dec \in library[k]
      BY <1>0, <2>5 DEF BgGoto, Put, TypeOK, JobOK, AddedOK
    <3>2. /\ row'[k].dec = row[k].dec /\ row'[k].approved = row[k].approved
          /\ row'[k].stage = "publishing" => row[k].stage = "publishing"
          /\ Begun(row[k]) => Begun(row'[k])
          /\ ~Processing(row'[k])
          /\ row'[k].status = "awaiting_review" => row[k].status = "awaiting_review"
      BY <1>0, <3>1, CompleteEffect
    <3> QED
      BY <1>0, <1>1, <2>5, <3>1, <3>2
      DEF JobOK, CopyOK, MakingOK, OfferedOK, Offered, ApprovedOK, CommittedOK, Committed,
          AddedOK, On, Early, Due
  <2> QED
    BY <2>1, <2>2, <2>3, <2>4, <2>5 DEF BgValidate, BgPublish, BgComplete
<1> QED
  BY <1>3, <1>4 DEF OutputsInv

-----------------------------------------------------------------------------
(* The steps that bring a row to a run, a publication, or new decisions.    *)

LEMMA ClaimCopies ==
  ASSUME TypeOK, NEW k \in Jobs, Claim(k)
  PROVE  /\ run'.job = k /\ run'.pc = "prepare" /\ run'.dec = row[k].dec
         /\ run'.approved = row[k].approved
         /\ row'[k].dec = row[k].dec /\ row'[k].approved = row[k].approved
         /\ row'[k].status = "processing" /\ row'[k].stage = "working"
         /\ \A j \in Jobs : j # k => row'[j] = row[j]
<1>1. run'.job = k /\ run'.pc = "prepare" /\ run'.dec = row[k].dec
      /\ run'.approved = row[k].approved
  BY DEF Claim, IdleRun
<1>2. row'[k] = ClaimQueued(row[k]) /\ \A j \in Jobs : j # k => row'[j] = row[j]
  BY DEF Claim, Put, TypeOK
<1>3. LET r == ClaimQueued(row[k])
      IN /\ r.dec = row[k].dec /\ r.approved = row[k].approved
         /\ r.status = "processing" /\ r.stage = "working"
  BY DEF ClaimQueued, TypeOK, Row
<1> QED
  BY <1>1, <1>2, <1>3

LEMMA ClaimKeeps ==
  ASSUME TypeOK, TypeOK', NEW k \in Jobs, Claim(k), UNCHANGED <<runFrame, work>>,
         \A j \in Jobs : WorkerCalm(j), OutputsInv
  PROVE  OutputsInv'
<1>1. UNCHANGED <<bg, library, approvals>>
  BY DEF runFrame, userVars
<1>2. ASSUME NEW j \in Jobs, j # k PROVE JobOK(j)'
  <2>1. RunCalm(j) /\ row'[j] = row[j]
    BY <1>2, ClaimCopies DEF RunCalm, On
  <2>2. Plain(row[j], row'[j])
    BY <2>1, PlainUpdates DEF TypeOK
  <2> QED
    BY <2>1, <2>2, RunFrame, CalmStep DEF Calm, WorkCalm, OutputsInv
<1>3. JobOK(k)'
  <2>1. JobOK(k) /\ row[k].status = "queued" /\ run.pc = "idle"
    BY DEF OutputsInv, Claim, Claimable
  <2> QED
    BY <1>1, <2>1, ClaimCopies
    DEF JobOK, CopyOK, MakingOK, OfferedOK, Offered, ApprovedOK, CommittedOK, Committed,
        AddedOK, On, Early, Due, Begun, WorkerCalm
<1> QED
  BY <1>2, <1>3 DEF OutputsInv

LEMMA TickKeeps ==
  ASSUME TypeOK, TypeOK', TickUnwanted \/ \E k \in Jobs : Tick(k) \/ TickAdopt(k),
         OutputsInv
  PROVE  OutputsInv'
<1>1. CASE \E k \in Jobs : Tick(k) \/ TickAdopt(k)
  BY <1>1, ClaimKeeps, WorkerSameCalm DEF Tick, TickAdopt
<1>2. CASE TickUnwanted /\ worker' = worker /\ \E k \in Jobs : Claim(k)
  BY <1>2, ClaimKeeps, WorkerSameCalm DEF TickUnwanted
<1>3. CASE TickUnwanted /\ row' = row /\ run' = run
  <2>1. \A j \in Jobs : WorkerCalm(j)
    BY <1>3, TellCalm, WorkerSameCalm DEF TickUnwanted
  <2>2. UNCHANGED <<runFrame, work>>
    BY <1>3 DEF TickUnwanted
  <2>3. \A j \in Jobs : Calm(j)
    BY <1>3, <2>1, <2>2, RunFrame, RowCalm, RunIdlesCalm DEF Calm, WorkCalm, RunIdles
  <2> QED
    BY <2>3, CalmStep DEF OutputsInv
<1> QED
  BY <1>1, <1>2, <1>3 DEF TickUnwanted

LEMMA CreateKeeps ==
  ASSUME TypeOK, TypeOK', NEW k \in Jobs, Create(k) \/ ResyncJob(k) \/ Publish(k), OutputsInv
  PROVE  OutputsInv'
<1>1. UNCHANGED <<run, worker, work, library>>
  BY DEF Create, ResyncJob, Publish, memory, userVars
<1>2. ASSUME NEW j \in Jobs, j # k PROVE JobOK(j)'
  <2>1. row'[j] = row[j] /\ bg'[j] = bg[j] /\ approvals'[j] = approvals[j]
    BY <1>2 DEF Create, ResyncJob, Publish, memory, userVars, Put, TypeOK
  <2>2. Plain(row[j], row'[j])
    BY <2>1, PlainUpdates DEF TypeOK
  <2> QED
    BY <1>1, <2>1, <2>2, RunIdlesCalm, WorkerSameCalm, CalmStep
    DEF RunIdles, Calm, WorkCalm, BgCalm, BookCalm, OutputsInv
<1>3. JobOK(k)'
  <2>1. JobOK(k) /\ row[k] \in Row /\ row[k].approved \in BOOLEAN
    BY RowFields DEF OutputsInv, TypeOK
  <2>2. ~Begun(row[k])
    BY DEF Create, ResyncJob, Publish, ReviewOpen, Begun
  <2>3. ~On(k) /\ ~Committed(k) /\ worker[k].status # "running"
    BY <2>1, <2>2 DEF JobOK, CopyOK, CommittedOK, MakingOK
  <2>4. CASE Create(k)
    <3>1. /\ row'[k].status = "queued" /\ ~row'[k].approved
          /\ bg' = bg /\ approvals' = approvals
      BY <2>4 DEF Create, Put, TypeOK, NewRow, NoRow, memory, userVars
    <3> QED
      BY <1>1, <2>3, <3>1
      DEF JobOK, CopyOK, MakingOK, OfferedOK, Offered, ApprovedOK, CommittedOK, Committed,
          AddedOK, On, Early, Due, Begun, Processing
  <2>5. CASE ResyncJob(k)
    <3>1. /\ row'[k].status = "queued" /\ ~row'[k].approved
          /\ bg' = bg /\ approvals' = approvals
      BY <2>1, <2>5 DEF ResyncJob, Put, TypeOK, Resync, Row, memory, userVars
    <3> QED
      BY <1>1, <2>3, <3>1
      DEF JobOK, CopyOK, MakingOK, OfferedOK, Offered, ApprovedOK, CommittedOK, Committed,
          AddedOK, On, Early, Due, Begun, Processing
  <2>6. CASE Publish(k)
    <3>1. /\ row'[k].status = "processing" /\ row'[k].approved
          /\ row'[k].dec = row[k].dec /\ row[k].status = "awaiting_review"
      BY <2>1, <2>6 DEF Publish, Put, TypeOK, ClaimForPublishing, Row, ReviewOpen
    <3>2. bg'[k] = "validate" /\ row[k].dec \in approvals'[k]
      BY <2>6 DEF Publish, TypeOK
    <3> QED
      BY <1>1, <2>1, <2>3, <3>1, <3>2
      DEF JobOK, CopyOK, MakingOK, OfferedOK, Offered, ApprovedOK, CommittedOK, Committed,
          AddedOK, On, Early, Due, Begun, Processing
  <2> QED
    BY <2>4, <2>5, <2>6
<1> QED
  BY <1>2, <1>3 DEF OutputsInv

LEMMA FinishEffect ==
  ASSUME NEW rec \in Record, NEW s
  PROVE  LET new == [rec EXCEPT !.status = s]
         IN new.status = s /\ new.dec = rec.dec
  BY DEF Record

LEMMA WorkerFinishStep ==
  ASSUME TypeOK, TypeOK', NEW k \in Jobs, WorkerFinish(k), OutputsInv
  PROVE  OutputsInv'
<1>0. JobOK(k) /\ worker[k] \in Record /\ worker[k].status = "running"
  BY DEF TypeOK, OutputsInv, WorkerFinish
<1>1. UNCHANGED <<row, run, bg, library, approvals>>
  BY DEF WorkerFinish, workerFrame, memory, userVars
<1>2. ASSUME NEW j \in Jobs, WorkerCalm(j), WorkCalm(j) PROVE JobOK(j)'
  BY <1>1, <1>2, RowCalm, RunIdlesCalm, CalmStep
  DEF RunIdles, Calm, BgCalm, BookCalm, OutputsInv
<1>3. ASSUME NEW j \in Jobs, j # k PROVE JobOK(j)'
  <2>1. worker'[j] = worker[j] /\ work'[j] = work[j]
    BY <1>3 DEF WorkerFinish, TypeOK
  <2> QED
    BY <1>2, <2>1 DEF WorkerCalm, WorkCalm
<1>4. JobOK(k)'
  <2>1. CASE work' = work /\ \E s \in {"cancelled", "failed"} :
                               worker' = [worker EXCEPT ![k].status = s]
    <3>1. worker'[k].status \in {"cancelled", "failed"}
      BY <1>0, <2>1, FinishEffect DEF TypeOK
    <3> QED
      BY <1>2, <2>1, <3>1 DEF WorkerCalm, WorkCalm
  <2>2. CASE /\ worker' = [worker EXCEPT ![k].status = "completed"]
             /\ work' = [work EXCEPT ![k] = worker[k].dec]
    <3>1. worker'[k].status = "completed" /\ work'[k] = row[k].dec
      BY <1>0, <2>2, FinishEffect DEF TypeOK, JobOK, MakingOK
    <3> QED
      BY <1>0, <1>1, <3>1
      DEF JobOK, CopyOK, MakingOK, OfferedOK, Offered, ApprovedOK, CommittedOK, Committed,
          AddedOK, On, Early, Due
  <2> QED
    BY <2>1, <2>2 DEF WorkerFinish
<1> QED
  BY <1>3, <1>4 DEF OutputsInv

-----------------------------------------------------------------------------
LEMMA InitOutputs == Init => OutputsInv
<1> SUFFICES ASSUME Init, NEW j \in Jobs PROVE JobOK(j)
  BY DEF OutputsInv
<1>1. /\ row[j].status = "absent" /\ ~row[j].approved /\ run.pc = "idle"
      /\ worker[j].status = "none" /\ bg[j] = "none" /\ library[j] = {}
  BY IdleEffect DEF Init, NoRow, NoRecord
<1> QED
  BY <1>1 DEF JobOK, CopyOK, MakingOK, OfferedOK, Offered, ApprovedOK, CommittedOK,
     Committed, AddedOK, On, Processing

LEMMA NextOutputs == TypeOK /\ OutputsInv /\ [Next]_vars => OutputsInv'
<1> SUFFICES ASSUME TypeOK, OutputsInv, [Next]_vars PROVE OutputsInv'
  OBVIOUS
<1>0. TypeOK'
  BY NextType
<1>1. ASSUME \A j \in Jobs : Calm(j) PROVE OutputsInv'
  BY <1>0, <1>1, CalmStep DEF OutputsInv
<1>2. ASSUME NEW k \in Jobs, UserStep(k) PROVE OutputsInv'
  BY <1>0, <1>1, <1>2, UserCalm, CreateKeeps DEF UserStep
<1>3. ASSUME NEW k \in Jobs, BgStep(k) PROVE OutputsInv'
  BY <1>0, <1>1, <1>3, FolderCalm, BgStepKeeps DEF BgStep
<1>4. ASSUME NEW k \in Jobs,
             Renew(k) \/ LeaseLapse(k) \/ ExpireReviews(k) \/ WindowLapse(k)
             \/ RemoveFolder(k) \/ TellWorker(k)
      PROVE  OutputsInv'
  BY <1>1, <1>4, UserCalm, FolderCalm
<1>5. ASSUME NEW k \in Jobs, WorkerFinish(k) PROVE OutputsInv'
  BY <1>0, <1>5, WorkerFinishStep
<1>6. ASSUME TickUnwanted \/ \E k \in Jobs : Tick(k) \/ TickAdopt(k) PROVE OutputsInv'
  BY <1>0, <1>6, TickKeeps
<1>7. ASSUME RunStep PROVE OutputsInv'
  BY <1>0, <1>1, <1>7, RunPrepareCalm, RunSubmitStep, RunPollStep, RunEndsCalm,
     RunValidateStep, RunFinishStep, RunPublishStep, RunCompleteStep DEF RunStep
<1>8. ASSUME RecoveryStep \/ SweepStep \/ RefreshHealth \/ UNCHANGED vars PROVE OutputsInv'
  BY <1>1, <1>8, HousekeepingCalm
<1>9. ASSUME WorkerShutdown \/ WorkerExit \/ WorkerCrash \/ ServerCrash PROVE OutputsInv'
  BY <1>1, <1>9, StopCalm
<1> QED
  BY <1>2, <1>3, <1>4, <1>5, <1>6, <1>7, <1>8, <1>9 DEF Next

(* Everything the theorems of this module say follows from OutputsInv.      *)
LEMMA OutputsCorrect == Spec => []OutputsInv
  BY InitOutputs, NextOutputs, TypeCorrect, PTL DEF Spec

(* An output whose report asks for review is in the book only if a user     *)
(* chose to add that very output, whatever crashes, retries, re-syncs and   *)
(* stalled leases lie between the choice and the copy.                      *)
THEOREM NothingUnreviewedCorrect == Spec => []NothingUnreviewed
<1>1. OutputsInv => NothingUnreviewed
  <2> SUFFICES ASSUME OutputsInv, NEW j \in Jobs, NEW v \in library[j],
                      <<j, v>> \in ReviewDue
               PROVE  v \in approvals[j]
    BY DEF NothingUnreviewed
  <2>1. v = row[j].dec /\ Committed(j)
    BY DEF OutputsInv, JobOK, AddedOK, Committed
  <2>2. Due(j)
    BY <2>1 DEF Due
  <2> QED
    BY <2>1, <2>2 DEF OutputsInv, JobOK, CommittedOK, ApprovedOK
<1> QED
  BY <1>1, OutputsCorrect, PTL

(* A job puts one output in its book at most: once anything was added, the  *)
(* job comes to no review from which it could be re-synced.                 *)
THEOREM OneOutputCorrect == Spec => []OneOutputPerJob
<1>1. OutputsInv => OneOutputPerJob
  BY DEF OutputsInv, JobOK, AddedOK, OneOutputPerJob
<1> QED
  BY <1>1, OutputsCorrect, PTL

(* A completed job has put the output of its own decisions in the book,     *)
(* also when its lease lapsed under it and recovery queued it again.        *)
THEOREM DoneMeansPublishedCorrect == Spec => []DoneMeansPublished
<1>1. OutputsInv => DoneMeansPublished
  BY DEF OutputsInv, JobOK, AddedOK, DoneMeansPublished
<1> QED
  BY <1>1, OutputsCorrect, PTL

-----------------------------------------------------------------------------
(* The folder under review.  Whoever is about to remove a folder has a      *)
(* reason that lasts: the job is over for good, or it was created after the *)
(* sweep read what to keep.                                                 *)
Over(r) == \/ r.status \in {"completed", "cancelled"}
           \/ r.status = "failed" /\ r.window = "none"

RemovalOK(j) ==
  /\ j \in removing => row[j].status = "cancelled"
  /\ bg[j] = "remove" => library[j] # {}
  /\ row[j].status = "absent" => work[j] = NoFolder
  /\ sweep.pc = "list" /\ j \notin sweep.keep =>
       Over(row[j]) \/ row[j].status = "absent" \/ j \in unseen
  /\ j \in sweep.todo => Over(row[j]) \/ j \in unseen

ForReview(j) == On(j) /\ run.pc = "finish" /\ run.review /\ Processing(row[j])

FolderOK(j) ==
  ForReview(j) \/ row[j].status = "awaiting_review" =>
    j \in unseen \/ work[j] = row[j].dec

ReviewInv == \A j \in Jobs : RemovalOK(j) /\ FolderOK(j)

(* A tidy update takes no job back that is over, creates none, and brings   *)
(* none to a review.                                                        *)
Tidy(r, s) ==
  /\ Over(r) => Over(s)
  /\ r.status = "cancelled" => s.status = "cancelled"
  /\ s.status = "absent" <=> r.status = "absent"
  /\ s.status = "awaiting_review" => r.status = "awaiting_review" /\ s.dec = r.dec
  /\ Processing(s) => s.dec = r.dec
  /\ Processing(s) => r.status \in {"processing", "awaiting_review"}

LEMMA TidyUpdates ==
  ASSUME NEW r \in Row
  PROVE  /\ Tidy(r, r)
         /\ Cancellable(r) => Tidy(r, RequestCancellation(r))
         /\ ReviewOpen(r) => Tidy(r, ClaimForPublishing(r)) /\ Tidy(r, Resync(r))
         /\ Retryable(r) => Tidy(r, Retry(r))
         /\ Tidy(r, Heartbeat(r))
         /\ \A stage \in {"working", "validating"} : Tidy(r, UpdateProgress(r, stage))
         /\ \A window \in {"none", "open"} : Tidy(r, Fail(r, window))
         /\ Publishable(r) => Tidy(r, BeginPublishing(r))
         /\ Tidy(r, Complete(r)) /\ Tidy(r, Requeue(r))
         /\ Processing(r) => Tidy(r, [r EXCEPT !.lease = "lapsed"])
         /\ Tidy(r, RecoverCancelled(r)) /\ Tidy(r, RecoverFailed(r))
         /\ Tidy(r, RecoverRequeued(r))
         /\ r.status = "awaiting_review" => Tidy(r, ExpireReview(r))
         /\ Tidy(r, ClearExpiredWorkWindow(r))
<1> USE DEF Tidy, LeaseExpired, Processing, Row, Over
<1>1. Tidy(r, r)
  OBVIOUS
<1>2. Cancellable(r) => Tidy(r, RequestCancellation(r))
  BY DEF RequestCancellation, Cancellable, Active, ActiveStatus
<1>3. ReviewOpen(r) => Tidy(r, ClaimForPublishing(r))
  BY DEF ReviewOpen, ClaimForPublishing
<1>4. ReviewOpen(r) => Tidy(r, Resync(r))
  BY DEF ReviewOpen, Resync
<1>5. Retryable(r) => Tidy(r, Retry(r))
  BY DEF Retryable, Retry
<1>7. Tidy(r, Heartbeat(r))
  BY DEF Heartbeat
<1>8. \A stage \in {"working", "validating"} : Tidy(r, UpdateProgress(r, stage))
  BY DEF UpdateProgress
<1>9. \A window \in {"none", "open"} : Tidy(r, Fail(r, window))
  BY DEF Fail
<1>10. Publishable(r) => Tidy(r, BeginPublishing(r))
  BY DEF Publishable, BeginPublishing
<1>11. Tidy(r, Complete(r))
  BY DEF Complete
<1>12. Tidy(r, Requeue(r))
  BY DEF Requeue
<1>13. Processing(r) => Tidy(r, [r EXCEPT !.lease = "lapsed"])
  OBVIOUS
<1>14. Tidy(r, RecoverCancelled(r))
  BY DEF RecoverCancelled
<1>15. Tidy(r, RecoverFailed(r))
  BY DEF RecoverFailed
<1>16. Tidy(r, RecoverRequeued(r))
  BY DEF RecoverRequeued
<1>17. r.status = "awaiting_review" => Tidy(r, ExpireReview(r))
  BY DEF ExpireReview
<1>18. Tidy(r, ClearExpiredWorkWindow(r))
  BY DEF ClearExpiredWorkWindow
<1> HIDE DEF Tidy, LeaseExpired, Processing, Row, Over
<1> QED
  BY <1>1, <1>2, <1>3, <1>4, <1>5, <1>7, <1>8, <1>9, <1>10, <1>11, <1>12, <1>13,
     <1>14, <1>15, <1>16, <1>17, <1>18

LEMMA PutTidy ==
  ASSUME row \in [Jobs -> Row], NEW j \in Jobs, NEW r, Put(j, r), Tidy(row[j], r)
  PROVE  \A k \in Jobs : Tidy(row[k], row'[k])
<1>1. row'[j] = r /\ \A k \in Jobs : k # j => row'[k] = row[k]
  BY DEF Put
<1>2. \A k \in Jobs : Tidy(row[k], row[k])
  BY TidyUpdates
<1> QED
  BY <1>1, <1>2

(* A run comes to ask for a review only by looking at an output.            *)
RunTidy(j) == On(j)' /\ run'.pc = "finish" /\ run'.review => run' = run
RemovingTidy(j) == j \in removing' => j \in removing \/ row'[j].status = "cancelled"
BgTidy(j) == bg'[j] = "remove" => bg[j] = "remove" \/ library[j] # {}

(* Everything but the run, the folder and the sweep. *)
RecordsTidy(j) ==
  /\ Tidy(row[j], row'[j])
  /\ RemovingTidy(j) /\ BgTidy(j)
  /\ unseen \subseteq unseen' /\ library[j] \subseteq library'[j]

LEMMA TidyRemoval ==
  ASSUME TypeOK, NEW j \in Jobs, RemovalOK(j), RecordsTidy(j), sweep' = sweep,
         work'[j] = work[j] \/ work'[j] = NoFolder \/ row[j].status # "absent"
  PROVE  RemovalOK(j)'
  BY DEF RemovalOK, RecordsTidy, RemovingTidy, BgTidy, Tidy

LEMMA TidyFolder ==
  ASSUME TypeOK, NEW j \in Jobs, FolderOK(j), RecordsTidy(j), RunTidy(j), CopyOK(j),
         \/ work'[j] = work[j]
         \/ j \in unseen
         \/ ~ForReview(j) /\ row[j].status # "awaiting_review"
  PROVE  FolderOK(j)'
<1>1. ForReview(j)' => ForReview(j)
  BY DEF ForReview, RecordsTidy, RunTidy, Tidy, On, CopyOK, Begun, Processing
<1> QED
  BY <1>1 DEF FolderOK, RecordsTidy, Tidy, ForReview

LEMMA TidyStep ==
  ASSUME TypeOK, OutputsInv, ReviewInv, sweep' = sweep,
         \A j \in Jobs :
           /\ RecordsTidy(j) /\ RunTidy(j)
           /\ work'[j] = work[j] \/ work'[j] = NoFolder \/ row[j].status # "absent"
           /\ \/ work'[j] = work[j]
              \/ j \in unseen
              \/ ~ForReview(j) /\ row[j].status # "awaiting_review"
  PROVE  ReviewInv'
<1> SUFFICES ASSUME NEW j \in Jobs PROVE RemovalOK(j)' /\ FolderOK(j)'
  BY DEF ReviewInv
<1>1. CopyOK(j) /\ RemovalOK(j) /\ FolderOK(j)
  BY DEF OutputsInv, JobOK, ReviewInv
<1> QED
  BY <1>1, TidyRemoval, TidyFolder

(* Steps that leave the folders and the sweep alone. *)
LEMMA TidyRows ==
  ASSUME TypeOK, OutputsInv, ReviewInv, UNCHANGED <<sweep, work, library>>,
         \A j \in Jobs : Tidy(row[j], row'[j]) /\ RunTidy(j) /\ RemovingTidy(j) /\ BgTidy(j),
         unseen \subseteq unseen'
  PROVE  ReviewInv'
  BY TidyStep DEF RecordsTidy

LEMMA RowTidy ==
  ASSUME TypeOK, row' = row
  PROVE  \A j \in Jobs : Tidy(row[j], row'[j])
  BY TidyUpdates DEF TypeOK

LEMMA RunIdlesTidy ==
  ASSUME RunIdles PROVE \A j : RunTidy(j)
  BY IdleEffect DEF RunIdles, RunTidy, On

LEMMA UserReview ==
  ASSUME TypeOK, NEW k \in Jobs, OutputsInv, ReviewInv,
         Cancel(k) \/ Publish(k) \/ ResyncJob(k) \/ RetryJob(k) \/ Renew(k) \/ LeaseLapse(k)
         \/ ExpireReviews(k) \/ WindowLapse(k)
  PROVE  ReviewInv'
<1>0. row[k] \in Row /\ row[k].cancel \in BOOLEAN
  BY RowFields DEF TypeOK
<1>1. \A j \in Jobs : Tidy(row[j], row'[j])
  <2>1. ASSUME Cancel(k) PROVE \A j \in Jobs : Tidy(row[j], row'[j])
    BY <1>0, <2>1, PutTidy, TidyUpdates DEF TypeOK, Cancel
  <2>2. ASSUME Publish(k) PROVE \A j \in Jobs : Tidy(row[j], row'[j])
    BY <1>0, <2>2, PutTidy, TidyUpdates DEF TypeOK, Publish
  <2>3. ASSUME ResyncJob(k) PROVE \A j \in Jobs : Tidy(row[j], row'[j])
    BY <1>0, <2>3, PutTidy, TidyUpdates DEF TypeOK, ResyncJob
  <2>4. ASSUME RetryJob(k) PROVE \A j \in Jobs : Tidy(row[j], row'[j])
    BY <1>0, <2>4, PutTidy, TidyUpdates DEF TypeOK, RetryJob
  <2>5. ASSUME Renew(k) PROVE \A j \in Jobs : Tidy(row[j], row'[j])
    BY <1>0, <2>5, PutTidy, TidyUpdates DEF TypeOK, Renew
  <2>6. ASSUME LeaseLapse(k) PROVE \A j \in Jobs : Tidy(row[j], row'[j])
    BY <1>0, <2>6, PutTidy, TidyUpdates DEF TypeOK, LeaseLapse
  <2>7. ASSUME ExpireReviews(k) PROVE \A j \in Jobs : Tidy(row[j], row'[j])
    BY <1>0, <2>7, PutTidy, TidyUpdates DEF TypeOK, ExpireReviews
  <2>8. ASSUME WindowLapse(k) PROVE \A j \in Jobs : Tidy(row[j], row'[j])
    BY <1>0, <2>8, PutTidy, TidyUpdates DEF TypeOK, WindowLapse
  <2> QED
    BY <2>1, <2>2, <2>3, <2>4, <2>5, <2>6, <2>7, <2>8
<1>2. UNCHANGED <<run, sweep, work, library, unseen>>
  BY DEF Cancel, Publish, ResyncJob, RetryJob, Renew, LeaseLapse, ExpireReviews,
     WindowLapse, memory, userVars
<1>3. \A j \in Jobs : BgTidy(j)
  BY DEF Cancel, Publish, ResyncJob, RetryJob, Renew, LeaseLapse, ExpireReviews,
     WindowLapse, memory, TypeOK, BgTidy
<1>4. \A j \in Jobs : RemovingTidy(j)
  <2>1. Cancel(k) /\ ~Processing(row[k]) => row'[k].status = "cancelled"
    BY <1>0 DEF Cancel, Put, TypeOK, RequestCancellation, Row, Processing
  <2>2. ExpireReviews(k) => row'[k].status = "cancelled"
    BY <1>0 DEF ExpireReviews, Put, TypeOK, ExpireReview, Row
  <2> QED
    BY <2>1, <2>2 DEF Cancel, Publish, ResyncJob, RetryJob, Renew, LeaseLapse, ExpireReviews,
       WindowLapse, memory, RemovingTidy
<1> QED
  BY <1>1, <1>2, <1>3, <1>4, TidyRows, RunIdlesTidy DEF RunIdles

(* A created job has no folder, and a sweep that has read what to keep and  *)
(* not yet listed the folders is told apart by unseen.                      *)
LEMMA CreateReview ==
  ASSUME TypeOK, NEW k \in Jobs, Create(k), OutputsInv, ReviewInv
  PROVE  ReviewInv'
<1>1. UNCHANGED <<run, bg, removing, sweep, work, library>> /\ unseen \subseteq unseen'
  BY DEF Create, memory
<1>2. ASSUME NEW j \in Jobs, j # k PROVE RemovalOK(j)' /\ FolderOK(j)'
  <2>1. row'[j] = row[j] /\ Tidy(row[j], row'[j])
    BY <1>2, TidyUpdates DEF Create, Put, TypeOK
  <2>2. RecordsTidy(j) /\ RunTidy(j) /\ CopyOK(j) /\ RemovalOK(j) /\ FolderOK(j)
    BY <1>1, <2>1, RunIdlesTidy
    DEF RunIdles, RecordsTidy, RemovingTidy, BgTidy, OutputsInv, JobOK, ReviewInv
  <2> QED
    BY <1>1, <2>2, TidyRemoval, TidyFolder
<1>3. RemovalOK(k)' /\ FolderOK(k)'
  <2>1. /\ row[k].status = "absent" /\ row'[k].status = "queued"
        /\ sweep.pc = "list" => k \in unseen'
    BY DEF Create, Put, TypeOK, NewRow, NoRow
  <2>2. RemovalOK(k)
    BY DEF ReviewInv
  <2>3. k \notin removing /\ (k \in sweep.todo => k \in unseen)
    BY <2>1, <2>2 DEF RemovalOK, Over
  <2> QED
    BY <1>1, <2>1, <2>2, <2>3 DEF RemovalOK, FolderOK, ForReview, Processing
<1> QED
  BY <1>2, <1>3 DEF ReviewInv

LEMMA ClaimReview ==
  ASSUME TypeOK, NEW k \in Jobs, Claim(k), UNCHANGED <<runFrame, work>>,
         OutputsInv, ReviewInv
  PROVE  ReviewInv'
<1>1. UNCHANGED <<bg, removing, sweep, work, library, unseen>>
  BY DEF runFrame, userVars
<1>2. /\ run'.pc = "prepare" /\ row[k].status = "queued"
      /\ row'[k].status = "processing" /\ \A j \in Jobs : j # k => row'[j] = row[j]
  BY ClaimCopies DEF Claim, Claimable
<1>3. ASSUME NEW j \in Jobs PROVE RemovalOK(j)' /\ FolderOK(j)'
  <2>1. RemovalOK(j) /\ FolderOK(j)
    BY DEF ReviewInv
  <2>2. CASE j # k
    BY <1>1, <1>2, <2>1, <2>2 DEF RemovalOK, FolderOK, ForReview, On
  <2>3. CASE j = k
    BY <1>1, <1>2, <2>1, <2>3 DEF RemovalOK, FolderOK, ForReview, On, Over
  <2> QED
    BY <2>2, <2>3
<1> QED
  BY <1>3 DEF ReviewInv

LEMMA TickReview ==
  ASSUME TypeOK, TickUnwanted \/ \E k \in Jobs : Tick(k) \/ TickAdopt(k),
         OutputsInv, ReviewInv
  PROVE  ReviewInv'
<1>1. UNCHANGED <<runFrame, work>>
  BY DEF TickUnwanted, Tick, TickAdopt
<1>2. CASE \E k \in Jobs : Claim(k)
  BY <1>1, <1>2, ClaimReview
<1>3. CASE row' = row /\ run' = run
  BY <1>1, <1>3, TidyRows, RowTidy, RunIdlesTidy
  DEF RunIdles, RemovingTidy, BgTidy, runFrame, userVars
<1> QED
  BY <1>2, <1>3 DEF TickUnwanted, Tick, TickAdopt

-----------------------------------------------------------------------------
(* The steps of a run. *)

LEMMA RunFrameTidy ==
  ASSUME UNCHANGED runFrame
  PROVE  /\ UNCHANGED <<sweep, library, unseen>>
         /\ \A j : RemovingTidy(j) /\ BgTidy(j)
  BY DEF runFrame, userVars, RemovingTidy, BgTidy

LEMMA RaiseTidy ==
  ASSUME NEW e, Raise(e) PROVE \A j : RunTidy(j)
  BY RaiseEffect DEF RunTidy

(* The steps that leave the folder alone and ask for no review. *)
LEMMA RunPlainReview ==
  ASSUME TypeOK, OutputsInv, ReviewInv,
         RunPoll \/ RunCancel \/ RunComplete \/ RunFailure \/ RunSettle
  PROVE  ReviewInv'
<1>0. run.pc # "idle" /\ run.job \in Jobs /\ row[run.job] \in Row /\ RunTyped(run)
  BY RunRow DEF TypeOK, RunPoll, RunCancel, RunComplete, RunFailure, RunSettle
<1>1. UNCHANGED runFrame /\ work' = work
  BY DEF RunPoll, RunCancel, RunComplete, RunFailure, RunSettle
<1>2. \A j \in Jobs : Tidy(row[j], row'[j])
  BY <1>0, RowTidy, PutTidy, TidyUpdates
  DEF TypeOK, RunPoll, RunCancel, RunComplete, RunFailure, RunSettle
<1>3. run'.pc # "finish"
  <2>1. CASE RunPoll
    <3>1. CASE \/ run' = [run EXCEPT !.pc = "submit", !.resubmits = @ + 1]
               \/ run' = [run EXCEPT !.pc = "validate", !.resubmits = 0]
      BY <1>0, <3>1, PollEffect
    <3>2. CASE Goto("cancel") \/ \E e : Raise(e)
      BY <1>0, <3>2, GotoEffect, RaiseEffect
    <3> QED
      BY <2>1, <3>1, <3>2 DEF RunPoll
  <2>2. CASE RunCancel
    BY <2>2, RaiseEffect DEF RunCancel
  <2>3. CASE RunComplete
    BY <1>0, <2>3, GotoEffect, RaiseEffect DEF RunComplete
  <2>4. CASE RunFailure
    <3> DEFINE r(b) == [run EXCEPT !.pc = "settle", !.cancelled = b]
    <3>1. \E b : run' = r(b)
      BY <2>4 DEF RunFailure
    <3>2. \A b : r(b).pc = "settle"
      BY <1>0, PollEffect
    <3> HIDE DEF r
    <3> QED
      BY <3>1, <3>2
  <2>5. CASE RunSettle
    BY <1>0, <2>5, GotoEffect, IdleEffect DEF RunSettle
  <2> QED
    BY <2>1, <2>2, <2>3, <2>4, <2>5 DEF RunPoll, RunCancel, RunComplete, RunFailure, RunSettle
<1> QED
  BY <1>1, <1>2, <1>3, RunFrameTidy, TidyRows DEF RunTidy

(* The run has its folder to itself before it has an output.                *)
LEMMA RunFolderReview ==
  ASSUME TypeOK, OutputsInv, ReviewInv, RunPrepare \/ RunSubmit \/ RunRemove
  PROVE  ReviewInv'
<1>0. run.pc # "idle" /\ run.job \in Jobs /\ row[run.job] \in Row /\ RunTyped(run)
  BY RunRow DEF TypeOK, RunPrepare, RunSubmit, RunRemove
<1>1. UNCHANGED runFrame
  BY DEF RunPrepare, RunSubmit, RunRemove
<1>2. \A j \in Jobs : Tidy(row[j], row'[j])
  BY <1>0, RowTidy, PutTidy, TidyUpdates DEF TypeOK, RunPrepare, RunSubmit, RunRemove
<1>3. run'.pc # "finish"
  BY <1>0, GotoEffect, RaiseEffect, IdleEffect DEF RunPrepare, RunSubmit, RunRemove
<1>4. \A j \in Jobs : j # run.job => work'[j] = work[j]
  BY DEF TypeOK, RunPrepare, RunSubmit, RunRemove
<1>5. Begun(row[run.job]) /\ ~ForReview(run.job)
  BY <1>0 DEF OutputsInv, JobOK, CopyOK, On, ForReview, RunPrepare, RunSubmit, RunRemove
<1> QED
  BY <1>1, <1>2, <1>3, <1>4, <1>5, RunFrameTidy, TidyStep DEF RecordsTidy, RunTidy, Begun

LEMMA RunPublishReview ==
  ASSUME TypeOK, OutputsInv, ReviewInv, RunPublish
  PROVE  ReviewInv'
<1>0. run.job \in Jobs /\ RunTyped(run)
  BY RunRow DEF TypeOK, RunPublish
<1>1. UNCHANGED <<row, bg, removing, sweep, work, unseen>>
  BY DEF RunPublish, userVars
<1>2. run'.pc # "finish"
  BY <1>0, GotoEffect, RaiseEffect DEF RunPublish
<1>3. \A j \in Jobs : library[j] \subseteq library'[j]
  BY DEF RunPublish, AddToLibrary, TypeOK
<1> QED
  BY <1>1, <1>2, <1>3, RowTidy, TidyStep DEF RecordsTidy, RunTidy, RemovingTidy, BgTidy

(* What a run asks a review for is the output of the row's decisions. *)
LEMMA RunValidateReview ==
  ASSUME TypeOK, OutputsInv, ReviewInv, RunValidate
  PROVE  ReviewInv'
<1>0. run.job \in Jobs /\ row[run.job] \in Row /\ RunTyped(run)
  BY RunRow DEF TypeOK, RunValidate
<1>1. UNCHANGED runFrame /\ work' = work
  BY DEF RunValidate
<1>2. \A j \in Jobs : Tidy(row[j], row'[j])
  BY <1>0, PutTidy, TidyUpdates DEF TypeOK, RunValidate
<1>3. CASE Raise("retryable")
  BY <1>1, <1>2, <1>3, RunFrameTidy, RaiseTidy, TidyRows
<1>4. CASE ~Raise("retryable")
  <2> DEFINE due == <<run.job, work[run.job]>> \in ReviewDue /\ ~run.approved
  <2>1. work[run.job] \in Nat /\ run' = [run EXCEPT !.pc = "finish", !.review = due]
    BY <1>4 DEF RunValidate
  <2>2. run'.job = run.job
    <3> HIDE DEF due
    <3> QED
      BY <1>0, <2>1, PollEffect
  <2>3. ASSUME NEW j \in Jobs PROVE RemovalOK(j)' /\ FolderOK(j)'
    <3>1. CopyOK(j) /\ OfferedOK(j) /\ RemovalOK(j) /\ FolderOK(j)
      BY DEF OutputsInv, JobOK, ReviewInv
    <3>2. RecordsTidy(j)
      BY <1>1, <1>2, RunFrameTidy DEF RecordsTidy
    <3>3. RemovalOK(j)'
      BY <1>1, <3>1, <3>2, RunFrameTidy, TidyRemoval
    <3>4. CASE j # run.job
      <4>1. RunTidy(j)
        BY <2>2, <3>4 DEF RunTidy, On
      <4> QED
        BY <1>1, <3>1, <3>2, <3>3, <4>1, TidyFolder
    <3>5. CASE j = run.job
      <4>1. Begun(row[j]) /\ work[j] = row[j].dec
        BY <2>1, <3>1, <3>5 DEF CopyOK, OfferedOK, Offered, On, RunValidate
      <4> QED
        BY <1>1, <1>2, <3>3, <4>1 DEF FolderOK, ForReview, Tidy, Begun
    <3> QED
      BY <3>4, <3>5
  <2> QED
    BY <2>3 DEF ReviewInv
<1> QED
  BY <1>3, <1>4

LEMMA RunFinishReview ==
  ASSUME TypeOK, OutputsInv, ReviewInv, RunFinish
  PROVE  ReviewInv'
<1>0. run.job \in Jobs /\ row[run.job] \in Row /\ RunTyped(run)
  BY RunRow DEF TypeOK, RunFinish
<1>1. UNCHANGED runFrame /\ work' = work
  BY DEF RunFinish
<1>2. CASE Raise("cancelled") /\ row' = row
  BY <1>1, <1>2, RowTidy, RunFrameTidy, RaiseTidy, TidyRows
<1>3. CASE /\ Publishable(row[run.job])
           /\ Put(run.job, BeginPublishing(row[run.job])) /\ Goto("publish")
  <2>1. \A j \in Jobs : Tidy(row[j], row'[j])
    BY <1>0, <1>3, PutTidy, TidyUpdates DEF TypeOK
  <2>2. run'.pc # "finish"
    BY <1>0, <1>3, GotoEffect
  <2> QED
    BY <1>1, <2>1, <2>2, RunFrameTidy, TidyRows DEF RunTidy
<1>4. CASE /\ Publishable(row[run.job]) /\ run.review
           /\ Put(run.job, MarkAwaitingReview(row[run.job])) /\ run' = IdleRun
  <2>1. run'.pc = "idle" /\ UNCHANGED <<bg, removing, sweep, library, unseen>>
    BY <1>1, <1>4, IdleEffect DEF runFrame, userVars
  <2>2. ASSUME NEW j \in Jobs, j # run.job PROVE RemovalOK(j)' /\ FolderOK(j)'
    <3>1. RemovalOK(j) /\ FolderOK(j) /\ row'[j] = row[j]
      BY <1>4, <2>2 DEF ReviewInv, Put, TypeOK
    <3> QED
      BY <1>1, <2>1, <3>1 DEF RemovalOK, FolderOK, ForReview, On
  <2>3. ASSUME NEW j \in Jobs, j = run.job PROVE RemovalOK(j)' /\ FolderOK(j)'
    <3>1. RemovalOK(j) /\ FolderOK(j) /\ ForReview(j)
      BY <1>4, <2>3 DEF ReviewInv, ForReview, On, RunFinish, Publishable
    <3>2. row'[j].status = "awaiting_review" /\ row'[j].dec = row[j].dec
      BY <1>0, <1>4, <2>3 DEF Put, TypeOK, MarkAwaitingReview, Row
    <3>3. row[j].status = "processing"
      BY <3>1 DEF ForReview, Processing
    <3> QED
      BY <1>1, <2>1, <3>1, <3>2, <3>3 DEF RemovalOK, FolderOK, ForReview, On, Over
  <2> QED
    BY <2>2, <2>3 DEF ReviewInv
<1> QED
  BY <1>2, <1>3, <1>4 DEF RunFinish

-----------------------------------------------------------------------------
(* The steps of everyone else. *)

LEMMA BgReview ==
  ASSUME TypeOK, OutputsInv, ReviewInv, NEW k \in Jobs, BgStep(k)
  PROVE  ReviewInv'
<1>0. row[k] \in Row /\ JobOK(k) /\ RemovalOK(k)
  BY DEF TypeOK, OutputsInv, ReviewInv
<1>1. UNCHANGED <<run, removing, sweep, unseen>>
  BY DEF BgStep, BgValidate, BgPublish, BgComplete, BgFailure, BgRemove, bgFrame, userVars
<1>2. \A j \in Jobs : Tidy(row[j], row'[j])
  <2>1. ASSUME BgComplete(k) \/ BgFailure(k) PROVE \A j \in Jobs : Tidy(row[j], row'[j])
    BY <1>0, <2>1, RowTidy, PutTidy, TidyUpdates DEF TypeOK, BgComplete, BgFailure
  <2> QED
    BY <2>1, RowTidy DEF BgStep, BgValidate, BgPublish, BgRemove
<1>3. \A j \in Jobs : BgTidy(j)
  <2>1. \A j \in Jobs : j # k => bg'[j] = bg[j]
    BY DEF BgStep, BgValidate, BgPublish, BgComplete, BgFailure, BgRemove, BgGoto, TypeOK
  <2>2. BgComplete(k) => library[k] # {}
    BY <1>0 DEF BgComplete, JobOK, AddedOK
  <2>3. ~BgComplete(k) => bg'[k] # "remove"
    BY DEF BgStep, BgValidate, BgPublish, BgFailure, BgRemove, BgGoto, TypeOK
  <2> QED
    BY <2>1, <2>2, <2>3 DEF BgTidy
<1>4. \A j \in Jobs : library[j] \subseteq library'[j]
  BY DEF BgStep, BgValidate, BgPublish, BgComplete, BgFailure, BgRemove, AddToLibrary, TypeOK
<1>5. CASE work' = work
  BY <1>1, <1>2, <1>3, <1>4, <1>5, RunIdlesTidy, TidyStep
  DEF RecordsTidy, RemovingTidy, RunIdles
<1>6. CASE BgRemove(k)
  <2>1. Begun(row[k]) /\ ~ForReview(k)
    <3>1. Committed(k)
      BY <1>0, <1>6 DEF BgRemove, RemovalOK, Committed
    <3> QED
      BY <1>0, <3>1 DEF JobOK, CommittedOK, CopyOK, ForReview, Early
  <2>2. \A j \in Jobs : j # k => work'[j] = work[j]
    BY <1>6 DEF BgRemove, TypeOK
  <2> QED
    BY <1>1, <1>2, <1>3, <1>4, <2>1, <2>2, RunIdlesTidy, TidyStep
    DEF RecordsTidy, RemovingTidy, RunIdles, Begun
<1> QED
  BY <1>5, <1>6 DEF BgStep, BgValidate, BgPublish, BgComplete, BgFailure

LEMMA FolderReview ==
  ASSUME TypeOK, OutputsInv, ReviewInv, NEW k \in Jobs, RemoveFolder(k) \/ TellWorker(k)
  PROVE  ReviewInv'
<1>1. UNCHANGED <<row, run, bg, sweep, library, unseen>> /\ removing' \subseteq removing
  BY DEF RemoveFolder, TellWorker, userVars
<1>2. \A j \in Jobs : work'[j] = work[j] \/ (work'[j] = NoFolder /\ j \in removing)
  BY DEF RemoveFolder, TellWorker, TypeOK
<1>3. \A j \in Jobs : j \in removing => row[j].status = "cancelled"
  BY DEF ReviewInv, RemovalOK
<1>4. ASSUME NEW j \in Jobs
      PROVE  \/ work'[j] = work[j]
             \/ work'[j] = NoFolder /\ ~ForReview(j) /\ row[j].status # "awaiting_review"
  BY <1>2, <1>3 DEF ForReview, Processing
<1> QED
  BY <1>1, <1>4, RowTidy, RunIdlesTidy, TidyStep
  DEF RecordsTidy, RemovingTidy, BgTidy, RunIdles

LEMMA RecoveryReview ==
  ASSUME TypeOK, OutputsInv, ReviewInv, RecoveryStep
  PROVE  ReviewInv'
<1>0. \A j \in Jobs : row[j] \in Row
  BY DEF TypeOK
<1>1. UNCHANGED <<run, bg, sweep, work, library, unseen>>
  BY DEF RecoveryStep, RecoverStart, RecoverFail, RecoverRequeue, recoverFrame, userVars
<1>2. \A j \in Jobs : Tidy(row[j], row'[j])
  <2>1. ASSUME RecoverStart PROVE \A j \in Jobs : Tidy(row[j], row'[j])
    BY <1>0, <2>1, TidyUpdates DEF RecoverStart
  <2>2. ASSUME RecoverFail PROVE \A j \in Jobs : Tidy(row[j], row'[j])
    BY <1>0, <2>2, TidyUpdates DEF RecoverFail
  <2>3. ASSUME RecoverRequeue PROVE \A j \in Jobs : Tidy(row[j], row'[j])
    BY <1>0, <2>3, TidyUpdates DEF RecoverRequeue
  <2> QED
    BY <2>1, <2>2, <2>3 DEF RecoveryStep
<1>3. \A j \in Jobs : RemovingTidy(j)
  <2>1. ASSUME RecoverStart, NEW j \in Jobs, LeaseExpired(row[j]), row[j].cancel
        PROVE  row'[j].status = "cancelled"
    BY <1>0, <2>1 DEF RecoverStart, RecoverCancelled, Row
  <2>2. RecoverStart => \A j \in Jobs : RemovingTidy(j)
    BY <2>1 DEF RecoverStart, RemovingTidy
  <2> QED
    BY <2>2 DEF RecoveryStep, RecoverFail, RecoverRequeue, RemovingTidy
<1> QED
  BY <1>1, <1>2, <1>3, RunIdlesTidy, TidyRows DEF BgTidy, RunIdles

(* The sweep removes folders of jobs that are over, or too new for it.      *)
LEMMA SweepReview ==
  ASSUME TypeOK, OutputsInv, ReviewInv, SweepStep
  PROVE  ReviewInv'
<1> SUFFICES ASSUME NEW j \in Jobs PROVE RemovalOK(j)' /\ FolderOK(j)'
  BY DEF ReviewInv
<1>0. RemovalOK(j) /\ FolderOK(j) /\ row[j] \in Row
  BY DEF ReviewInv, TypeOK
<1>1. UNCHANGED <<row, run, bg, removing, library, unseen>>
  BY DEF SweepStep, SweepKeep, SweepList, SweepRemove, sweepFrame, userVars
<1>2. CASE SweepKeep
  <2>1. /\ sweep'.todo = {} /\ sweep'.pc = "list" /\ work' = work
        /\ j \notin sweep'.keep => ~KeepsWork(row[j])
    BY <1>2 DEF SweepKeep
  <2>2. ~KeepsWork(row[j]) => Over(row[j]) \/ row[j].status = "absent"
    BY <1>0 DEF KeepsWork, Active, ActiveStatus, TerminalStatus, Retryable, Over, Row
  <2> QED
    BY <1>0, <1>1, <2>1, <2>2 DEF RemovalOK, FolderOK, ForReview, On
<1>3. CASE SweepList
  <2>1. /\ sweep'.pc = "remove" /\ work' = work /\ sweep.pc = "list"
        /\ j \in sweep'.todo => work[j] # NoFolder /\ j \notin sweep.keep
    BY <1>3 DEF SweepList
  <2> QED
    BY <1>0, <1>1, <2>1 DEF RemovalOK, FolderOK, ForReview, On
<1>4. CASE SweepRemove
  <2>1. /\ sweep'.pc # "list" /\ sweep'.todo \subseteq sweep.todo
        /\ work'[j] = work[j] \/ (work'[j] = NoFolder /\ j \in sweep.todo)
    BY <1>4 DEF SweepRemove, TypeOK
  <2>2. j \in sweep.todo => j \in unseen \/ (~ForReview(j) /\ row[j].status # "awaiting_review")
    BY <1>0 DEF RemovalOK, Over, ForReview, Processing
  <2> QED
    BY <1>0, <1>1, <2>1, <2>2 DEF RemovalOK, FolderOK, ForReview, On
<1> QED
  BY <1>2, <1>3, <1>4 DEF SweepStep

(* Nobody makes an output in a folder that is under review. *)
LEMMA WorkerFinishReview ==
  ASSUME TypeOK, OutputsInv, ReviewInv, NEW k \in Jobs, WorkerFinish(k)
  PROVE  ReviewInv'
<1>1. UNCHANGED <<row, run, bg, removing, sweep, library, unseen>>
  BY DEF WorkerFinish, workerFrame, memory, userVars
<1>2. Begun(row[k]) /\ ~ForReview(k)
  BY DEF WorkerFinish, OutputsInv, JobOK, MakingOK, CopyOK, ForReview
<1>3. \A j \in Jobs : j # k => work'[j] = work[j]
  BY DEF WorkerFinish, TypeOK
<1> QED
  BY <1>1, <1>2, <1>3, RowTidy, RunIdlesTidy, TidyStep
  DEF RecordsTidy, RemovingTidy, BgTidy, RunIdles, Begun

LEMMA StopReview ==
  ASSUME TypeOK, OutputsInv, ReviewInv,
         \/ RefreshHealth \/ WorkerShutdown \/ WorkerExit \/ WorkerCrash \/ ServerCrash
         \/ UNCHANGED vars
  PROVE  ReviewInv'
<1>1. CASE ServerCrash
  <2> SUFFICES ASSUME NEW j \in Jobs PROVE RemovalOK(j)' /\ FolderOK(j)'
    BY DEF ReviewInv
  <2>1. RemovalOK(j) /\ FolderOK(j)
    BY DEF ReviewInv
  <2>2. UNCHANGED <<row, work, library, unseen>> /\ run'.pc = "idle" /\ bg'[j] = "none"
        /\ removing' = {} /\ sweep'.pc = "idle" /\ sweep'.todo = {}
    BY <1>1, IdleEffect DEF ServerCrash, userVars
  <2> QED
    BY <2>1, <2>2 DEF RemovalOK, FolderOK, ForReview, On
<1>2. CASE ~ServerCrash
  <2>1. UNCHANGED <<row, run, bg, removing, sweep, work, library, unseen>>
    BY <1>2 DEF RefreshHealth, WorkerShutdown, WorkerExit, WorkerCrash, workerFrame, memory,
       userVars, vars
  <2> QED
    BY <2>1, RowTidy, RunIdlesTidy, TidyRows DEF RunIdles, RemovingTidy, BgTidy
<1> QED
  BY <1>1, <1>2

-----------------------------------------------------------------------------
LEMMA InitReview == Init => ReviewInv
<1> SUFFICES ASSUME Init, NEW j \in Jobs PROVE RemovalOK(j) /\ FolderOK(j)
  BY DEF ReviewInv
<1>1. /\ row[j].status = "absent" /\ run.pc = "idle" /\ bg[j] = "none" /\ removing = {}
      /\ sweep.pc = "idle" /\ sweep.todo = {} /\ work[j] = NoFolder
  BY IdleEffect DEF Init, NoRow
<1> QED
  BY <1>1 DEF RemovalOK, FolderOK, ForReview, On

LEMMA NextReview == TypeOK /\ OutputsInv /\ ReviewInv /\ [Next]_vars => ReviewInv'
<1> SUFFICES ASSUME TypeOK, OutputsInv, ReviewInv, [Next]_vars PROVE ReviewInv'
  OBVIOUS
<1>1. ASSUME NEW k \in Jobs, UserStep(k) PROVE ReviewInv'
  BY <1>1, UserReview, CreateReview DEF UserStep
<1>2. ASSUME NEW k \in Jobs,
             Renew(k) \/ LeaseLapse(k) \/ ExpireReviews(k) \/ WindowLapse(k)
      PROVE  ReviewInv'
  BY <1>2, UserReview
<1>3. ASSUME NEW k \in Jobs, BgStep(k) PROVE ReviewInv'
  BY <1>3, BgReview
<1>4. ASSUME NEW k \in Jobs, RemoveFolder(k) \/ TellWorker(k) PROVE ReviewInv'
  BY <1>4, FolderReview
<1>5. ASSUME NEW k \in Jobs, WorkerFinish(k) PROVE ReviewInv'
  BY <1>5, WorkerFinishReview
<1>6. ASSUME TickUnwanted \/ \E k \in Jobs : Tick(k) \/ TickAdopt(k) PROVE ReviewInv'
  BY <1>6, TickReview
<1>7. ASSUME RunStep PROVE ReviewInv'
  BY <1>7, RunPlainReview, RunFolderReview, RunPublishReview, RunValidateReview,
     RunFinishReview DEF RunStep
<1>8. ASSUME RecoveryStep \/ SweepStep PROVE ReviewInv'
  BY <1>8, RecoveryReview, SweepReview
<1>9. ASSUME \/ RefreshHealth \/ WorkerShutdown \/ WorkerExit \/ WorkerCrash \/ ServerCrash
             \/ UNCHANGED vars
      PROVE  ReviewInv'
  BY <1>9, StopReview
<1> QED
  BY <1>1, <1>2, <1>3, <1>4, <1>5, <1>6, <1>7, <1>8, <1>9 DEF Next

(* A review offers the output of the row's own decisions, in a folder that  *)
(* no handler, recovery or sweep has removed, also when leases lapse under  *)
(* their runs; the exception is a job created while a sweep had read what   *)
(* to keep.                                                                 *)
THEOREM ReviewKeepsOutputCorrect == Spec => []ReviewKeepsOutput
<1>1. ReviewInv => ReviewKeepsOutput
  BY DEF ReviewInv, FolderOK, ReviewKeepsOutput
<1>2. Spec => []ReviewInv
  BY InitReview, NextReview, OutputsCorrect, TypeCorrect, PTL DEF Spec
<1> QED
  BY <1>1, <1>2, PTL

-----------------------------------------------------------------------------
(* No way back.  Once the output of a job is on its way to the book, its    *)
(* row refuses a cancel in one of three ways: it is approved, it is in the  *)
(* publishing stage, or it is over; and a run that may still put the row    *)
(* back to working or to the queue finds it approved.                       *)
Restarting(j) ==
  On(j) /\ (run.pc \in Early \/ (run.pc \in {"failure", "settle"} /\ run.error = "lost"))

Firm(j) ==
  Committed(j) =>
    /\ ~row[j].cancel /\ row[j].status # "cancelled"
    /\ \/ row[j].approved
       \/ Processing(row[j]) /\ row[j].stage = "publishing"
       \/ row[j].status \in {"completed", "failed"}
    /\ Restarting(j) /\ Processing(row[j]) => row[j].approved

FirmInv == \A j \in Jobs : Firm(j)

(* A steady update leaves a row that refuses a cancel one that does. *)
Steady(r, s) ==
  ~r.cancel =>
    /\ ~s.cancel
    /\ s.status = "cancelled" => r.status = "cancelled"
    /\ r.approved => s.approved
    /\ Processing(s) => Processing(r)
    /\ r.status \in {"completed", "failed"} => s.status \in {"completed", "failed"}
    /\ Processing(r) /\ r.stage = "publishing" =>
         \/ s.approved
         \/ Processing(s) /\ s.stage = "publishing"
         \/ s.status \in {"completed", "failed"}

LEMMA SteadyUpdates ==
  ASSUME NEW r \in Row
  PROVE  /\ Steady(r, r)
         /\ Steady(r, Heartbeat(r))
         /\ r.approved \/ ~Processing(r) =>
              /\ \A stage \in {"working", "validating"} : Steady(r, UpdateProgress(r, stage))
              /\ Steady(r, Requeue(r))
         /\ \A window \in {"none", "open"} : Steady(r, Fail(r, window))
         /\ Publishable(r) => Steady(r, BeginPublishing(r))
         /\ Steady(r, Complete(r))
         /\ Processing(r) => Steady(r, [r EXCEPT !.lease = "lapsed"])
         /\ Steady(r, RecoverCancelled(r)) /\ Steady(r, RecoverFailed(r))
         /\ Steady(r, RecoverRequeued(r))
         /\ Steady(r, ClearExpiredWorkWindow(r))
<1> USE DEF Steady, LeaseExpired, Processing, Row
<1>1. Steady(r, r)
  OBVIOUS
<1>2. Steady(r, Heartbeat(r))
  BY DEF Heartbeat
<1>3. r.approved \/ ~Processing(r) =>
        \A stage \in {"working", "validating"} : Steady(r, UpdateProgress(r, stage))
  BY DEF UpdateProgress
<1>4. r.approved \/ ~Processing(r) => Steady(r, Requeue(r))
  BY DEF Requeue
<1>5. \A window \in {"none", "open"} : Steady(r, Fail(r, window))
  BY DEF Fail
<1>6. Publishable(r) => Steady(r, BeginPublishing(r))
  BY DEF Publishable, BeginPublishing
<1>7. Steady(r, Complete(r))
  BY DEF Complete
<1>8. Processing(r) => Steady(r, [r EXCEPT !.lease = "lapsed"])
  OBVIOUS
<1>9. Steady(r, RecoverCancelled(r))
  BY DEF RecoverCancelled
<1>10. Steady(r, RecoverFailed(r))
  BY DEF RecoverFailed
<1>11. Steady(r, RecoverRequeued(r))
  BY DEF RecoverRequeued
<1>12. Steady(r, ClearExpiredWorkWindow(r))
  BY DEF ClearExpiredWorkWindow
<1> HIDE DEF Steady, LeaseExpired, Processing, Row
<1> QED
  BY <1>1, <1>2, <1>3, <1>4, <1>5, <1>6, <1>7, <1>8, <1>9, <1>10, <1>11, <1>12

LEMMA PutSteady ==
  ASSUME row \in [Jobs -> Row], NEW j \in Jobs, NEW r, Put(j, r), Steady(row[j], r)
  PROVE  \A k \in Jobs : Steady(row[k], row'[k])
<1>1. row'[j] = r /\ \A k \in Jobs : k # j => row'[k] = row[k]
  BY DEF Put
<1>2. \A k \in Jobs : Steady(row[k], row[k])
  BY SteadyUpdates
<1> QED
  BY <1>1, <1>2

LEMMA RowSteady ==
  ASSUME TypeOK, row' = row
  PROVE  \A j \in Jobs : Steady(row[j], row'[j])
  BY SteadyUpdates DEF TypeOK

LEMMA FirmStep ==
  ASSUME TypeOK, FirmInv,
         \A j \in Jobs :
           /\ Committed(j)' => Committed(j)
           /\ Committed(j) => Steady(row[j], row'[j])
           /\ Restarting(j)' => Restarting(j)
  PROVE  FirmInv'
<1> SUFFICES ASSUME NEW j \in Jobs, Committed(j)' PROVE Firm(j)'
  BY DEF FirmInv, Firm
<1>1. Firm(j) /\ Committed(j) /\ Steady(row[j], row'[j])
  BY DEF FirmInv
<1> QED
  BY <1>1 DEF Firm, Steady

(* Steps of no run and no publication. *)
LEMMA SteadyStep ==
  ASSUME TypeOK, FirmInv, run' = run \/ run' = IdleRun,
         bg' = bg \/ bg' = [j \in Jobs |-> "none"], library' = library,
         \A j \in Jobs : Committed(j) => Steady(row[j], row'[j])
  PROVE  FirmInv'
<1>1. \A j \in Jobs : Committed(j)' => Committed(j)
  BY IdleEffect DEF Committed
<1>2. \A j \in Jobs : Restarting(j)' => Restarting(j)
  BY IdleEffect DEF Restarting, On
<1> QED
  BY <1>1, <1>2, FirmStep

LEMMA UserFirm ==
  ASSUME MaxRetries = 0, TypeOK, OutputsInv, FirmInv, NEW k \in Jobs,
         \/ Create(k) \/ Cancel(k) \/ ResyncJob(k) \/ RetryJob(k)
         \/ Renew(k) \/ LeaseLapse(k) \/ ExpireReviews(k) \/ WindowLapse(k)
  PROVE  FirmInv'
<1>0. row[k] \in Row /\ JobOK(k) /\ Firm(k)
  BY DEF TypeOK, OutputsInv, FirmInv
<1>1. UNCHANGED <<run, bg, library>>
  BY DEF Create, Cancel, ResyncJob, RetryJob, Renew, LeaseLapse, ExpireReviews, WindowLapse,
     memory, userVars
<1>2. CASE Renew(k) \/ LeaseLapse(k) \/ WindowLapse(k)
  <2>1. ASSUME Renew(k) PROVE \A j \in Jobs : Steady(row[j], row'[j])
    BY <1>0, <2>1, PutSteady, SteadyUpdates DEF TypeOK, Renew
  <2>2. ASSUME LeaseLapse(k) PROVE \A j \in Jobs : Steady(row[j], row'[j])
    BY <1>0, <2>2, PutSteady, SteadyUpdates DEF TypeOK, LeaseLapse
  <2>3. ASSUME WindowLapse(k) PROVE \A j \in Jobs : Steady(row[j], row'[j])
    BY <1>0, <2>3, PutSteady, SteadyUpdates DEF TypeOK, WindowLapse
  <2> QED
    BY <1>1, <1>2, <2>1, <2>2, <2>3, SteadyStep
<1>3. CASE Create(k) \/ Cancel(k) \/ ResyncJob(k) \/ RetryJob(k) \/ ExpireReviews(k)
  <2>1. ~Committed(k)
    <3>1. ~RetryJob(k)
      BY DEF RetryJob, TypeOK, Spent
    <3>2. CASE Cancel(k)
      BY <1>0, <3>2 DEF Cancel, Cancellable, Active, ActiveStatus, Firm
    <3>3. CASE Create(k) \/ ResyncJob(k) \/ ExpireReviews(k)
      BY <1>0, <3>3
      DEF Create, ResyncJob, ExpireReviews, ReviewOpen, JobOK, CommittedOK, Begun
    <3> QED
      BY <1>3, <3>1, <3>2, <3>3
  <2>2. ASSUME NEW j \in Jobs, j # k PROVE Steady(row[j], row'[j])
    <3>1. row'[j] = row[j]
      BY <1>3, <2>2 DEF Create, Cancel, ResyncJob, RetryJob, ExpireReviews, Put, TypeOK
    <3> QED
      BY <3>1, SteadyUpdates DEF TypeOK
  <2> QED
    BY <1>1, <2>1, <2>2, SteadyStep
<1> QED
  BY <1>2, <1>3

(* A user sends the output of a review to the book. *)
LEMMA PublishFirm ==
  ASSUME TypeOK, OutputsInv, FirmInv, NEW k \in Jobs, Publish(k)
  PROVE  FirmInv'
<1>1. run' = run /\ library' = library
  BY DEF Publish
<1>2. ASSUME NEW j \in Jobs, j # k PROVE Firm(j)'
  <2>1. row'[j] = row[j] /\ bg'[j] = bg[j] /\ Firm(j)
    BY <1>2 DEF Publish, Put, TypeOK, FirmInv
  <2> QED
    BY <1>1, <2>1 DEF Firm, Committed, Restarting, On
<1>3. Firm(k)'
  <2>1. row[k] \in Row /\ ReviewOpen(row[k]) /\ row'[k] = ClaimForPublishing(row[k])
    BY DEF Publish, Put, TypeOK
  <2>2. row'[k].approved /\ ~row'[k].cancel /\ row'[k].status = "processing"
    BY <2>1 DEF ReviewOpen, ClaimForPublishing, Row
  <2> QED
    BY <2>2 DEF Firm
<1> QED
  BY <1>2, <1>3 DEF FirmInv

LEMMA BgFirm ==
  ASSUME TypeOK, FirmInv, NEW k \in Jobs, BgStep(k)
  PROVE  FirmInv'
<1>0. row[k] \in Row
  BY DEF TypeOK
<1>1. run' = run
  BY DEF BgStep, BgValidate, BgPublish, BgComplete, BgFailure, BgRemove, bgFrame
<1>2. \A j \in Jobs : Steady(row[j], row'[j])
  <2>1. ASSUME BgComplete(k) \/ BgFailure(k) PROVE \A j \in Jobs : Steady(row[j], row'[j])
    BY <1>0, <2>1, RowSteady, PutSteady, SteadyUpdates DEF TypeOK, BgComplete, BgFailure
  <2> QED
    BY <2>1, RowSteady DEF BgStep, BgValidate, BgPublish, BgRemove
<1>3. \A j \in Jobs : Committed(j)' => Committed(j)
  <2>1. \A j \in Jobs : j # k => bg'[j] = bg[j] /\ library'[j] = library[j]
    BY DEF BgStep, BgValidate, BgPublish, BgComplete, BgFailure, BgRemove, BgGoto,
       AddToLibrary, TypeOK
  <2>2. CASE BgValidate(k) \/ BgPublish(k) \/ BgComplete(k)
    <3>1. Committed(k)
      BY <2>2 DEF BgValidate, BgPublish, BgComplete, Committed
    <3> QED
      BY <1>1, <2>1, <3>1 DEF Committed
  <2>3. CASE BgFailure(k) \/ BgRemove(k)
    <3>1. library' = library /\ bg'[k] = "none"
      BY <2>3 DEF BgFailure, BgRemove, BgGoto, TypeOK
    <3> QED
      BY <1>1, <2>1, <3>1 DEF Committed
  <2> QED
    BY <2>2, <2>3 DEF BgStep
<1> QED
  BY <1>1, <1>2, <1>3, FirmStep DEF Restarting, On

LEMMA ClaimFirm ==
  ASSUME TypeOK, FirmInv, NEW k \in Jobs, Claim(k), UNCHANGED runFrame
  PROVE  FirmInv'
<1>1. UNCHANGED <<bg, library>> /\ run.pc = "idle"
  BY DEF runFrame, Claim
<1>2. ASSUME NEW j \in Jobs, j # k PROVE Firm(j)'
  <2>1. row'[j] = row[j] /\ Firm(j)
    BY <1>2, ClaimCopies DEF FirmInv
  <2> QED
    BY <1>1, <1>2, <2>1, ClaimCopies DEF Firm, Committed, Restarting, On
<1>3. Firm(k)'
  <2>1. Firm(k) /\ row[k].status = "queued"
    BY DEF FirmInv, Claim, Claimable
  <2>2. Committed(k)' => Committed(k) /\ row[k].approved
    BY <1>1, <2>1, ClaimCopies DEF Firm, Committed, Processing
  <2>3. row[k].cancel = row'[k].cancel
    BY DEF Claim, Put, ClaimQueued, TypeOK, Row
  <2> QED
    BY <2>1, <2>2, <2>3, ClaimCopies DEF Firm
<1> QED
  BY <1>2, <1>3 DEF FirmInv

LEMMA TickFirm ==
  ASSUME TypeOK, FirmInv, TickUnwanted \/ \E k \in Jobs : Tick(k) \/ TickAdopt(k)
  PROVE  FirmInv'
<1>1. CASE \E k \in Jobs : Claim(k)
  BY <1>1, ClaimFirm DEF TickUnwanted, Tick, TickAdopt
<1>2. CASE row' = row /\ run' = run
  BY <1>2, RowSteady, SteadyStep DEF TickUnwanted, Tick, TickAdopt, runFrame
<1> QED
  BY <1>1, <1>2 DEF TickUnwanted, Tick, TickAdopt

-----------------------------------------------------------------------------
(* The steps of a run. *)

RunFirm == \A j \in Jobs : Restarting(j)' => Restarting(j)

LEMMA RaiseFirm ==
  ASSUME NEW e, Raise(e), run.pc # "idle", run.pc \in Early \/ e # "lost"
  PROVE  RunFirm
<1>1. run'.pc = "failure" /\ run'.job = run.job /\ run'.error = e
  BY DEF Raise, IdleRun
<1> QED
  BY <1>1 DEF RunFirm, Restarting, On, Early

LEMMA EarlyFirm ==
  ASSUME run'.job = run.job, run.pc \in Early
  PROVE  RunFirm
  BY DEF RunFirm, Restarting, On, Early

(* The steps of a run before it comes to its output find the row approved,  *)
(* if the job is committed at all.                                          *)
LEMMA RunEarlyFirm ==
  ASSUME TypeOK, FirmInv, RunPrepare \/ RunSubmit \/ RunPoll \/ RunCancel \/ RunValidate
  PROVE  FirmInv'
<1>0. run.pc \in Early /\ run.job \in Jobs /\ row[run.job] \in Row /\ RunTyped(run)
  BY RunRow DEF TypeOK, Early, RunPrepare, RunSubmit, RunPoll, RunCancel, RunValidate
<1>1. UNCHANGED <<bg, library>>
  BY DEF RunPrepare, RunSubmit, RunPoll, RunCancel, RunValidate, runFrame
<1>2. run'.job = run.job /\ run'.pc \notin {"publish", "complete"}
  <2>1. CASE \E pc \in {"submit", "poll", "cancel"} : Goto(pc)
    BY <1>0, <2>1, GotoEffect
  <2>2. CASE \E e : Raise(e)
    BY <2>2, RaiseEffect
  <2>3. CASE \/ run' = [run EXCEPT !.pc = "submit", !.resubmits = @ + 1]
             \/ run' = [run EXCEPT !.pc = "validate", !.resubmits = 0]
    BY <1>0, <2>3, PollEffect
  <2>4. CASE RunValidate /\ ~Raise("retryable")
    <3> DEFINE due == <<run.job, work[run.job]>> \in ReviewDue /\ ~run.approved
    <3>1. run' = [run EXCEPT !.pc = "finish", !.review = due]
      BY <2>4 DEF RunValidate
    <3> HIDE DEF due
    <3> QED
      BY <1>0, <3>1, PollEffect
  <2> QED
    BY <2>1, <2>2, <2>3, <2>4 DEF RunPrepare, RunSubmit, RunPoll, RunCancel, RunValidate
<1>3. RunFirm
  BY <1>0, <1>2, EarlyFirm
<1>4. \A j \in Jobs : Committed(j)' => Committed(j)
  BY <1>1, <1>2 DEF Committed
<1>5. ASSUME NEW j \in Jobs, Committed(j) PROVE Steady(row[j], row'[j])
  <2>1. CASE j # run.job \/ row' = row
    <3>1. row'[j] = row[j]
      BY <1>0, <2>1 DEF RunPrepare, RunSubmit, RunPoll, RunCancel, RunValidate, Put, TypeOK
    <3> QED
      BY <3>1, SteadyUpdates DEF TypeOK
  <2>2. CASE j = run.job /\ row' # row
    <3>1. \E stage \in {"working", "validating"} : Put(j, UpdateProgress(row[j], stage))
      BY <2>2 DEF RunPrepare, RunSubmit, RunPoll, RunCancel, RunValidate
    <3>2. row[j].approved \/ ~Processing(row[j])
      <4>1. run.pc # "idle" /\ Firm(j)
        BY <1>0 DEF Early, FirmInv
      <4> QED
        BY <1>0, <1>5, <2>2, <4>1 DEF Firm, Restarting, On
    <3> QED
      BY <1>0, <2>2, <3>1, <3>2, PutSteady, SteadyUpdates DEF TypeOK
  <2> QED
    BY <2>1, <2>2
<1> QED
  BY <1>3, <1>4, <1>5, FirmStep DEF RunFirm

LEMMA RunFinishFirm ==
  ASSUME TypeOK, OutputsInv, FirmInv, RunFinish
  PROVE  FirmInv'
<1>0. run.pc \in Early /\ run.job \in Jobs /\ row[run.job] \in Row /\ RunTyped(run)
  BY RunRow DEF TypeOK, Early, RunFinish
<1>1. UNCHANGED <<bg, library>>
  BY DEF RunFinish, runFrame
<1>2. CASE Raise("cancelled") /\ row' = row
  <2>1. \A j \in Jobs : Committed(j)' => Committed(j)
    BY <1>1, <1>2, RaiseEffect DEF Committed
  <2>2. RunFirm
    BY <1>0, <1>2, RaiseFirm DEF Early
  <2> QED
    BY <1>2, <2>1, <2>2, RowSteady, FirmStep DEF RunFirm
<1>3. CASE /\ Publishable(row[run.job]) /\ run.review
           /\ Put(run.job, MarkAwaitingReview(row[run.job])) /\ run' = IdleRun
  <2>1. ~Committed(run.job)
    BY <1>0, <1>3
    DEF OutputsInv, JobOK, CopyOK, CommittedOK, On, Early, RunFinish, Publishable
  <2>2. ASSUME NEW j \in Jobs, j # run.job PROVE Steady(row[j], row'[j])
    <3>1. row'[j] = row[j]
      BY <1>3, <2>2 DEF Put, TypeOK
    <3> QED
      BY <3>1, SteadyUpdates DEF TypeOK
  <2> QED
    BY <1>1, <1>3, <2>1, <2>2, SteadyStep
<1>4. CASE /\ Publishable(row[run.job])
           /\ Put(run.job, BeginPublishing(row[run.job])) /\ Goto("publish")
  <2>1. run'.pc = "publish" /\ run'.job = run.job
    BY <1>0, <1>4, GotoEffect
  <2>2. ASSUME NEW j \in Jobs, j # run.job PROVE Firm(j)'
    <3>1. row'[j] = row[j] /\ Firm(j)
      BY <1>4, <2>2 DEF Put, TypeOK, FirmInv
    <3> QED
      BY <1>1, <2>1, <2>2, <3>1 DEF Firm, Committed, Restarting, On
  <2>3. ASSUME NEW j \in Jobs, j = run.job PROVE Firm(j)'
    <3>1. row'[j] = BeginPublishing(row[j]) /\ row[j] \in Row
      BY <1>0, <1>4, <2>3 DEF Put, TypeOK
    <3>2. ~row'[j].cancel /\ row'[j].status = "processing" /\ row'[j].stage = "publishing"
      BY <1>4, <2>3, <3>1 DEF BeginPublishing, Publishable, Processing, Row
    <3> QED
      BY <2>1, <3>2 DEF Firm, Restarting, Processing, Early
  <2> QED
    BY <2>2, <2>3 DEF FirmInv
<1> QED
  BY <1>2, <1>3, <1>4 DEF RunFinish

LEMMA RunEndsFirm ==
  ASSUME TypeOK, OutputsInv, FirmInv,
         RunPublish \/ RunComplete \/ RunFailure \/ RunSettle \/ RunRemove
  PROVE  FirmInv'
<1>0. run.pc # "idle" /\ run.job \in Jobs /\ row[run.job] \in Row /\ RunTyped(run)
  BY RunRow DEF TypeOK, RunPublish, RunComplete, RunFailure, RunSettle, RunRemove
<1>1. bg' = bg
  BY DEF RunPublish, RunComplete, RunFailure, RunSettle, RunRemove, runFrame
<1>2. CASE RunPublish \/ RunComplete
  <2>1. RunFirm /\ run'.job = run.job
    <3>1. CASE Raise("retryable")
      BY <1>0, <3>1, RaiseEffect, RaiseFirm
    <3>2. CASE Goto("complete") \/ Goto("remove")
      BY <1>0, <3>2, GotoEffect DEF RunFirm, Restarting, Early
    <3> QED
      BY <1>2, <3>1, <3>2 DEF RunPublish, RunComplete
  <2>2. \A j \in Jobs : Committed(j)' => Committed(j)
    <3>1. Committed(run.job)
      BY <1>2 DEF RunPublish, RunComplete, Committed
    <3>2. \A j \in Jobs : j # run.job => library'[j] = library[j]
      BY <1>2 DEF RunPublish, RunComplete, AddToLibrary, TypeOK, runFrame
    <3> QED
      BY <1>1, <2>1, <3>1, <3>2 DEF Committed
  <2>3. \A j \in Jobs : Steady(row[j], row'[j])
    BY <1>0, <1>2, RowSteady, PutSteady, SteadyUpdates DEF TypeOK, RunPublish, RunComplete
  <2> QED
    BY <2>1, <2>2, <2>3, FirmStep DEF RunFirm
<1>3. CASE RunFailure
  <2> DEFINE r(b) == [run EXCEPT !.pc = "settle", !.cancelled = b]
  <2>1. \E b : run' = r(b)
    BY <1>3 DEF RunFailure
  <2>2. \A b : r(b).pc = "settle" /\ r(b).job = run.job /\ r(b).error = run.error
    BY <1>0 DEF RunTyped, Run
  <2> HIDE DEF r
  <2>3. row' = row /\ library' = library /\ run.pc = "failure"
    BY <1>3 DEF RunFailure, runFrame
  <2>4. \A j \in Jobs : Committed(j)' => Committed(j)
    BY <1>1, <2>1, <2>2, <2>3 DEF Committed
  <2>5. RunFirm
    BY <2>1, <2>2, <2>3 DEF RunFirm, Restarting, On, Early
  <2> QED
    BY <2>3, <2>4, <2>5, RowSteady, FirmStep DEF RunFirm
<1>4. CASE RunSettle
  <2>1. library' = library
    BY <1>4 DEF RunSettle, runFrame
  <2>2. \A j \in Jobs : Committed(j)' => Committed(j)
    BY <1>0, <1>1, <1>4, <2>1, GotoEffect, IdleEffect DEF RunSettle, Committed
  <2>3. RunFirm
    BY <1>0, <1>4, GotoEffect, IdleEffect DEF RunSettle, RunFirm, Restarting, On, Early
  <2>4. ASSUME NEW j \in Jobs, Committed(j) PROVE Steady(row[j], row'[j])
    <3>1. CASE row' = row
      BY <3>1, RowSteady
    <3>2. CASE \E w \in {"none", "open"} : Put(run.job, Fail(row[run.job], w))
      BY <1>0, <3>2, PutSteady, SteadyUpdates DEF TypeOK
    <3>3. CASE run.error = "lost" /\ Put(run.job, Requeue(row[run.job]))
      <4>1. CASE j # run.job
        <5>1. row'[j] = row[j]
          BY <3>3, <4>1 DEF Put, TypeOK
        <5> QED
          BY <5>1, SteadyUpdates DEF TypeOK
      <4>2. CASE j = run.job
        <5>1. row[j].approved \/ ~Processing(row[j])
          BY <1>0, <1>4, <2>4, <3>3, <4>2 DEF FirmInv, Firm, Restarting, On, RunSettle
        <5> QED
          BY <1>0, <3>3, <4>2, <5>1, PutSteady, SteadyUpdates DEF TypeOK
      <4> QED
        BY <4>1, <4>2
    <3> QED
      BY <1>4, <3>1, <3>2, <3>3 DEF RunSettle
  <2> QED
    BY <2>2, <2>3, <2>4, FirmStep DEF RunFirm
<1>5. CASE RunRemove
  BY <1>1, <1>5, RowSteady, SteadyStep DEF RunRemove, runFrame
<1> QED
  BY <1>2, <1>3, <1>4, <1>5

-----------------------------------------------------------------------------
LEMMA RestFirm ==
  ASSUME TypeOK, FirmInv,
         \/ \E k \in Jobs : RemoveFolder(k) \/ TellWorker(k) \/ WorkerFinish(k)
         \/ RecoveryStep \/ SweepStep \/ RefreshHealth
         \/ WorkerShutdown \/ WorkerExit \/ WorkerCrash \/ ServerCrash \/ UNCHANGED vars
  PROVE  FirmInv'
<1>0. \A j \in Jobs : row[j] \in Row
  BY DEF TypeOK
<1>1. /\ run' = run \/ run' = IdleRun
      /\ bg' = bg \/ bg' = [j \in Jobs |-> "none"]
      /\ library' = library
  BY DEF RemoveFolder, TellWorker, WorkerFinish, RecoveryStep, RecoverStart, RecoverFail,
     RecoverRequeue, recoverFrame, SweepStep, SweepKeep, SweepList, SweepRemove, sweepFrame,
     RefreshHealth, WorkerShutdown, WorkerExit, WorkerCrash, ServerCrash, workerFrame,
     memory, vars
<1>2. \A j \in Jobs : Steady(row[j], row'[j])
  <2>1. ASSUME RecoverStart PROVE \A j \in Jobs : Steady(row[j], row'[j])
    BY <1>0, <2>1, SteadyUpdates DEF RecoverStart
  <2>2. ASSUME RecoverFail PROVE \A j \in Jobs : Steady(row[j], row'[j])
    BY <1>0, <2>2, SteadyUpdates DEF RecoverFail
  <2>3. ASSUME RecoverRequeue PROVE \A j \in Jobs : Steady(row[j], row'[j])
    BY <1>0, <2>3, SteadyUpdates DEF RecoverRequeue
  <2>4. ~RecoveryStep => row' = row
    BY DEF RemoveFolder, TellWorker, WorkerFinish, SweepStep, SweepKeep, SweepList,
       SweepRemove, sweepFrame, RefreshHealth, WorkerShutdown, WorkerExit, WorkerCrash,
       ServerCrash, workerFrame, vars
  <2> QED
    BY <2>1, <2>2, <2>3, <2>4, RowSteady DEF RecoveryStep
<1> QED
  BY <1>1, <1>2, SteadyStep

LEMMA InitFirm == Init => FirmInv
<1> SUFFICES ASSUME Init, NEW j \in Jobs PROVE ~Committed(j)
  BY DEF FirmInv, Firm
<1> QED
  BY IdleEffect DEF Init, Committed

LEMMA NextFirm ==
  ASSUME MaxRetries = 0
  PROVE  TypeOK /\ OutputsInv /\ FirmInv /\ [Next]_vars => FirmInv'
<1> SUFFICES ASSUME TypeOK, OutputsInv, FirmInv, [Next]_vars PROVE FirmInv'
  OBVIOUS
<1>1. ASSUME NEW k \in Jobs, UserStep(k) PROVE FirmInv'
  BY <1>1, UserFirm, PublishFirm DEF UserStep
<1>2. ASSUME NEW k \in Jobs,
             Renew(k) \/ LeaseLapse(k) \/ ExpireReviews(k) \/ WindowLapse(k)
      PROVE  FirmInv'
  BY <1>2, UserFirm
<1>3. ASSUME NEW k \in Jobs, BgStep(k) PROVE FirmInv'
  BY <1>3, BgFirm
<1>4. ASSUME TickUnwanted \/ \E k \in Jobs : Tick(k) \/ TickAdopt(k) PROVE FirmInv'
  BY <1>4, TickFirm
<1>5. ASSUME RunStep PROVE FirmInv'
  BY <1>5, RunEarlyFirm, RunFinishFirm, RunEndsFirm DEF RunStep
<1>6. ASSUME \/ \E k \in Jobs : RemoveFolder(k) \/ TellWorker(k) \/ WorkerFinish(k)
             \/ RecoveryStep \/ SweepStep \/ RefreshHealth
             \/ WorkerShutdown \/ WorkerExit \/ WorkerCrash \/ ServerCrash
             \/ UNCHANGED vars
      PROVE  FirmInv'
  BY <1>6, RestFirm
<1> QED
  BY <1>1, <1>2, <1>3, <1>4, <1>5, <1>6 DEF Next

(* A job whose output is in the book, or on its way there, does not end as  *)
(* cancelled, through restarts, lapsed leases and recovery.  Without the    *)
(* user's Retry: a retried job can be cancelled although its first try      *)
(* added the file (README.md).                                              *)
THEOREM PublishedNotCancelledCorrect ==
  ASSUME MaxRetries = 0
  PROVE  Spec => []PublishedNotCancelled
<1>1. FirmInv => PublishedNotCancelled
  BY DEF FirmInv, Firm, Committed, PublishedNotCancelled
<1>2. Spec => []FirmInv
  <2>1. TypeOK /\ OutputsInv /\ FirmInv /\ [Next]_vars => FirmInv'
    BY NextFirm
  <2> QED
    BY <2>1, InitFirm, OutputsCorrect, TypeCorrect, PTL DEF Spec
<1> QED
  BY <1>1, <1>2, PTL

-----------------------------------------------------------------------------
(* While no lease lapses under a live run. *)

LEMMA NextOwnership ==
  ASSUME MaxStalls = 0
  PROVE  TypeOK /\ Ownership /\ [Next]_vars => Ownership'
<1> SUFFICES ASSUME TypeOK, Ownership, [Next]_vars PROVE Ownership'
  OBVIOUS
<1>1. ASSUME NEW j \in Jobs, Create(j) PROVE Ownership'
  BY <1>1 DEF TypeOK, Row, RunTyped, Run, Create, Put, NewRow, NoRow, Ownership,
     Running, BgRunning, Processing, memory
<1>2. ASSUME NEW j \in Jobs, Cancel(j) PROVE Ownership'
  BY <1>2 DEF TypeOK, Row, RunTyped, Run, Cancel, Put, Cancellable,
     RequestCancellation, Ownership, Running, BgRunning, Processing, memory
<1>3. ASSUME NEW j \in Jobs, Publish(j) PROVE Ownership'
  BY <1>3 DEF TypeOK, Row, RunTyped, Run, Publish, Put, ReviewOpen,
     ClaimForPublishing, Ownership, Running, BgRunning, Processing, memory
<1>4. ASSUME NEW j \in Jobs, ResyncJob(j) PROVE Ownership'
  BY <1>4 DEF TypeOK, Row, RunTyped, Run, ResyncJob, Put, ReviewOpen, Resync,
     Ownership, Running, BgRunning, Processing, memory
<1>5. ASSUME NEW j \in Jobs, RetryJob(j) PROVE Ownership'
  BY <1>5 DEF TypeOK, Row, RunTyped, Run, RetryJob, Put, Retryable, Retry,
     Ownership, Running, BgRunning, Processing, memory
<1>6. ASSUME NEW j \in Jobs, Tick(j) PROVE Ownership'
  BY <1>6 DEF TypeOK, Row, RunTyped, Run, Tick, Put, Claim, Claimable,
     ClaimQueued, runFrame, Ownership, Running, BgRunning, Processing, memory
<1>7. ASSUME NEW j \in Jobs, TickAdopt(j) PROVE Ownership'
  BY <1>7 DEF TypeOK, Row, RunTyped, Run, TickAdopt, Put, Claim, Claimable,
     ClaimQueued, runFrame, Ownership, Running, BgRunning, Processing, memory
<1>8. ASSUME NEW j \in Jobs, BgValidate(j) PROVE Ownership'
  BY <1>8 DEF TypeOK, Row, RunTyped, Run, BgValidate, BgGoto, bgFrame,
     Ownership, Running, BgRunning, Processing, memory
<1>9. ASSUME NEW j \in Jobs, BgPublish(j) PROVE Ownership'
  BY <1>9 DEF TypeOK, Row, RunTyped, Run, BgPublish, BgGoto, bgFrame, Ownership,
     Running, BgRunning, Processing, memory
<1>10. ASSUME NEW j \in Jobs, BgComplete(j) PROVE Ownership'
  BY <1>10 DEF TypeOK, Row, RunTyped, Run, BgComplete, Put, BgGoto, bgFrame,
     Complete, Ownership, Running, BgRunning, Processing, memory
<1>11. ASSUME NEW j \in Jobs, BgFailure(j) PROVE Ownership'
  BY <1>11 DEF TypeOK, Row, RunTyped, Run, BgFailure, Put, BgGoto, bgFrame,
     Fail, Ownership, Running, BgRunning, Processing, memory
<1>12. ASSUME NEW j \in Jobs, BgRemove(j) PROVE Ownership'
  BY <1>12 DEF TypeOK, Row, RunTyped, Run, BgRemove, BgGoto, bgFrame, Ownership,
     Running, BgRunning, Processing, memory
<1>13. ASSUME NEW j \in Jobs, Renew(j) PROVE Ownership'
  BY <1>13 DEF TypeOK, Row, RunTyped, Run, Renew, Put, Heartbeat, Beating,
     Ownership, Running, BgRunning, Processing, memory
<1>14. ASSUME NEW j \in Jobs, LeaseLapse(j) PROVE Ownership'
  BY <1>14, RunOnJob DEF Ownership, Running, BgRunning, Processing, TypeOK, Row,
     LeaseLapse, Owned, Put, Spent
<1>15. ASSUME NEW j \in Jobs, RemoveFolder(j) PROVE Ownership'
  BY <1>15 DEF TypeOK, Row, RunTyped, Run, RemoveFolder, Ownership, Running,
     BgRunning, Processing, memory
<1>16. ASSUME NEW j \in Jobs, TellWorker(j) PROVE Ownership'
  BY <1>16 DEF TypeOK, Row, RunTyped, Run, TellWorker, Ownership, Running,
     BgRunning, Processing, memory
<1>17. ASSUME NEW j \in Jobs, ExpireReviews(j) PROVE Ownership'
  BY <1>17 DEF TypeOK, Row, RunTyped, Run, ExpireReviews, Put, ExpireReview,
     Ownership, Running, BgRunning, Processing, memory
<1>18. ASSUME NEW j \in Jobs, WindowLapse(j) PROVE Ownership'
  BY <1>18 DEF TypeOK, Row, RunTyped, Run, WindowLapse, Put, Retryable,
     ClearExpiredWorkWindow, Ownership, Running, BgRunning, Processing, memory
<1>19. ASSUME NEW j \in Jobs, WorkerFinish(j) PROVE Ownership'
  BY <1>19 DEF TypeOK, Row, RunTyped, Run, WorkerFinish, workerFrame, Ownership,
     Running, BgRunning, Processing, memory
<1>20. CASE RefreshHealth
  BY <1>20 DEF TypeOK, Row, RunTyped, Run, RefreshHealth, Ownership, Running,
     BgRunning, Processing, memory
<1>21. CASE TickUnwanted
  <2>1. CASE UNCHANGED <<row, run>>
    BY <1>21, <2>1 DEF TickUnwanted, runFrame, Ownership, Running, BgRunning
  <2>2. CASE \E k \in Jobs : Claim(k)
    <3>1. PICK k \in Jobs : Claim(k)
      BY <2>2
    <3>2. bg' = bg
      BY <1>21 DEF TickUnwanted, runFrame
    <3> QED
      BY <3>1, <3>2, ClaimEffect DEF Ownership, Running, BgRunning, Processing
  <2> QED
    BY <1>21, <2>1, <2>2 DEF TickUnwanted
<1>22. CASE RunPrepare
  BY <1>22, GotoEffect, RaiseEffect, IdleEffect, RunOnJob DEF Ownership,
     Running, BgRunning, Processing, TypeOK, Row, RunPrepare, Put,
     UpdateProgress, runFrame
<1>23. CASE RunSubmit
  BY <1>23, GotoEffect, RaiseEffect, IdleEffect, RunOnJob DEF Ownership,
     Running, BgRunning, Processing, TypeOK, Row, RunSubmit, Put, runFrame
<1>24. CASE RunPoll
  <2>1. run.job \in Jobs /\ RunTyped(run) /\ Running(run.job)
    BY <1>24, RunOnJob DEF RunPoll, Running, TypeOK
  <2>2. run'.job = run.job /\ run'.pc \in {"cancel", "failure", "submit", "validate"}
    BY <1>24, <2>1, GotoEffect, RaiseEffect, PollEffect DEF RunPoll
  <2>3. row' = row \/ Put(run.job, UpdateProgress(row[run.job], "working"))
    BY <1>24 DEF RunPoll
  <2>4. bg' = bg
    BY <1>24 DEF RunPoll, runFrame
  <2>5. CASE row' = row
    BY <2>1, <2>2, <2>4, <2>5 DEF Ownership, Running, BgRunning
  <2>6. CASE Put(run.job, UpdateProgress(row[run.job], "working"))
    BY <2>1, <2>2, <2>4, <2>6 DEF UpdateProgress, Put, Ownership, Running, BgRunning,
       Processing, TypeOK, Row
  <2> QED
    BY <2>3, <2>5, <2>6
<1>25. CASE RunCancel
  BY <1>25, GotoEffect, RaiseEffect, IdleEffect, RunOnJob DEF Ownership,
     Running, BgRunning, Processing, TypeOK, Row, RunCancel, Put, runFrame
<1>26. CASE RunValidate
  <2>1. run.job \in Jobs /\ RunTyped(run) /\ Running(run.job)
    BY <1>26, RunOnJob DEF RunValidate, Running, TypeOK
  <2>2. run'.job = run.job /\ run'.pc \in {"finish", "failure"}
    <3> DEFINE due == <<run.job, work[run.job]>> \in ReviewDue /\ ~run.approved
    <3>1. \/ run' = [run EXCEPT !.pc = "finish", !.review = due]
          \/ Raise("retryable")
      BY <1>26 DEF RunValidate
    <3> HIDE DEF due
    <3>2. LET r == [run EXCEPT !.pc = "finish", !.review = due]
          IN r.job = run.job /\ r.pc = "finish"
      BY <2>1 DEF RunTyped, Run
    <3> QED
      BY <3>1, <3>2, RaiseEffect
  <2>3. Put(run.job, UpdateProgress(row[run.job], "validating"))
    BY <1>26 DEF RunValidate
  <2>4. bg' = bg
    BY <1>26 DEF RunValidate, runFrame
  <2> QED
    BY <2>1, <2>2, <2>3, <2>4 DEF UpdateProgress, Put, Ownership, Running, BgRunning,
       Processing, TypeOK, Row
<1>27. CASE RunFinish
  <2>1. run.job \in Jobs /\ RunTyped(run) /\ Running(run.job) /\ bg' = bg
    BY <1>27, RunOnJob DEF RunFinish, Running, TypeOK, runFrame
  <2>2. CASE Put(run.job, MarkAwaitingReview(row[run.job])) /\ run' = IdleRun
    BY <2>1, <2>2, IdleEffect DEF MarkAwaitingReview, Put, Ownership, Running,
       BgRunning, Processing, TypeOK, Row
  <2>3. CASE /\ Publishable(row[run.job]) /\ Goto("publish")
             /\ Put(run.job, BeginPublishing(row[run.job]))
    BY <2>1, <2>3, GotoEffect DEF BeginPublishing, Publishable, Put, Ownership,
       Running, BgRunning, Processing, TypeOK, Row
  <2>4. CASE Raise("cancelled") /\ row' = row
    BY <2>1, <2>4, RaiseEffect DEF Ownership, Running, BgRunning
  <2> QED
    BY <1>27, <2>2, <2>3, <2>4 DEF RunFinish
<1>28. CASE RunPublish
  BY <1>28, GotoEffect, RaiseEffect, IdleEffect, RunOnJob DEF Ownership,
     Running, BgRunning, Processing, TypeOK, Row, RunPublish, Put
<1>29. CASE RunComplete
  BY <1>29, GotoEffect, RaiseEffect, IdleEffect, RunOnJob DEF Ownership,
     Running, BgRunning, Processing, TypeOK, Row, RunComplete, Put, Complete,
     runFrame
<1>30. CASE RunFailure
  BY <1>30 DEF TypeOK, Row, RunTyped, Run, RunFailure, runFrame, Ownership,
     Running, BgRunning, Processing, memory
<1>31. CASE RunSettle
  BY <1>31, GotoEffect, RaiseEffect, IdleEffect, RunOnJob DEF Ownership,
     Running, BgRunning, Processing, TypeOK, Row, RunSettle, Put, Requeue, Fail,
     runFrame
<1>32. CASE RunRemove
  BY <1>32, GotoEffect, RaiseEffect, IdleEffect, RunOnJob DEF Ownership,
     Running, BgRunning, Processing, TypeOK, Row, RunRemove, Put, runFrame
<1>33. CASE RecoverStart
  BY <1>33 DEF TypeOK, Row, RunTyped, Run, RecoverStart, Put, recoverFrame,
     LeaseExpired, RecoverCancelled, Ownership, Running, BgRunning, Processing,
     memory
<1>34. CASE RecoverFail
  BY <1>34 DEF TypeOK, Row, RunTyped, Run, RecoverFail, Put, recoverFrame,
     LeaseExpired, RecoverFailed, Ownership, Running, BgRunning, Processing,
     memory
<1>35. CASE RecoverRequeue
  BY <1>35 DEF TypeOK, Row, RunTyped, Run, RecoverRequeue, Put, recoverFrame,
     LeaseExpired, RecoverRequeued, Ownership, Running, BgRunning, Processing,
     memory
<1>36. CASE SweepKeep
  BY <1>36 DEF TypeOK, Row, RunTyped, Run, SweepKeep, sweepFrame, Ownership,
     Running, BgRunning, Processing, memory
<1>37. CASE SweepList
  BY <1>37 DEF TypeOK, Row, RunTyped, Run, SweepList, sweepFrame, Ownership,
     Running, BgRunning, Processing, memory
<1>38. CASE SweepRemove
  BY <1>38 DEF TypeOK, Row, RunTyped, Run, SweepRemove, sweepFrame, Ownership,
     Running, BgRunning, Processing, memory
<1>39. CASE WorkerShutdown
  BY <1>39 DEF TypeOK, Row, RunTyped, Run, WorkerShutdown, workerFrame,
     Ownership, Running, BgRunning, Processing, memory
<1>40. CASE WorkerExit
  BY <1>40 DEF TypeOK, Row, RunTyped, Run, WorkerExit, workerFrame, Ownership,
     Running, BgRunning, Processing, memory
<1>41. CASE WorkerCrash
  BY <1>41 DEF TypeOK, Row, RunTyped, Run, WorkerCrash, workerFrame, Ownership,
     Running, BgRunning, Processing, memory
<1>42. CASE ServerCrash
  BY <1>42, IdleEffect DEF Ownership, Running, BgRunning, Processing, TypeOK,
     Row, ServerCrash
<1>43. CASE UNCHANGED vars
  BY <1>43 DEF Ownership, Running, BgRunning, Processing, vars, memory
<1> QED
  BY <1>1, <1>2, <1>3, <1>4, <1>5, <1>6, <1>7, <1>8, <1>9, <1>10, <1>11, <1>12,
     <1>13, <1>14, <1>15, <1>16, <1>17, <1>18, <1>19, <1>20, <1>21, <1>22,
     <1>23, <1>24, <1>25, <1>26, <1>27, <1>28, <1>29, <1>30, <1>31, <1>32,
     <1>33, <1>34, <1>35, <1>36, <1>37, <1>38, <1>39, <1>40, <1>41, <1>42, <1>43
  DEF Next, UserStep, BgStep, RunStep, RecoveryStep, SweepStep

(* While no lease lapses under a live run, a row belongs to the run or the  *)
(* publication that is on it.  With a stall it need not: recovery then      *)
(* takes the row from a run that goes on.                                  *)
THEOREM OwnershipCorrect ==
  ASSUME MaxStalls = 0
  PROVE  Spec => []Ownership
<1>1. Init => Ownership
  BY IdleEffect DEF Init, Ownership, Running, BgRunning
<1>2. TypeOK /\ Ownership /\ [Next]_vars => Ownership'
  BY NextOwnership
<1> QED
  BY <1>1, <1>2, TypeCorrect, PTL DEF Spec

(* Only the two publications write to the library. *)
LEMMA LibraryWriters ==
  ASSUME [Next]_vars, NEW j \in Jobs, library'[j] # library[j], TypeOK
  PROVE  (RunPublish /\ j = run.job) \/ BgPublish(j)
<1>1. CASE RunPublish
  <2>1. run.job \in Jobs
    BY <1>1, RunOnJob DEF RunPublish
  <2> QED
    BY <1>1, <2>1 DEF RunPublish, AddToLibrary, TypeOK
<1>2. ASSUME NEW k \in Jobs, BgPublish(k) PROVE BgPublish(j)
  BY <1>2 DEF BgPublish, AddToLibrary, TypeOK
<1>3. ASSUME NEW k \in Jobs, UserStep(k) PROVE UNCHANGED library
  BY <1>3 DEF UserStep, Create, Cancel, Publish, ResyncJob, RetryJob, userVars
<1>4. ASSUME NEW k \in Jobs, Tick(k) \/ TickAdopt(k) PROVE UNCHANGED library
  BY <1>4 DEF Tick, TickAdopt, runFrame
<1>5. ASSUME NEW k \in Jobs, BgStep(k) PROVE UNCHANGED library \/ BgPublish(k)
  BY <1>5 DEF BgStep, BgValidate, BgComplete, BgFailure, BgRemove
<1>6. ASSUME NEW k \in Jobs,
             Renew(k) \/ LeaseLapse(k) \/ RemoveFolder(k) \/ TellWorker(k)
             \/ ExpireReviews(k) \/ WindowLapse(k) \/ WorkerFinish(k)
      PROVE  UNCHANGED library
  BY <1>6 DEF Renew, LeaseLapse, RemoveFolder, TellWorker, ExpireReviews, WindowLapse,
     WorkerFinish, workerFrame
<1>7. RunStep => UNCHANGED library \/ RunPublish
  BY DEF RunStep, RunPrepare, RunSubmit, RunPoll, RunCancel, RunValidate, RunFinish,
     RunComplete, RunFailure, RunSettle, RunRemove, runFrame
<1>8. RecoveryStep \/ SweepStep => UNCHANGED library
  BY DEF RecoveryStep, RecoverStart, RecoverFail, RecoverRequeue, recoverFrame,
     SweepStep, SweepKeep, SweepList, SweepRemove, sweepFrame
<1>9. RefreshHealth \/ TickUnwanted \/ WorkerShutdown \/ WorkerExit \/ WorkerCrash
      \/ ServerCrash => UNCHANGED library
  BY DEF RefreshHealth, TickUnwanted, runFrame, WorkerShutdown, WorkerExit, WorkerCrash,
     ServerCrash, workerFrame
<1>10. UNCHANGED vars => UNCHANGED library
  BY DEF vars
<1> QED
  BY <1>1, <1>2, <1>3, <1>4, <1>5, <1>6, <1>7, <1>8, <1>9, <1>10 DEF Next

(* No file is added for a job whose row says cancel. *)
THEOREM CancelRespected ==
  ASSUME MaxStalls = 0
  PROVE  Spec => NoPublishAfterCancel
<1> DEFINE Respected == \A j \in Jobs : library'[j] # library[j] => ~row[j].cancel
<1>1. TypeOK /\ Ownership /\ [Next]_vars => Respected
  <2> SUFFICES ASSUME TypeOK, Ownership, [Next]_vars, NEW j \in Jobs,
                      library'[j] # library[j]
               PROVE  ~row[j].cancel
    OBVIOUS
  <2>1. CASE RunPublish /\ j = run.job
    BY <2>1 DEF RunPublish, Ownership, Running
  <2>2. CASE BgPublish(j)
    BY <2>2 DEF BgPublish, Ownership, BgRunning
  <2> QED
    BY <2>1, <2>2, LibraryWriters
<1>2. TypeOK /\ Ownership /\ [Next]_vars => [Respected]_vars
  BY <1>1
<1> QED
  BY <1>2, TypeCorrect, OwnershipCorrect, PTL DEF Spec, NoPublishAfterCancel

-----------------------------------------------------------------------------
(* Who starts the worker, and who comes to check or copy an output.         *)

NoStart == \A j \in Jobs : worker'[j].status = "running" => worker[j].status = "running"

LEMMA WorkerStarts ==
  ASSUME TypeOK, [Next]_vars
  PROVE  RunSubmit \/ NoStart
<1>0. (worker' = worker \/ \A j \in Jobs : WorkerCalm(j)) => NoStart
  BY DEF NoStart, WorkerCalm
<1>1. ASSUME NEW k \in Jobs, UserStep(k) PROVE worker' = worker
  BY <1>1 DEF UserStep, Create, Cancel, Publish, ResyncJob, RetryJob
<1>2. ASSUME NEW k \in Jobs, Tick(k) \/ TickAdopt(k) \/ BgStep(k) PROVE worker' = worker
  BY <1>2 DEF Tick, TickAdopt, BgStep, BgValidate, BgPublish, BgComplete, BgFailure, BgRemove,
     bgFrame
<1>3. ASSUME NEW k \in Jobs,
             Renew(k) \/ LeaseLapse(k) \/ RemoveFolder(k) \/ ExpireReviews(k) \/ WindowLapse(k)
      PROVE  worker' = worker
  BY <1>3 DEF Renew, LeaseLapse, RemoveFolder, ExpireReviews, WindowLapse
<1>4. ASSUME NEW k \in Jobs, TellWorker(k) PROVE NoStart
  BY <1>0, <1>4, TellCalm DEF TellWorker
<1>5. ASSUME NEW k \in Jobs, WorkerFinish(k) PROVE NoStart
  BY <1>5 DEF WorkerFinish, TypeOK, NoStart
<1>6. TickUnwanted => NoStart
  BY <1>0, TellCalm DEF TickUnwanted
<1>7. RunPoll => NoStart
  BY <1>0, RunOnJob, TellCalm DEF RunPoll
<1>8. WorkerShutdown \/ WorkerExit \/ WorkerCrash \/ ServerCrash => NoStart
  BY <1>0, StopCalm DEF Calm
<1>9. /\ RunPrepare \/ RunCancel \/ RunValidate \/ RunFinish \/ RunPublish => worker' = worker
      /\ RunComplete \/ RunFailure \/ RunSettle \/ RunRemove => worker' = worker
  BY DEF RunPrepare, RunCancel, RunValidate, RunFinish, RunPublish, RunComplete, RunFailure,
     RunSettle, RunRemove
<1>10. RefreshHealth \/ RecoveryStep \/ SweepStep \/ UNCHANGED vars => worker' = worker
  BY DEF RefreshHealth, RecoveryStep, RecoverStart, RecoverFail, RecoverRequeue, recoverFrame,
     SweepStep, SweepKeep, SweepList, SweepRemove, sweepFrame, vars
<1> QED
  BY <1>0, <1>1, <1>2, <1>3, <1>4, <1>5, <1>6, <1>7, <1>8, <1>9, <1>10 DEF Next, RunStep

LEMMA PublishingComes ==
  ASSUME TypeOK, OutputsInv, [Next]_vars, NEW j \in Jobs, Publishing(j)'
  PROVE  Publishing(j) \/ worker[j].status # "running"
<1> USE DEF Publishing
<1>1. CASE UNCHANGED bg /\ (run' = run \/ run'.pc \notin {"finish", "publish"})
  BY <1>1
<1>2. ASSUME NEW k \in Jobs, UserStep(k) PROVE (Publish(k) \/ UNCHANGED bg) /\ run' = run
  BY <1>2 DEF UserStep, Create, Cancel, Publish, ResyncJob, RetryJob, memory
<1>3. CASE \E k \in Jobs : Publish(k)
  BY <1>3 DEF Publish, ReviewOpen, TypeOK, OutputsInv, JobOK, MakingOK, Begun
<1>4. CASE \E k \in Jobs : BgStep(k)
  BY <1>4 DEF BgStep, BgValidate, BgPublish, BgComplete, BgFailure, BgRemove, BgGoto, bgFrame,
     TypeOK
<1>5. CASE TickUnwanted \/ \E k \in Jobs : Tick(k) \/ TickAdopt(k)
  <2>1. ASSUME NEW k \in Jobs, Claim(k) PROVE run'.pc = "prepare"
    BY <2>1, ClaimEffect
  <2>2. UNCHANGED bg /\ (run' = run \/ run'.pc = "prepare")
    BY <1>5, <2>1 DEF TickUnwanted, Tick, TickAdopt, runFrame
  <2> QED
    BY <1>1, <2>2
<1>6. ASSUME NEW k \in Jobs,
             Renew(k) \/ LeaseLapse(k) \/ RemoveFolder(k) \/ TellWorker(k)
             \/ ExpireReviews(k) \/ WindowLapse(k) \/ WorkerFinish(k)
      PROVE  UNCHANGED bg /\ run' = run
  BY <1>6 DEF Renew, LeaseLapse, RemoveFolder, TellWorker, ExpireReviews, WindowLapse,
     WorkerFinish, workerFrame, memory
<1>7. CASE RunStep
  <2>0. run.pc # "idle" /\ run.job \in Jobs /\ RunTyped(run)
    BY <1>7, RunOnJob
    DEF TypeOK, RunStep, RunPrepare, RunSubmit, RunPoll, RunCancel, RunValidate, RunFinish,
        RunPublish, RunComplete, RunFailure, RunSettle, RunRemove
  <2>1. UNCHANGED bg
    BY <1>7 DEF RunStep, RunPrepare, RunSubmit, RunPoll, RunCancel, RunValidate, RunFinish,
       RunPublish, RunComplete, RunFailure, RunSettle, RunRemove, runFrame
  <2>2. CASE (\E pc \in {"submit", "poll", "cancel", "complete", "remove"} : Goto(pc))
             \/ (\E e : Raise(e)) \/ run' = IdleRun
    BY <1>1, <2>0, <2>1, <2>2, GotoEffect, RaiseEffect, IdleEffect
  <2>3. CASE \/ run' = [run EXCEPT !.pc = "submit", !.resubmits = @ + 1]
             \/ run' = [run EXCEPT !.pc = "validate", !.resubmits = 0]
    BY <1>1, <2>0, <2>1, <2>3, PollEffect
  <2>4. CASE RunFailure
    <3> DEFINE r(b) == [run EXCEPT !.pc = "settle", !.cancelled = b]
    <3>1. \E b : run' = r(b)
      BY <2>4 DEF RunFailure
    <3>2. \A b : r(b).pc = "settle"
      BY <2>0, PollEffect
    <3> HIDE DEF r
    <3> QED
      BY <1>1, <2>1, <3>1, <3>2
  <2>5. CASE RunValidate /\ ~Raise("retryable")
    <3> DEFINE due == <<run.job, work[run.job]>> \in ReviewDue /\ ~run.approved
    <3>1. run' = [run EXCEPT !.pc = "finish", !.review = due] /\ run.pc = "validate"
      BY <2>5 DEF RunValidate
    <3>2. run'.job = run.job
      <4> HIDE DEF due
      <4> QED
        BY <2>0, <3>1, PollEffect
    <3> QED
      BY <2>0, <2>1, <3>1, <3>2 DEF OutputsInv, JobOK, CopyOK, On
  <2>6. CASE RunFinish /\ Goto("publish")
    BY <2>0, <2>1, <2>6, GotoEffect DEF RunFinish
  <2> QED
    BY <1>7, <2>2, <2>3, <2>4, <2>5, <2>6
    DEF RunStep, RunPrepare, RunSubmit, RunPoll, RunCancel, RunValidate, RunFinish,
        RunPublish, RunComplete, RunSettle, RunRemove
<1>8. RefreshHealth \/ RecoveryStep \/ SweepStep \/ UNCHANGED vars => UNCHANGED <<run, bg>>
  BY DEF RefreshHealth, RecoveryStep, RecoverStart, RecoverFail, RecoverRequeue, recoverFrame,
     SweepStep, SweepKeep, SweepList, SweepRemove, sweepFrame, vars, memory
<1>9. WorkerShutdown \/ WorkerExit \/ WorkerCrash => UNCHANGED <<run, bg>>
  BY DEF WorkerShutdown, WorkerExit, WorkerCrash, workerFrame, memory
<1>10. CASE ServerCrash
  BY <1>10, IdleEffect DEF ServerCrash
<1> QED
  BY <1>1, <1>2, <1>3, <1>4, <1>5, <1>6, <1>7, <1>8, <1>9, <1>10 DEF Next

(* While the server checks or copies an output, the worker is not making it *)
(* again in the same folder: the row is the publication's own, so the       *)
(* dispatch loop cannot submit the job.                                     *)
THEOREM SoleWriterCorrect ==
  ASSUME MaxStalls = 0
  PROVE  Spec => []SoleWriter
<1>1. Init => SoleWriter
  BY DEF Init, SoleWriter, NoRecord
<1>2. TypeOK /\ OutputsInv /\ Ownership /\ SoleWriter /\ [Next]_vars => SoleWriter'
  <2> SUFFICES ASSUME TypeOK, OutputsInv, Ownership, SoleWriter, [Next]_vars,
                      NEW j \in Jobs, Publishing(j)'
               PROVE  worker'[j].status # "running"
    BY DEF SoleWriter
  <2>1. worker[j].status # "running"
    BY PublishingComes DEF SoleWriter
  <2>2. CASE NoStart
    BY <2>1, <2>2 DEF NoStart
  <2>3. CASE RunSubmit /\ ~NoStart
    <3>1. run.job \in Jobs /\ RunTyped(run) /\ Running(run.job)
      BY <2>3, RunOnJob DEF RunSubmit, TypeOK, Running
    <3>2. /\ worker' = [worker EXCEPT ![run.job] =
                        [status |-> "running", cancel |-> FALSE, dec |-> run.dec]]
          /\ run'.pc = "poll"
      BY <2>3, <3>1, GotoEffect DEF RunSubmit, NoStart
    <3>3. j # run.job
      BY <2>3, <3>1, <3>2
      DEF Publishing, Ownership, BgRunning, RunSubmit, runFrame
    <3> QED
      BY <2>1, <3>2, <3>3 DEF TypeOK
  <2> QED
    BY <2>2, <2>3, WorkerStarts
<1> QED
  BY <1>1, <1>2, TypeCorrect, OutputsCorrect, OwnershipCorrect, PTL DEF Spec

-----------------------------------------------------------------------------
(* The promise.  A cancel is pending on a processing row only, or has ended *)
(* the job.                                                                 *)
Stopped(r) == r.cancel => r.status \in {"processing", "cancelled"}

StoppedInv == \A j \in Jobs : Stopped(row[j])

(* What a user sees when a row is left alone, fails, or loses its server.   *)
Cut(r, s) ==
  /\ s.cancel = r.cancel
  /\ \/ PhaseOf(s) = PhaseOf(r)
     \/ Processing(r) /\ IF r.cancel THEN PhaseOf(s) = "cancelled"
                                     ELSE PhaseOf(s) \in {"waiting", "failed"}

LEMMA Phases ==
  ASSUME NEW r \in Row
  PROVE  /\ r.status = "absent" <=> PhaseOf(r) = "none"
         /\ r.status = "queued" <=> PhaseOf(r) = "waiting"
         /\ r.status = "processing" <=> PhaseOf(r) = "running"
         /\ r.status = "awaiting_review" <=> PhaseOf(r) = "review"
         /\ r.status = "completed" <=> PhaseOf(r) = "done"
         /\ r.status = "failed" <=> PhaseOf(r) = "failed"
         /\ r.status = "cancelled" <=> PhaseOf(r) = "cancelled"
         /\ PhaseOf(r) \in Lifecycle!Phase
         /\ Active(r) <=> PhaseOf(r) \in Lifecycle!InProgress
         /\ Processing(r) <=> PhaseOf(r) = "running"
  BY DEF PhaseOf, Row, ActiveStatus, TerminalStatus, Active, Processing, Lifecycle!Phase,
     Lifecycle!InProgress

LEMMA CutUpdates ==
  ASSUME NEW r \in Row
  PROVE  /\ Cut(r, r)
         /\ Cut(r, Heartbeat(r))
         /\ \A stage \in {"working", "validating"} : Cut(r, UpdateProgress(r, stage))
         /\ \A window \in {"none", "open"} : Cut(r, Fail(r, window))
         /\ Cut(r, Requeue(r))
         /\ Publishable(r) => Cut(r, BeginPublishing(r))
         /\ Processing(r) => Cut(r, [r EXCEPT !.lease = "lapsed"])
         /\ Cut(r, RecoverCancelled(r)) /\ Cut(r, RecoverFailed(r))
         /\ Cut(r, RecoverRequeued(r))
         /\ Cut(r, ClearExpiredWorkWindow(r))
<1> USE DEF Cut, PhaseOf, LeaseExpired, Processing, Row
<1>1. Cut(r, r)
  OBVIOUS
<1>2. Cut(r, Heartbeat(r))
  BY DEF Heartbeat
<1>3. \A stage \in {"working", "validating"} : Cut(r, UpdateProgress(r, stage))
  BY DEF UpdateProgress
<1>4. \A window \in {"none", "open"} : Cut(r, Fail(r, window))
  BY DEF Fail
<1>5. Cut(r, Requeue(r))
  BY DEF Requeue
<1>6. Publishable(r) => Cut(r, BeginPublishing(r))
  BY DEF Publishable, BeginPublishing
<1>7. Processing(r) => Cut(r, [r EXCEPT !.lease = "lapsed"])
  OBVIOUS
<1>8. Cut(r, RecoverCancelled(r))
  BY DEF RecoverCancelled
<1>9. Cut(r, RecoverFailed(r))
  BY DEF RecoverFailed
<1>10. Cut(r, RecoverRequeued(r))
  BY DEF RecoverRequeued
<1>11. Cut(r, ClearExpiredWorkWindow(r))
  BY DEF ClearExpiredWorkWindow
<1> HIDE DEF Cut, PhaseOf, LeaseExpired, Processing, Row
<1> QED
  BY <1>1, <1>2, <1>3, <1>4, <1>5, <1>6, <1>7, <1>8, <1>9, <1>10, <1>11

LEMMA PutCut ==
  ASSUME row \in [Jobs -> Row], NEW j \in Jobs, NEW r, Put(j, r), Cut(row[j], r)
  PROVE  \A k \in Jobs : Cut(row[k], row'[k])
<1>1. row'[j] = r /\ \A k \in Jobs : k # j => row'[k] = row[k]
  BY DEF Put
<1>2. \A k \in Jobs : Cut(row[k], row[k])
  BY CutUpdates
<1> QED
  BY <1>1, <1>2

LEMMA RowCut ==
  ASSUME TypeOK, row' = row
  PROVE  \A j \in Jobs : Cut(row[j], row'[j])
  BY CutUpdates DEF TypeOK

(* Steps of the promise, from what the rows and the library do. *)
LEMMA CutStep ==
  ASSUME TypeOK, TypeOK', library' = library, \A j \in Jobs : Cut(row[j], row'[j])
  PROVE  Lifecycle!Next
<1>1. \A j \in Jobs : /\ row[j] \in Row /\ row'[j] \in Row
                      /\ row[j].cancel \in BOOLEAN /\ row'[j].cancel \in BOOLEAN
  BY RowFields DEF TypeOK
<1>2. \A j \in Jobs : [phase |-> PhaseOf(row'[j]), stop |-> row'[j].cancel,
                       added |-> library'[j] # {}] \in Lifecycle!Job
  BY <1>1, Phases DEF Lifecycle!Job
<1>3. ASSUME NEW j \in Jobs, PhaseOf(row'[j]) # PhaseOf(row[j])
      PROVE  /\ PhaseOf(row[j]) = "running"
             /\ [phase |-> PhaseOf(row'[j]), stop |-> row'[j].cancel,
                 added |-> library'[j] # {}]
                \in Lifecycle!Interrupted([phase |-> PhaseOf(row[j]), stop |-> row[j].cancel,
                                           added |-> library[j] # {}])
  BY <1>1, <1>3, Phases DEF Cut, Lifecycle!Interrupted
<1>4. Lifecycle!Interrupt
  BY <1>2, <1>3 DEF Lifecycle!Interrupt, Cut
<1> QED
  BY <1>4 DEF Lifecycle!Next

LEMMA MoveStep ==
  ASSUME TypeOK, NEW k \in Jobs, NEW r, Put(k, r), library' = library,
         r.cancel = row[k].cancel
  PROVE  Lifecycle!Move(k, PhaseOf(row[k]), PhaseOf(r))
  BY DEF Lifecycle!Move, Put, TypeOK

LEMMA FreeBook ==
  ASSUME TypeOK, NEW k \in Jobs, BookFree(k)
  PROVE  Lifecycle!Free(k)
<1>1. \A j \in Jobs : Active(row[j]) <=> PhaseOf(row[j]) \in Lifecycle!InProgress
  BY Phases DEF TypeOK
<1> QED
  BY <1>1 DEF BookFree, Lifecycle!Free

LEMMA StopStep ==
  ASSUME TypeOK, NEW k \in Jobs, Cancellable(row[k]),
         Put(k, RequestCancellation(row[k])), library' = library
  PROVE  Lifecycle!Stop(k)
<1>1. row[k] \in Row /\ PhaseOf(row[k]) \in Lifecycle!InProgress
  BY Phases DEF TypeOK, Cancellable
<1>2. /\ RequestCancellation(row[k]).cancel = TRUE
      /\ PhaseOf(RequestCancellation(row[k])) =
           IF PhaseOf(row[k]) = "running" THEN "running" ELSE "cancelled"
  BY <1>1, Phases DEF RequestCancellation, Row, PhaseOf, Processing
<1>3. row' = [row EXCEPT ![k] = RequestCancellation(row[k])] /\ row \in [Jobs -> Row]
  BY DEF Put, TypeOK
<1> QED
  BY <1>1, <1>2, <1>3 DEF Lifecycle!Stop

LEMMA AddStep ==
  ASSUME TypeOK, NEW k \in Jobs, AddToLibrary(k), row' = row,
         Processing(row[k]), ~row[k].cancel
  PROVE  Lifecycle!Add(k)
<1>1. PhaseOf(row[k]) = "running"
  BY Phases DEF TypeOK
<1>2. library' = [library EXCEPT ![k] = @ \cup {work[k]}] /\ library \in [Jobs -> SUBSET Nat]
  BY DEF AddToLibrary, TypeOK
<1>3. library'[k] # {} /\ \A j \in Jobs : j # k => library'[j] = library[j]
  BY <1>2
<1> QED
  BY <1>1, <1>3 DEF Lifecycle!Add

LEMMA FinishStep ==
  ASSUME TypeOK, NEW k \in Jobs, Put(k, Complete(row[k])), library' = library,
         library[k] # {}, Processing(row[k]), ~row[k].cancel
  PROVE  Lifecycle!Finish(k) /\ Stopped(row'[k])
<1>1. row[k] \in Row
  BY DEF TypeOK
<1>2. /\ Complete(row[k]).cancel = row[k].cancel
      /\ PhaseOf(Complete(row[k])) = "done" /\ PhaseOf(row[k]) = "running"
  BY <1>1 DEF Complete, Processing, Row, PhaseOf
<1>3. Lifecycle!Move(k, "running", "done")
  BY <1>2, MoveStep
<1>4. row'[k].cancel = row[k].cancel
  BY <1>2 DEF Put, TypeOK
<1> QED
  BY <1>3, <1>4 DEF Lifecycle!Finish, Stopped

Kept == Lifecycle!Next /\ StoppedInv'

LEMMA CutKept ==
  ASSUME TypeOK, TypeOK', StoppedInv, library' = library,
         \A j \in Jobs : Cut(row[j], row'[j])
  PROVE  Kept
<1>1. StoppedInv'
  <2> SUFFICES ASSUME NEW j \in Jobs PROVE Stopped(row'[j])
    BY DEF StoppedInv
  <2>1. row[j] \in Row /\ row'[j] \in Row /\ Stopped(row[j]) /\ Cut(row[j], row'[j])
    BY DEF TypeOK, StoppedInv
  <2> QED
    BY <2>1, Phases DEF Stopped, Cut
<1> QED
  BY <1>1, CutStep DEF Kept

LEMMA PutStopped ==
  ASSUME TypeOK, StoppedInv, NEW k \in Jobs, NEW r, Put(k, r), Stopped(r)
  PROVE  StoppedInv'
  BY DEF StoppedInv, Put, TypeOK

LEMMA SameStopped ==
  ASSUME StoppedInv, row' = row PROVE StoppedInv'
  BY DEF StoppedInv

(* The moves of a user and of the dispatch loop.                            *)
LEMMA MoveUpdates ==
  ASSUME NEW r \in Row
  PROVE  /\ PhaseOf(NewRow) = "waiting" /\ ~NewRow.cancel
         /\ Claimable(r) => /\ PhaseOf(ClaimQueued(r)) = "running" /\ PhaseOf(r) = "waiting"
                            /\ ~ClaimQueued(r).cancel /\ ~r.cancel
         /\ ReviewOpen(r) =>
              /\ PhaseOf(r) = "review" /\ ~r.cancel
              /\ PhaseOf(ClaimForPublishing(r)) = "running" /\ ~ClaimForPublishing(r).cancel
              /\ PhaseOf(Resync(r)) = "waiting" /\ ~Resync(r).cancel
         /\ Retryable(r) =>
              /\ PhaseOf(r) = "failed"
              /\ PhaseOf(Retry(r)) = "waiting" /\ ~Retry(r).cancel
         /\ Publishable(r) =>
              /\ PhaseOf(r) = "running" /\ ~r.cancel
              /\ PhaseOf(MarkAwaitingReview(r)) = "review" /\ ~MarkAwaitingReview(r).cancel
         /\ r.status = "awaiting_review" =>
              /\ PhaseOf(r) = "review" /\ PhaseOf(ExpireReview(r)) = "cancelled"
              /\ ExpireReview(r).cancel = r.cancel /\ ExpireReview(r).status = "cancelled"
         /\ RequestCancellation(r).status \in {"processing", "cancelled"}
<1> USE DEF PhaseOf, Row, Processing
<1>1. PhaseOf(NewRow) = "waiting" /\ ~NewRow.cancel
  BY DEF NewRow, NoRow
<1>2. Claimable(r) => /\ PhaseOf(ClaimQueued(r)) = "running" /\ PhaseOf(r) = "waiting"
                      /\ ~ClaimQueued(r).cancel /\ ~r.cancel
  BY DEF Claimable, ClaimQueued
<1>3. ReviewOpen(r) =>
        /\ PhaseOf(r) = "review" /\ ~r.cancel
        /\ PhaseOf(ClaimForPublishing(r)) = "running" /\ ~ClaimForPublishing(r).cancel
        /\ PhaseOf(Resync(r)) = "waiting" /\ ~Resync(r).cancel
  BY DEF ReviewOpen, ClaimForPublishing, Resync
<1>4. Retryable(r) =>
        PhaseOf(r) = "failed" /\ PhaseOf(Retry(r)) = "waiting" /\ ~Retry(r).cancel
  BY DEF Retryable, Retry
<1>5. Publishable(r) =>
        /\ PhaseOf(r) = "running" /\ ~r.cancel
        /\ PhaseOf(MarkAwaitingReview(r)) = "review" /\ ~MarkAwaitingReview(r).cancel
  BY DEF Publishable, MarkAwaitingReview
<1>6. r.status = "awaiting_review" =>
        /\ PhaseOf(r) = "review" /\ PhaseOf(ExpireReview(r)) = "cancelled"
        /\ ExpireReview(r).cancel = r.cancel /\ ExpireReview(r).status = "cancelled"
  BY DEF ExpireReview
<1>7. RequestCancellation(r).status \in {"processing", "cancelled"}
  BY DEF RequestCancellation
<1> HIDE DEF PhaseOf, Row, Processing
<1> QED
  BY <1>1, <1>2, <1>3, <1>4, <1>5, <1>6, <1>7

LEMMA ClaimKept ==
  ASSUME TypeOK, StoppedInv, NEW k \in Jobs, Claim(k), library' = library
  PROVE  Kept
<1>1. row[k] \in Row /\ Claimable(row[k]) /\ Put(k, ClaimQueued(row[k]))
  BY DEF TypeOK, Claim
<1>2. ClaimQueued(row[k]).cancel = row[k].cancel
  BY <1>1 DEF ClaimQueued, Row
<1>3. Lifecycle!Start(k)
  BY <1>1, <1>2, MoveUpdates, MoveStep DEF Lifecycle!Start
<1>4. StoppedInv'
  BY <1>1, MoveUpdates, PutStopped DEF Stopped
<1> QED
  BY <1>3, <1>4 DEF Kept, Lifecycle!Next

LEMMA UserKept ==
  ASSUME TypeOK, TypeOK', StoppedInv, NEW k \in Jobs, UserStep(k) \/ ExpireReviews(k)
  PROVE  Kept
<1>0. row[k] \in Row /\ row[k].cancel \in BOOLEAN /\ Stopped(row[k])
  BY RowFields DEF TypeOK, StoppedInv
<1>1. library' = library
  BY DEF UserStep, ExpireReviews, Create, Cancel, Publish, ResyncJob, RetryJob
<1>2. CASE Create(k)
  <2>1. Put(k, NewRow) /\ row[k].status = "absent" /\ ~row[k].cancel
    BY <1>0, <1>2 DEF Create, Stopped
  <2>2. PhaseOf(row[k]) = "none" /\ NewRow.cancel = row[k].cancel
    <3>1. NewRow.cancel = FALSE
      BY DEF NewRow, NoRow
    <3> QED
      BY <1>0, <2>1, <3>1, Phases
  <2>3. Lifecycle!Request(k)
    BY <1>0, <1>1, <1>2, <2>1, <2>2, MoveUpdates, MoveStep, FreeBook
    DEF Lifecycle!Request, Create
  <2>4. StoppedInv'
    BY <1>0, <2>1, MoveUpdates, PutStopped DEF Stopped
  <2> QED
    BY <2>3, <2>4 DEF Kept, Lifecycle!Next
<1>3. CASE Cancel(k)
  <2>1. Lifecycle!Stop(k)
    BY <1>1, <1>3, StopStep DEF Cancel
  <2>2. StoppedInv'
    BY <1>0, <1>3, MoveUpdates, PutStopped DEF Cancel, Stopped
  <2> QED
    BY <2>1, <2>2 DEF Kept, Lifecycle!Next
<1>4. CASE Publish(k)
  <2>1. ReviewOpen(row[k]) /\ Put(k, ClaimForPublishing(row[k]))
    BY <1>4 DEF Publish
  <2>2. ClaimForPublishing(row[k]).cancel = row[k].cancel
    BY <1>0 DEF ClaimForPublishing, Row
  <2>3. Lifecycle!Approve(k)
    BY <1>0, <1>1, <2>1, <2>2, MoveUpdates, MoveStep DEF Lifecycle!Approve
  <2>4. StoppedInv'
    BY <1>0, <2>1, MoveUpdates, PutStopped DEF Stopped
  <2> QED
    BY <2>3, <2>4 DEF Kept, Lifecycle!Next
<1>5. CASE ResyncJob(k)
  <2>1. ReviewOpen(row[k]) /\ Put(k, Resync(row[k]))
    BY <1>5 DEF ResyncJob
  <2>2. Resync(row[k]).cancel = row[k].cancel
    BY <1>0 DEF Resync, Row
  <2>3. Lifecycle!Redo(k)
    BY <1>0, <1>1, <2>1, <2>2, MoveUpdates, MoveStep DEF Lifecycle!Redo
  <2>4. StoppedInv'
    BY <1>0, <2>1, MoveUpdates, PutStopped DEF Stopped
  <2> QED
    BY <2>3, <2>4 DEF Kept, Lifecycle!Next
<1>6. CASE RetryJob(k)
  <2>1. Retryable(row[k]) /\ Put(k, Retry(row[k])) /\ BookFree(k)
    BY <1>6 DEF RetryJob
  <2>2. Retry(row[k]).cancel = row[k].cancel
    <3>1. row[k].cancel = FALSE
      BY <1>0, <2>1 DEF Retryable, Stopped
    <3> QED
      BY <1>0, <3>1 DEF Retry, Row
  <2>3. Lifecycle!Again(k)
    BY <1>0, <1>1, <2>1, <2>2, MoveUpdates, MoveStep, FreeBook DEF Lifecycle!Again
  <2>4. StoppedInv'
    BY <1>0, <2>1, MoveUpdates, PutStopped DEF Stopped
  <2> QED
    BY <2>3, <2>4 DEF Kept, Lifecycle!Next
<1>7. CASE ExpireReviews(k)
  <2>1. row[k].status = "awaiting_review" /\ Put(k, ExpireReview(row[k]))
    BY <1>7 DEF ExpireReviews
  <2>2. Lifecycle!Expire(k)
    BY <1>0, <1>1, <2>1, MoveUpdates, MoveStep DEF Lifecycle!Expire
  <2>3. StoppedInv'
    BY <1>0, <2>1, MoveUpdates, PutStopped DEF Stopped
  <2> QED
    BY <2>2, <2>3 DEF Kept, Lifecycle!Next
<1> QED
  BY <1>2, <1>3, <1>4, <1>5, <1>6, <1>7 DEF UserStep

LEMMA RunKept ==
  ASSUME TypeOK, TypeOK', OutputsInv, Ownership, StoppedInv, RunStep
  PROVE  Kept
<1>0. run.pc # "idle" /\ run.job \in Jobs /\ row[run.job] \in Row /\ RunTyped(run)
  BY RunRow
  DEF TypeOK, RunStep, RunPrepare, RunSubmit, RunPoll, RunCancel, RunValidate, RunFinish,
      RunPublish, RunComplete, RunFailure, RunSettle, RunRemove
<1>1. CASE library' = library /\ \A j \in Jobs : Cut(row[j], row'[j])
  BY <1>1, CutKept
<1>2. CASE RunPrepare \/ RunSubmit \/ RunPoll \/ RunCancel \/ RunValidate \/ RunFailure
           \/ RunSettle \/ RunRemove
  <2>1. library' = library
    BY <1>2 DEF RunPrepare, RunSubmit, RunPoll, RunCancel, RunValidate, RunFailure, RunSettle,
       RunRemove, runFrame
  <2>2. \/ row' = row
        \/ \E stage \in {"working", "validating"} :
             Put(run.job, UpdateProgress(row[run.job], stage))
        \/ \E window \in {"none", "open"} : Put(run.job, Fail(row[run.job], window))
        \/ Put(run.job, Requeue(row[run.job]))
    BY <1>2 DEF RunPrepare, RunSubmit, RunPoll, RunCancel, RunValidate, RunFailure, RunSettle,
       RunRemove
  <2>3. \A j \in Jobs : Cut(row[j], row'[j])
    BY <1>0, <2>2, RowCut, PutCut, CutUpdates DEF TypeOK
  <2> QED
    BY <1>1, <2>1, <2>3
<1>3. CASE RunFinish
  <2>0. library' = library
    BY <1>3 DEF RunFinish, runFrame
  <2>1. CASE row' = row
    BY <1>1, <2>0, <2>1, RowCut
  <2>2. CASE Publishable(row[run.job]) /\ Put(run.job, BeginPublishing(row[run.job]))
    BY <1>0, <1>1, <2>0, <2>2, PutCut, CutUpdates DEF TypeOK
  <2>3. CASE Publishable(row[run.job]) /\ Put(run.job, MarkAwaitingReview(row[run.job]))
    <3>0. PICK k \in Jobs : k = run.job
      BY <1>0
    <3>1. row[k] \in Row /\ Publishable(row[k]) /\ Put(k, MarkAwaitingReview(row[k]))
      BY <1>0, <2>3, <3>0
    <3>2. MarkAwaitingReview(row[k]).cancel = row[k].cancel
      BY <3>1 DEF MarkAwaitingReview, Row
    <3>3. Lifecycle!Offer(k)
      BY <2>0, <3>1, <3>2, MoveUpdates, MoveStep DEF Lifecycle!Offer
    <3>4. StoppedInv'
      BY <3>1, MoveUpdates, PutStopped DEF Stopped
    <3> QED
      BY <3>3, <3>4 DEF Kept, Lifecycle!Next
  <2> QED
    BY <1>3, <2>1, <2>2, <2>3 DEF RunFinish
<1>4. CASE RunPublish
  <2>1. row' = row /\ (library' = library \/ AddToLibrary(run.job))
    BY <1>4 DEF RunPublish
  <2>2. Processing(row[run.job]) /\ ~row[run.job].cancel
    BY <1>0, <1>4 DEF Ownership, Running, RunPublish
  <2>3. CASE library' = library
    BY <1>1, <2>1, <2>3, RowCut
  <2>4. CASE AddToLibrary(run.job)
    BY <1>0, <2>1, <2>2, <2>4, AddStep, SameStopped DEF Kept, Lifecycle!Next
  <2> QED
    BY <2>1, <2>3, <2>4
<1>5. CASE RunComplete
  <2>0. library' = library
    BY <1>5 DEF RunComplete, runFrame
  <2>1. Processing(row[run.job]) /\ ~row[run.job].cancel
    BY <1>0, <1>5 DEF Ownership, Running, RunComplete
  <2>2. library[run.job] # {}
    BY <1>0, <1>5 DEF OutputsInv, JobOK, AddedOK, RunComplete
  <2>3. CASE row' = row
    BY <1>1, <2>0, <2>3, RowCut
  <2>4. CASE Put(run.job, Complete(row[run.job]))
    <3>0. PICK k \in Jobs : k = run.job
      BY <1>0
    <3>1. Put(k, Complete(row[k])) /\ library[k] # {} /\ Processing(row[k]) /\ ~row[k].cancel
      BY <2>1, <2>2, <2>4, <3>0
    <3>2. Lifecycle!Finish(k) /\ Stopped(row'[k])
      BY <2>0, <3>1, FinishStep
    <3>3. StoppedInv'
      BY <3>1, <3>2 DEF StoppedInv, Put, TypeOK
    <3> QED
      BY <3>2, <3>3 DEF Kept, Lifecycle!Next
  <2> QED
    BY <1>5, <2>3, <2>4 DEF RunComplete
<1> QED
  BY <1>2, <1>3, <1>4, <1>5 DEF RunStep

LEMMA BgKept ==
  ASSUME TypeOK, TypeOK', OutputsInv, Ownership, StoppedInv, NEW k \in Jobs, BgStep(k)
  PROVE  Kept
<1>0. row[k] \in Row
  BY DEF TypeOK
<1>1. CASE library' = library /\ \A j \in Jobs : Cut(row[j], row'[j])
  BY <1>1, CutKept
<1>2. CASE BgFailure(k)
  BY <1>0, <1>1, <1>2, RowCut, PutCut, CutUpdates DEF BgFailure, TypeOK
<1>3. CASE library' = library /\ row' = row
  BY <1>1, <1>3, RowCut
<1>4. CASE BgPublish(k) /\ AddToLibrary(k)
  <2>1. Processing(row[k]) /\ ~row[k].cancel /\ row' = row
    BY <1>4 DEF Ownership, BgRunning, BgPublish
  <2> QED
    BY <1>4, <2>1, AddStep, SameStopped DEF Kept, Lifecycle!Next
<1>5. CASE BgComplete(k) /\ Put(k, Complete(row[k]))
  <2>1. Processing(row[k]) /\ ~row[k].cancel /\ library' = library
    BY <1>5 DEF Ownership, BgRunning, BgComplete
  <2>2. library[k] # {}
    BY <1>5 DEF OutputsInv, JobOK, AddedOK, BgComplete
  <2>3. Lifecycle!Finish(k) /\ Stopped(row'[k])
    BY <1>5, <2>1, <2>2, FinishStep
  <2>4. StoppedInv'
    BY <1>5, <2>3 DEF StoppedInv, Put, TypeOK
  <2> QED
    BY <2>3, <2>4 DEF Kept, Lifecycle!Next
<1> QED
  BY <1>2, <1>3, <1>4, <1>5 DEF BgStep, BgValidate, BgPublish, BgComplete, BgRemove

LEMMA NextKept ==
  ASSUME TypeOK, TypeOK', OutputsInv, Ownership, StoppedInv, [Next]_vars
  PROVE  Kept
<1>0. \A j \in Jobs : row[j] \in Row
  BY DEF TypeOK
<1>1. CASE library' = library /\ \A j \in Jobs : Cut(row[j], row'[j])
  BY <1>1, CutKept
<1>2. CASE library' = library /\ row' = row
  BY <1>1, <1>2, RowCut
<1>3. ASSUME NEW k \in Jobs, UserStep(k) \/ ExpireReviews(k) PROVE Kept
  BY <1>3, UserKept
<1>4. ASSUME NEW k \in Jobs, BgStep(k) PROVE Kept
  BY <1>4, BgKept
<1>5. ASSUME RunStep PROVE Kept
  BY <1>5, RunKept
<1>6. ASSUME TickUnwanted \/ \E k \in Jobs : Tick(k) \/ TickAdopt(k) PROVE Kept
  <2>1. library' = library
    BY <1>6 DEF TickUnwanted, Tick, TickAdopt, runFrame
  <2>2. row' = row \/ \E k \in Jobs : Claim(k)
    BY <1>6 DEF TickUnwanted, Tick, TickAdopt
  <2> QED
    BY <1>2, <2>1, <2>2, ClaimKept
<1>7. ASSUME NEW k \in Jobs, Renew(k) \/ LeaseLapse(k) \/ WindowLapse(k) PROVE Kept
  <2>1. library' = library
    BY <1>7 DEF Renew, LeaseLapse, WindowLapse
  <2>2. ASSUME Renew(k) PROVE \A j \in Jobs : Cut(row[j], row'[j])
    BY <1>0, <2>2, PutCut, CutUpdates DEF TypeOK, Renew
  <2>3. ASSUME LeaseLapse(k) PROVE \A j \in Jobs : Cut(row[j], row'[j])
    BY <1>0, <2>3, PutCut, CutUpdates DEF TypeOK, LeaseLapse
  <2>4. ASSUME WindowLapse(k) PROVE \A j \in Jobs : Cut(row[j], row'[j])
    BY <1>0, <2>4, PutCut, CutUpdates DEF TypeOK, WindowLapse
  <2> QED
    BY <1>1, <1>7, <2>1, <2>2, <2>3, <2>4
<1>8. ASSUME RecoveryStep PROVE Kept
  <2>1. library' = library
    BY <1>8 DEF RecoveryStep, RecoverStart, RecoverFail, RecoverRequeue, recoverFrame
  <2>2. ASSUME RecoverStart PROVE \A j \in Jobs : Cut(row[j], row'[j])
    BY <1>0, <2>2, CutUpdates DEF RecoverStart
  <2>3. ASSUME RecoverFail PROVE \A j \in Jobs : Cut(row[j], row'[j])
    BY <1>0, <2>3, CutUpdates DEF RecoverFail
  <2>4. ASSUME RecoverRequeue PROVE \A j \in Jobs : Cut(row[j], row'[j])
    BY <1>0, <2>4, CutUpdates DEF RecoverRequeue
  <2> QED
    BY <1>1, <1>8, <2>1, <2>2, <2>3, <2>4 DEF RecoveryStep
<1>9. ASSUME \/ \E k \in Jobs : RemoveFolder(k) \/ TellWorker(k) \/ WorkerFinish(k)
             \/ SweepStep \/ RefreshHealth
             \/ WorkerShutdown \/ WorkerExit \/ WorkerCrash \/ ServerCrash \/ UNCHANGED vars
      PROVE  Kept
  BY <1>2, <1>9
  DEF RemoveFolder, TellWorker, WorkerFinish, SweepStep, SweepKeep, SweepList, SweepRemove,
      sweepFrame, RefreshHealth, WorkerShutdown, WorkerExit, WorkerCrash, ServerCrash,
      workerFrame, vars
<1> QED
  BY <1>3, <1>4, <1>5, <1>6, <1>7, <1>8, <1>9 DEF Next

(* The processes keep the promise of ReadAloudLifecycle: every step of the  *)
(* server, the worker and their housekeeping is a step that a user was told *)
(* to expect of the jobs, or none.  While no lease lapses under a live run. *)
THEOREM PromiseKept ==
  ASSUME MaxStalls = 0
  PROVE  Spec => KeepsPromise
<1>1. Init => Lifecycle!Init /\ StoppedInv
  <2> SUFFICES ASSUME Init PROVE Lifecycle!Init /\ StoppedInv
    OBVIOUS
  <2>1. \A j \in Jobs : row[j] = NoRow /\ library[j] = {}
    BY DEF Init
  <2>2. PhaseOf(NoRow) = "none" /\ NoRow.cancel = FALSE
    BY DEF NoRow, PhaseOf
  <2>3. StoppedInv
    BY <2>1, <2>2 DEF StoppedInv, Stopped
  <2>4. Lifecycle!Init
    BY <2>1, <2>2 DEF Lifecycle!Init
  <2> QED
    BY <2>3, <2>4
<1>2. TypeOK /\ TypeOK' /\ OutputsInv /\ Ownership /\ StoppedInv /\ [Next]_vars
      => Lifecycle!Next /\ StoppedInv'
  BY NextKept DEF Kept
<1> QED
  BY <1>1, <1>2, TypeCorrect, OutputsCorrect, OwnershipCorrect, PTL
  DEF Spec, KeepsPromise, Lifecycle!Spec
=============================================================================
