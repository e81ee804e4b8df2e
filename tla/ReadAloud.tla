----------------------------- MODULE ReadAloud -----------------------------
(***************************************************************************)
(* Read-aloud generation: users, the dispatch loop of the API server, its  *)
(* background publications and its housekeeping, the worker that makes the *)
(* read-along, the work folders the two share, and the library.            *)
(*                                                                         *)
(* A step ends where the code awaits something another actor can change.   *)
(* One server process runs at a time; ServerCrash is its restart, which    *)
(* loses everything the process held in memory.  The worker keeps its      *)
(* records in memory too (WorkerCrash).                                    *)
(***************************************************************************)
EXTENDS ReadAloudStore, FiniteSets

CONSTANTS
  Jobs, BookOf,         \* the jobs users may create, and the book of each
  NoJob,                \* not a job
  ReviewDue,            \* <<j, v>>: the report of j's output v asks for review
  MaxResubmits,         \* READ_ALOUD_MAX_RESUBMITS
  \* Bounds on what the environment does.
  MaxCrashes,           \* server restarts
  MaxWorkerStops,       \* worker restarts
  MaxStalls,            \* leases that lapse although their run is alive
  MaxRetries,           \* uses of Retry
  MaxResyncs            \* uses of Re-sync

ASSUME JobsAssumption == NoJob \notin Jobs
ASSUME BoundsAssumption ==
  /\ MaxResubmits \in Nat /\ MaxCrashes \in Nat /\ MaxWorkerStops \in Nat
  /\ MaxStalls \in Nat /\ MaxRetries \in Nat /\ MaxResyncs \in Nat

VARIABLES
  row,        \* the job table
  run,        \* the dispatch loop's job (activeJobId), or Idle
  bg,         \* publications a user started: where each one is
  removing,   \* handlers about to remove a job's work folder
  stopping,   \* handlers about to tell the worker to cancel a job
  sweep,      \* the orphan sweep: its keep set and the folders it listed
  recovery,   \* lease recovery: its next update and the rows expired at its start
  health,     \* the cached activeJobId of the worker's health answer
  worker,     \* the worker's job records
  closing,    \* the worker is shutting down: it starts nothing more
  work,       \* the job folders: none, without output, or the version of the output
  library,    \* the versions of each job's output that were put in its book
  approvals,  \* history: the versions a user chose to add despite the review
  unseen,     \* history: jobs created after a sweep read its keep set
  spent       \* how much of the bounds is used

userVars   == <<approvals, unseen>>
memory     == <<run, bg, removing, stopping, sweep, recovery, health>>
vars == <<row, memory, worker, closing, work, library, userVars, spent>>

NoFolder == -2
NoOutput == -1

IdleRun == [pc |-> "idle", job |-> NoJob, attempt |-> 0, approved |-> FALSE,
            dec |-> 0, resubmits |-> 0, review |-> FALSE, error |-> "none",
            cancelled |-> FALSE]

NoRecord == [status |-> "none", cancel |-> FALSE, dec |-> 0]

Run == [pc : {"idle", "prepare", "submit", "poll", "cancel", "validate", "finish",
              "publish", "complete", "failure", "settle", "remove"},
        job : Jobs \cup {NoJob}, attempt : Nat, approved : BOOLEAN, dec : Nat,
        resubmits : Nat, review : BOOLEAN,
        error : {"none", "cancelled", "lost", "retryable", "fatal"},
        cancelled : BOOLEAN]

RunTyped(r) == r \in Run /\ (r.pc # "idle" => r.job \in Jobs)

Record == [status : {"none", "running", "completed", "failed", "cancelled"},
           cancel : BOOLEAN, dec : Nat]

Spent == [crashes : Nat, stops : Nat, stalls : Nat, retries : Nat, resyncs : Nat]

(* Every variable has its type, and a run that is not idle is on a job. *)
TypeOK ==
  /\ row \in [Jobs -> Row]
  /\ RunTyped(run)
  /\ bg \in [Jobs -> {"none", "validate", "publish", "complete", "failure", "remove"}]
  /\ removing \subseteq Jobs /\ stopping \subseteq Jobs
  /\ sweep \in [pc : {"idle", "list", "remove"}, keep : SUBSET Jobs, todo : SUBSET Jobs]
  /\ recovery \in [pc : {"idle", "fail", "requeue"}, due : SUBSET Jobs]
  /\ health \in Jobs \cup {NoJob}
  /\ worker \in [Jobs -> Record]
  /\ closing \in BOOLEAN
  /\ work \in [Jobs -> Nat \cup {NoFolder, NoOutput}]
  /\ library \in [Jobs -> SUBSET Nat] /\ approvals \in [Jobs -> SUBSET Nat]
  /\ unseen \subseteq Jobs
  /\ spent \in Spent

Init ==
  /\ row = [j \in Jobs |-> NoRow]
  /\ run = IdleRun
  /\ bg = [j \in Jobs |-> "none"]
  /\ removing = {} /\ stopping = {}
  /\ sweep = [pc |-> "idle", keep |-> {}, todo |-> {}]
  /\ recovery = [pc |-> "idle", due |-> {}]
  /\ health = NoJob
  /\ worker = [j \in Jobs |-> NoRecord] /\ closing = FALSE
  /\ work = [j \in Jobs |-> NoFolder]
  /\ library = [j \in Jobs |-> {}] /\ approvals = [j \in Jobs |-> {}]
  /\ unseen = {}
  /\ spent = [crashes |-> 0, stops |-> 0, stalls |-> 0, retries |-> 0, resyncs |-> 0]

-----------------------------------------------------------------------------
(* Helpers. *)

Put(j, r) == row' = [row EXCEPT ![j] = r]

(* The job the worker runs, and the cancel it is sent: an unknown or a      *)
(* finished job makes it a no-op.                                          *)
WorkerActive == IF \E j \in Jobs : worker[j].status = "running"
                  THEN CHOOSE j \in Jobs : worker[j].status = "running"
                  ELSE NoJob

CancelRecord(rec) ==
  IF rec.status = "running" THEN [rec EXCEPT !.cancel = TRUE] ELSE rec

BugBookFree(j) == TRUE

(* The unique index on the active jobs of a book. *)
BookFree(j) == \A k \in Jobs : k # j /\ Active(row[k]) => BookOf[k] # BookOf[j]

(* A run of this server is on the job, and the heartbeats of such a run.    *)
Owned(j) == run.job = j \/ bg[j] \in {"validate", "publish", "complete", "failure"}
Beating(j) == run.job = j \/ bg[j] \in {"validate", "publish"}

-----------------------------------------------------------------------------
(* Users. *)

Create(j) ==
  /\ row[j].status = "absent" /\ BookFree(j)
  /\ Put(j, NewRow)
  /\ unseen' = IF sweep.pc = "list" THEN unseen \cup {j} ELSE unseen
  /\ UNCHANGED <<memory, worker, closing, work, library, approvals, spent>>

(* A queued or reviewed job ends here, and its folder is removed; for a     *)
(* running one the worker is told as well.                                 *)
Cancel(j) ==
  /\ Cancellable(row[j])
  /\ Put(j, RequestCancellation(row[j]))
  /\ IF Processing(row[j])
       THEN stopping' = stopping \cup {j} /\ UNCHANGED removing
       ELSE removing' = removing \cup {j} /\ UNCHANGED stopping
  /\ UNCHANGED <<run, bg, sweep, recovery, health, worker, closing,
                 work, library, userVars, spent>>

Publish(j) ==
  /\ ReviewOpen(row[j]) /\ bg[j] = "none"
  /\ Put(j, ClaimForPublishing(row[j]))
  /\ bg' = [bg EXCEPT ![j] = "validate"]
  /\ approvals' = [approvals EXCEPT ![j] = @ \cup {row[j].dec}]
  /\ UNCHANGED <<run, removing, stopping, sweep, recovery, health, worker, closing,
                 work, library, unseen, spent>>

ResyncJob(j) ==
  /\ ReviewOpen(row[j]) /\ spent.resyncs < MaxResyncs
  /\ Put(j, Resync(row[j]))
  /\ spent' = [spent EXCEPT !.resyncs = @ + 1]
  /\ UNCHANGED <<memory, worker, closing, work, library, userVars>>

RetryJob(j) ==
  /\ Retryable(row[j]) /\ BookFree(j) /\ spent.retries < MaxRetries
  /\ Put(j, Retry(row[j]))
  /\ spent' = [spent EXCEPT !.retries = @ + 1]
  /\ UNCHANGED <<memory, worker, closing, work, library, userVars>>

-----------------------------------------------------------------------------
(* The dispatch loop: one job at a time, from tick to the end of process.  *)

runFrame == <<bg, removing, stopping, sweep, recovery, closing, library, userVars,
              spent>>

(* The row a claim returns is the run's own copy: what it says of approval, *)
(* attempts and decisions is read from this copy later on.                 *)
Claim(j) ==
  /\ run.pc = "idle" /\ Claimable(row[j])
  /\ Put(j, ClaimQueued(row[j]))
  /\ run' = [IdleRun EXCEPT !.pc = "prepare", !.job = j,
                            !.attempt = row[j].attempt + 1,
                            !.approved = row[j].approved, !.dec = row[j].dec]

RefreshHealth ==
  /\ health # WorkerActive
  /\ health' = WorkerActive
  /\ UNCHANGED <<row, run, bg, removing, stopping, sweep, recovery, worker, closing,
                 work, library, userVars, spent>>

Tick(j) ==
  /\ health = NoJob
  /\ Claim(j)
  /\ UNCHANGED <<runFrame, health, worker, work>>

(* adoptRunning: the worker still runs a job that is queued again. *)
TickAdopt(j) ==
  /\ health = j
  /\ Claim(j)
  /\ UNCHANGED <<runFrame, health, worker, work>>

(* ... and a job that is no longer wanted: a fresh answer decides whether   *)
(* to stop it, to take the next job, or to leave a third job alone.        *)
TickUnwanted ==
  /\ run.pc = "idle"
  /\ health \in Jobs /\ ~Active(row[health])
  /\ health' = WorkerActive
  /\ \/ /\ WorkerActive = health
        /\ worker' = [worker EXCEPT ![health] = CancelRecord(@)]
        /\ UNCHANGED <<row, run>>
     \/ /\ WorkerActive = NoJob
        /\ \E j \in Jobs : Claim(j)
        /\ UNCHANGED worker
     \/ /\ WorkerActive \notin {health, NoJob}
        /\ UNCHANGED <<row, run, worker>>
  /\ UNCHANGED <<runFrame, work>>

Goto(pc) == run' = [run EXCEPT !.pc = pc]
Raise(error) ==
  run' = [IdleRun EXCEPT !.pc = "failure", !.job = run.job,
                         !.attempt = run.attempt, !.error = error]

(* The sources are checked again before the folder is made. *)
RunPrepare ==
  /\ run.pc = "prepare"
  /\ Put(run.job, UpdateProgress(row[run.job], "working"))
  /\ \/ /\ Goto("submit")
        /\ work' = [work EXCEPT ![run.job] = IF @ = NoFolder THEN NoOutput ELSE @]
     \/ /\ \E error \in {"retryable", "fatal"} : Raise(error)
        /\ UNCHANGED work
  /\ UNCHANGED <<runFrame, health, worker>>

(* The worker answers with the run it already has, starts one when it is    *)
(* free, and is waited out when it is busy or does not answer.             *)
RunSubmit ==
  /\ run.pc = "submit"
  /\ \/ /\ worker[run.job].status = "running"
        /\ Goto("poll")
        /\ UNCHANGED <<worker, work>>
     \/ /\ WorkerActive = NoJob /\ ~closing
        /\ Goto("poll")
        /\ worker' = [worker EXCEPT ![run.job] =
                        [status |-> "running", cancel |-> FALSE, dec |-> run.dec]]
        /\ work' = [work EXCEPT ![run.job] = NoOutput]
     \/ /\ \/ row[run.job].cancel /\ Raise("cancelled")
           \/ ~row[run.job].cancel /\ Raise("lost")
           \/ \E error \in {"retryable", "fatal"} : Raise(error)
        /\ UNCHANGED <<worker, work>>
  /\ UNCHANGED <<runFrame, health, row>>

(* One turn of the polling loop while the worker runs the job. *)
RunPoll ==
  /\ run.pc = "poll"
  /\ \/ /\ worker[run.job].status \in {"running", "none"}
        /\ Put(run.job, UpdateProgress(row[run.job], "working"))
        /\ \/ /\ row[run.job].cancel
              /\ Goto("cancel")
              /\ worker' = [worker EXCEPT ![run.job] = CancelRecord(@)]
           \/ /\ ~row[run.job].cancel
              /\ \/ \E error \in {"lost", "retryable"} : Raise(error)
                 \/ /\ worker[run.job].status = "none"
                    /\ run.resubmits < MaxResubmits
                    /\ run' = [run EXCEPT !.pc = "submit", !.resubmits = @ + 1]
              /\ UNCHANGED worker
     \/ /\ worker[run.job].status = "completed"
        /\ run' = [run EXCEPT !.pc = "validate", !.resubmits = 0]
        /\ UNCHANGED <<row, worker>>
     \/ /\ worker[run.job].status = "failed"
        /\ \E error \in {"retryable", "fatal"} : Raise(error)
        /\ UNCHANGED <<row, worker>>
     \/ /\ worker[run.job].status = "cancelled"
        /\ Raise(IF row[run.job].cancel THEN "cancelled" ELSE "lost")
        /\ UNCHANGED <<row, worker>>
  /\ UNCHANGED <<runFrame, health, work>>

(* cancelOnWorker waits a minute at most, then reports the job cancelled.   *)
RunCancel ==
  /\ run.pc = "cancel"
  /\ \/ Raise(IF row[run.job].cancel THEN "cancelled" ELSE "lost")
     \/ Raise("retryable")
  /\ UNCHANGED <<runFrame, health, row, worker, work>>

(* The report decides on the review; an approval the claim saw skips it. *)
RunValidate ==
  /\ run.pc = "validate"
  /\ Put(run.job, UpdateProgress(row[run.job], "validating"))
  /\ \/ /\ work[run.job] \in Nat
        /\ run' = [run EXCEPT !.pc = "finish",
                     !.review = <<run.job, work[run.job]>> \in ReviewDue /\ ~run.approved]
     \/ Raise("retryable")
  /\ UNCHANGED <<runFrame, health, worker, work>>

(* Review, or on to the library.  Either is refused once a cancel got in,   *)
(* or once the row is no longer this run's.                                *)
RunFinish ==
  /\ run.pc = "finish"
  /\ LET r == row[run.job]
     IN \/ /\ Publishable(r) /\ run.review
           /\ Put(run.job, MarkAwaitingReview(r)) /\ run' = IdleRun
        \/ /\ Publishable(r) /\ ~run.review
           /\ Put(run.job, BeginPublishing(r)) /\ Goto("publish")
        \/ /\ ~Publishable(r)
           /\ Raise("cancelled") /\ UNCHANGED row
  /\ UNCHANGED <<runFrame, health, worker, work>>

(* addFile and replaceFile put the same content in the book once, however   *)
(* often they run.                                                         *)
AddToLibrary(j) ==
  /\ work[j] \in Nat
  /\ library' = [library EXCEPT ![j] = @ \cup {work[j]}]

BugRunPublish ==
  /\ run.pc = "publish"
  /\ Goto("complete")
  /\ AddToLibrary(run.job) \/ UNCHANGED library
  /\ UNCHANGED <<bg, removing, stopping, sweep, recovery, userVars, spent,
                 health, row, worker, closing, work>>

RunPublish ==
  /\ run.pc = "publish"
  /\ \/ AddToLibrary(run.job) /\ Goto("complete")
     \/ Raise("retryable") /\ UNCHANGED library
  /\ UNCHANGED <<bg, removing, stopping, sweep, recovery, userVars, spent,
                 health, row, worker, closing, work>>

RunComplete ==
  /\ run.pc = "complete"
  /\ \/ Put(run.job, Complete(row[run.job])) /\ Goto("remove")
     \/ Raise("retryable") /\ UNCHANGED row
  /\ UNCHANGED <<runFrame, health, worker, work>>

(* handleFailure first looks for a cancel, then settles the row. *)
RunFailure ==
  /\ run.pc = "failure"
  /\ run' = [run EXCEPT !.pc = "settle",
                        !.cancelled = run.error = "cancelled" \/ row[run.job].cancel]
  /\ UNCHANGED <<runFrame, health, row, worker, work>>

(* A failure that cannot be recorded (logUnhandled) ends the run and leaves *)
(* the row to lease recovery.                                              *)
RunSettle ==
  /\ run.pc = "settle"
  /\ LET r == row[run.job]
         transient == ~run.cancelled /\ run.error = "lost" /\ run.attempt < MaxAttempts
         keep == ~run.cancelled /\ run.error # "fatal"
     IN \/ /\ transient
           /\ Put(run.job, Requeue(r)) /\ run' = IdleRun
        \/ /\ ~transient
           /\ Put(run.job, Fail(r, IF keep THEN "open" ELSE "none"))
           /\ IF ~keep /\ Processing(r) THEN Goto("remove") ELSE run' = IdleRun
        \/ run' = IdleRun /\ UNCHANGED row
  /\ UNCHANGED <<runFrame, health, worker, work>>

RunRemove ==
  /\ run.pc = "remove"
  /\ work' = [work EXCEPT ![run.job] = NoFolder]
  /\ run' = IdleRun
  /\ UNCHANGED <<runFrame, health, row, worker>>

RunStep == \/ RunPrepare \/ RunSubmit \/ RunPoll \/ RunCancel \/ RunValidate
           \/ RunFinish \/ RunPublish \/ RunComplete \/ RunFailure \/ RunSettle
           \/ RunRemove

-----------------------------------------------------------------------------
(* publishClaimed: the publication a user started from the review.          *)

bgFrame == <<run, removing, stopping, sweep, recovery, health, worker, closing,
             userVars, spent>>

BgGoto(j, pc) == bg' = [bg EXCEPT ![j] = pc]

BgValidate(j) ==
  /\ bg[j] = "validate"
  /\ \/ work[j] \in Nat /\ BgGoto(j, "publish")
     \/ BgGoto(j, "failure")
  /\ UNCHANGED <<bgFrame, row, work, library>>

BgPublish(j) ==
  /\ bg[j] = "publish"
  /\ \/ AddToLibrary(j) /\ BgGoto(j, "complete")
     \/ BgGoto(j, "failure") /\ UNCHANGED library
  /\ UNCHANGED <<bgFrame, row, work>>

BgComplete(j) ==
  /\ bg[j] = "complete"
  /\ \/ Put(j, Complete(row[j])) /\ BgGoto(j, "remove")
     \/ BgGoto(j, "failure") /\ UNCHANGED row
  /\ UNCHANGED <<bgFrame, work, library>>

BgFailure(j) ==
  /\ bg[j] = "failure"
  /\ Put(j, Fail(row[j], "open")) \/ UNCHANGED row
  /\ BgGoto(j, "none")
  /\ UNCHANGED <<bgFrame, work, library>>

BgRemove(j) ==
  /\ bg[j] = "remove"
  /\ work' = [work EXCEPT ![j] = NoFolder]
  /\ BgGoto(j, "none")
  /\ UNCHANGED <<bgFrame, row, library>>

BgStep(j) == BgValidate(j) \/ BgPublish(j) \/ BgComplete(j) \/ BgFailure(j) \/ BgRemove(j)

-----------------------------------------------------------------------------
(* Leases, their recovery, and the tails of handlers.                       *)

Renew(j) ==
  /\ Beating(j)
  /\ Put(j, Heartbeat(row[j]))
  /\ UNCHANGED <<memory, worker, closing, work, library, userVars, spent>>

(* Five minutes without a heartbeat: the server that held the job is gone,  *)
(* or (a stall) the database or the process stood still for as long.  A     *)
(* lease that ends after a recovery took its time is not due in it.         *)
LeaseLapse(j) ==
  /\ Processing(row[j]) /\ row[j].lease = "live"
  /\ IF Owned(j)
       THEN /\ spent.stalls < MaxStalls
            /\ spent' = [spent EXCEPT !.stalls = @ + 1]
       ELSE UNCHANGED spent
  /\ Put(j, [row[j] EXCEPT !.lease = "lapsed"])
  /\ recovery' = [recovery EXCEPT !.due = @ \ {j}]
  /\ UNCHANGED <<run, bg, removing, stopping, sweep, health, worker, closing,
                 work, library, userVars>>

recoverFrame == <<run, bg, sweep, health, worker, closing, work, library, userVars,
                  spent>>

RecoverStart ==
  /\ recovery.pc = "idle"
  /\ \E j \in Jobs : LeaseExpired(row[j])
  /\ LET due == {j \in Jobs : LeaseExpired(row[j])}
         cancelled == {j \in due : row[j].cancel}
     IN /\ row' = [j \in Jobs |-> RecoverCancelled(row[j])]
        /\ recovery' = [pc |-> "fail", due |-> due]
        /\ removing' = removing \cup cancelled
        /\ stopping' = stopping \cup cancelled
  /\ UNCHANGED recoverFrame

RecoverFail ==
  /\ recovery.pc = "fail"
  /\ row' = [j \in Jobs |-> IF j \in recovery.due THEN RecoverFailed(row[j]) ELSE row[j]]
  /\ stopping' = stopping \cup {j \in recovery.due : row'[j] # row[j]}
  /\ recovery' = [recovery EXCEPT !.pc = "requeue"]
  /\ UNCHANGED <<recoverFrame, removing>>

RecoverRequeue ==
  /\ recovery.pc = "requeue"
  /\ row' = [j \in Jobs |-> IF j \in recovery.due THEN RecoverRequeued(row[j]) ELSE row[j]]
  /\ recovery' = [pc |-> "idle", due |-> {}]
  /\ UNCHANGED <<recoverFrame, removing, stopping>>

RecoveryStep == RecoverStart \/ RecoverFail \/ RecoverRequeue

RemoveFolder(j) ==
  /\ j \in removing
  /\ removing' = removing \ {j}
  /\ work' = [work EXCEPT ![j] = NoFolder]
  /\ UNCHANGED <<row, run, bg, stopping, sweep, recovery, health, worker, closing,
                 library, userVars, spent>>

TellWorker(j) ==
  /\ j \in stopping
  /\ stopping' = stopping \ {j}
  /\ \/ worker' = [worker EXCEPT ![j] = CancelRecord(@)]
     \/ UNCHANGED worker
  /\ UNCHANGED <<row, run, bg, removing, sweep, recovery, health, closing, work,
                 library, userVars, spent>>

-----------------------------------------------------------------------------
(* The hourly sweep. *)

ExpireReviews(j) ==
  /\ row[j].status = "awaiting_review"
  /\ Put(j, ExpireReview(row[j]))
  /\ removing' = removing \cup {j}
  /\ UNCHANGED <<run, bg, stopping, sweep, recovery, health, worker, closing,
                 work, library, userVars, spent>>

WindowLapse(j) ==
  /\ Retryable(row[j])
  /\ Put(j, ClearExpiredWorkWindow(row[j]))
  /\ UNCHANGED <<memory, worker, closing, work, library, userVars, spent>>

sweepFrame == <<run, bg, removing, stopping, recovery, health, row, worker,
                closing, library, userVars, spent>>

(* removeOrphanFolders reads the jobs to keep, then lists the folders, then *)
(* removes the others one by one.                                          *)
SweepKeep ==
  /\ sweep.pc = "idle"
  /\ \E j \in Jobs : work[j] # NoFolder /\ ~KeepsWork(row[j])
  /\ sweep' = [pc |-> "list", keep |-> {j \in Jobs : KeepsWork(row[j])}, todo |-> {}]
  /\ UNCHANGED <<sweepFrame, work>>

SweepList ==
  /\ sweep.pc = "list"
  /\ sweep' = [pc |-> "remove", keep |-> {},
               todo |-> {j \in Jobs : work[j] # NoFolder} \ sweep.keep]
  /\ UNCHANGED <<sweepFrame, work>>

SweepRemove ==
  /\ sweep.pc = "remove"
  /\ \/ \E j \in sweep.todo :
          /\ work' = [work EXCEPT ![j] = NoFolder]
          /\ sweep' = [sweep EXCEPT !.todo = @ \ {j}]
     \/ /\ sweep.todo = {}
        /\ sweep' = [pc |-> "idle", keep |-> {}, todo |-> {}]
        /\ UNCHANGED work
  /\ UNCHANGED sweepFrame

SweepStep == SweepKeep \/ SweepList \/ SweepRemove

-----------------------------------------------------------------------------
(* The worker, and the processes that stop. *)

workerFrame == <<row, memory, library, userVars>>

(* A runner ends: a cancel it was sent wins over what it made. *)
WorkerFinish(j) ==
  /\ worker[j].status = "running"
  /\ \/ /\ worker[j].cancel
        /\ worker' = [worker EXCEPT ![j].status = "cancelled"]
        /\ UNCHANGED work
     \/ /\ ~worker[j].cancel /\ work[j] # NoFolder
        /\ worker' = [worker EXCEPT ![j].status = "completed"]
        /\ work' = [work EXCEPT ![j] = worker[j].dec]
     \/ /\ ~worker[j].cancel
        /\ worker' = [worker EXCEPT ![j].status = "failed"]
        /\ UNCHANGED work
  /\ UNCHANGED <<workerFrame, closing, spent>>

(* A shutdown cancels the running job itself and waits for its runner; the  *)
(* next process has no records.  A crash loses them at any time.           *)
WorkerShutdown ==
  /\ spent.stops < MaxWorkerStops /\ ~closing
  /\ spent' = [spent EXCEPT !.stops = @ + 1]
  /\ closing' = TRUE
  /\ worker' = [j \in Jobs |-> CancelRecord(worker[j])]
  /\ UNCHANGED <<workerFrame, work>>

WorkerExit ==
  /\ closing /\ WorkerActive = NoJob
  /\ closing' = FALSE
  /\ worker' = [j \in Jobs |-> NoRecord]
  /\ UNCHANGED <<workerFrame, work, spent>>

WorkerCrash ==
  /\ spent.stops < MaxWorkerStops
  /\ spent' = [spent EXCEPT !.stops = @ + 1]
  /\ closing' = FALSE
  /\ worker' = [j \in Jobs |-> NoRecord]
  /\ UNCHANGED <<workerFrame, work>>

ServerCrash ==
  /\ spent.crashes < MaxCrashes
  /\ spent' = [spent EXCEPT !.crashes = @ + 1]
  /\ run' = IdleRun /\ bg' = [j \in Jobs |-> "none"]
  /\ removing' = {} /\ stopping' = {}
  /\ sweep' = [pc |-> "idle", keep |-> {}, todo |-> {}]
  /\ recovery' = [pc |-> "idle", due |-> {}]
  /\ health' = WorkerActive
  /\ UNCHANGED <<row, worker, closing, work, library, userVars>>

-----------------------------------------------------------------------------
UserStep(j) == Create(j) \/ Cancel(j) \/ Publish(j) \/ ResyncJob(j) \/ RetryJob(j)

Next ==
  \/ \E j \in Jobs : UserStep(j) \/ Tick(j) \/ TickAdopt(j) \/ BgStep(j)
                     \/ Renew(j) \/ LeaseLapse(j) \/ RemoveFolder(j) \/ TellWorker(j)
                     \/ ExpireReviews(j) \/ WindowLapse(j)
                     \/ WorkerFinish(j)
  \/ RefreshHealth \/ TickUnwanted \/ RunStep \/ RecoveryStep \/ SweepStep
  \/ WorkerShutdown \/ WorkerExit \/ WorkerCrash \/ ServerCrash

Spec == Init /\ [][Next]_vars

Dispatch == TickUnwanted \/ \E j \in Jobs : Tick(j) \/ TickAdopt(j)

(* What runs without being asked: intervals and timers of the server, the   *)
(* promises it has started, and the worker's runner, which is assumed to    *)
(* end.  Nothing is assumed of users, of failures, or of a stalled lease.   *)
Fairness ==
  /\ WF_vars(Dispatch) /\ WF_vars(RefreshHealth) /\ WF_vars(RunStep)
  /\ WF_vars(RecoveryStep) /\ WF_vars(SweepStep) /\ WF_vars(WorkerExit)
  /\ \A j \in Jobs :
       /\ WF_vars(BgStep(j)) /\ WF_vars(RemoveFolder(j)) /\ WF_vars(TellWorker(j))
       /\ WF_vars(WorkerFinish(j)) /\ WF_vars(LeaseLapse(j) /\ ~Owned(j))

FairSpec == Spec /\ Fairness

-----------------------------------------------------------------------------
(* Safety. *)

(* A cancel either stops a job before its file reaches the library or is    *)
(* refused: no file is written for a job whose row says cancel (the comment *)
(* on beginPublishing).                                                     *)
NoPublishAfterCancel ==
  [][\A j \in Jobs : library'[j] # library[j] => ~row[j].cancel]_vars

(* An output whose report asks for review is in the library only if a user  *)
(* chose to add that very output: neither a restart, a retry nor a re-sync  *)
(* carries an approval over to output the user has not seen.                *)
NothingUnreviewed ==
  \A j \in Jobs : \A v \in library[j] : <<j, v>> \in ReviewDue => v \in approvals[j]

(* A job puts at most one output in its book, although it may publish again *)
(* after a crash and be re-synced in between.                               *)
OneOutputPerJob == \A j \in Jobs : \A v, w \in library[j] : v = w

(* A review offers the output of the row's own decisions, in a folder that  *)
(* no cleanup has removed: not the handler of an earlier cancel or failure, *)
(* not recovery, not the sweep.  (A job created while a sweep has read its  *)
(* keep set is the exception: see README.md.)                               *)
ReviewKeepsOutput ==
  \A j \in Jobs \ unseen : row[j].status = "awaiting_review" => work[j] = row[j].dec

(* A job that takes its server down with it is not picked up forever: no    *)
(* claim goes past READ_ALOUD_MAX_ATTEMPTS, whoever requeued the job.       *)
AttemptsBounded == \A j \in Jobs : row[j].attempt <= MaxAttempts

(* A completed job has put the output of its decisions in the book.         *)
DoneMeansPublished ==
  \A j \in Jobs : row[j].status = "completed" => row[j].dec \in library[j]

(* A job can no longer be cancelled once its output is being added to the   *)
(* book, including after a restart interrupted that step.                   *)
PublishedNotCancelled ==
  \A j \in Jobs : row[j].status = "cancelled" => library[j] = {}

Publishing(j) ==
  \/ bg[j] \in {"validate", "publish"}
  \/ run.job = j /\ run.pc \in {"finish", "publish"}

(* While the server checks or copies an output, the worker is not making it *)
(* again in the same folder.                                               *)
SoleWriter == \A j \in Jobs : Publishing(j) => worker[j].status # "running"

(* One job at a time is active on a book, also when a failed job is retried *)
(* after a new one was created (the partial unique index).                  *)
OneActivePerBook ==
  \A j, k \in Jobs : j # k /\ Active(row[j]) /\ Active(row[k]) => BookOf[j] # BookOf[k]

-----------------------------------------------------------------------------
(* What the safety of a publication and the bound on attempts rest on. *)

Running(j) == run.job = j /\ run.pc \notin {"idle", "remove"}
BgRunning(j) == bg[j] \in {"validate", "publish", "complete", "failure"}

(* Without stalls, a row belongs to whoever in the server is on it: it      *)
(* stays processing under a live lease, one run or one publication is on    *)
(* it and not both, and once it is publishing nobody can cancel it.         *)
Ownership ==
  \A j \in Jobs :
    /\ Running(j) =>
         /\ Processing(row[j]) /\ row[j].lease = "live" /\ ~BgRunning(j)
         /\ run.pc \in {"publish", "complete"} =>
              row[j].stage = "publishing" /\ ~row[j].cancel
    /\ BgRunning(j) =>
         /\ Processing(row[j]) /\ row[j].lease = "live"
         /\ row[j].stage = "publishing" /\ ~row[j].cancel

(* A claim always has an attempt left.  The run's copy of the count is the  *)
(* row's for as long as the row is processing, and what recovery found      *)
(* expired and has not failed has an attempt left when it is requeued.      *)
AttemptsLeft ==
  /\ AttemptsBounded
  /\ \A j \in Jobs : row[j].status = "queued" => row[j].attempt < MaxAttempts
  /\ run.pc # "idle" =>
       /\ row[run.job].status # "awaiting_review"
       /\ Processing(row[run.job]) => run.attempt = row[run.job].attempt
  /\ recovery.pc = "requeue" =>
       \A j \in recovery.due :
         LeaseExpired(row[j]) /\ ~row[j].cancel => row[j].attempt < MaxAttempts

-----------------------------------------------------------------------------
(* What a user sees of this, and the promise it keeps. *)

PhaseOf(r) ==
  CASE r.status = "absent" -> "none"
    [] r.status = "queued" -> "waiting"
    [] r.status = "processing" -> "running"
    [] r.status = "awaiting_review" -> "review"
    [] r.status = "completed" -> "done"
    [] OTHER -> r.status

Lifecycle == INSTANCE ReadAloudLifecycle WITH
  job <- [j \in Jobs |-> [phase |-> PhaseOf(row[j]), stop |-> row[j].cancel,
                          added |-> library[j] # {}]]

(* The processes together keep the promise of ReadAloudLifecycle to every   *)
(* user: in particular no interleaving of a cancel with the dispatch loop,  *)
(* a failure or recovery lets a stopped job be queued again or finish.      *)
KeepsPromise == Lifecycle!Spec

-----------------------------------------------------------------------------
(* Liveness. *)

(* A cancel that was accepted ends the job as cancelled, whichever of the   *)
(* dispatch loop, the failure handler and lease recovery gets to it, and    *)
(* whether or not the server or the worker stops in between.                *)
CancelEnds ==
  \A j \in Jobs : row[j].cancel ~> row[j].status = "cancelled"

(* A job that is queued or processing ends, or comes to wait for a review:  *)
(* the only dispatch slot is never held for good, and a job the worker runs *)
(* without a server is adopted or stopped.                                  *)
JobsSettle ==
  \A j \in Jobs :
    row[j].status \in {"queued", "processing"} ~>
      row[j].status \in TerminalStatus \cup {"awaiting_review"}

(* The work folder of a job that is over is removed for good, also when the *)
(* server died between ending the job and removing its folder.              *)
FoldersReclaimed ==
  \A j \in Jobs :
    row[j].status \in {"completed", "cancelled"} ~> [](work[j] = NoFolder)
=============================================================================
