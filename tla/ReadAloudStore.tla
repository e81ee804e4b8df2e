--------------------------- MODULE ReadAloudStore ---------------------------
(***************************************************************************)
(* The read-aloud job table: one operator per conditional UPDATE of        *)
(* ReadAloudJobRepository.  An update is a guard (its WHERE clause) and    *)
(* the row it leaves (its SET clause).  Everything that runs concurrently  *)
(* meets in these rows, so each update is one atomic step of the modules   *)
(* that use it.                                                            *)
(*                                                                         *)
(* Times are kept as what the code can tell of them: a lease is "live" or  *)
(* "lapsed", the retry window of a failed job "open" or "none".  The       *)
(* worker stages before validation are one value, "working"; the chapter   *)
(* decisions of a re-sync are a version number, dec.  The two completed    *)
(* statuses are one.                                                       *)
(*                                                                         *)
(* A definition called Bug... is a wrong version of the one after it, put  *)
(* in its place to see that a property notices.                            *)
(***************************************************************************)
EXTENDS Integers

CONSTANT MaxAttempts    \* READ_ALOUD_MAX_ATTEMPTS

ASSUME MaxAttemptsAssumption == MaxAttempts \in Nat \ {0}

ActiveStatus == {"queued", "processing", "awaiting_review"}
TerminalStatus == {"completed", "failed", "cancelled"}
Stage == {"queued", "working", "validating", "awaiting_review", "publishing",
          "completed"}

Row == [status   : {"absent"} \cup ActiveStatus \cup TerminalStatus,
        stage    : Stage,
        attempt  : Nat,
        cancel   : BOOLEAN,
        approved : BOOLEAN,
        lease    : {"none", "live", "lapsed"},
        window   : {"none", "open"},
        dec      : Nat]

NoRow == [status |-> "absent", stage |-> "queued", attempt |-> 0,
          cancel |-> FALSE, approved |-> FALSE, lease |-> "none",
          window |-> "none", dec |-> 0]

Active(r) == r.status \in ActiveStatus
Processing(r) == r.status = "processing"

-----------------------------------------------------------------------------
(* Creation and claiming. *)

NewRow == [NoRow EXCEPT !.status = "queued"]

Claimable(r) == r.status = "queued" /\ ~r.cancel

ClaimQueued(r) ==
  [r EXCEPT !.status = "processing", !.stage = "working",
            !.attempt = @ + 1, !.lease = "live"]

-----------------------------------------------------------------------------
(* Updates of a processing row; on any other row they change nothing. *)

Heartbeat(r) == IF Processing(r) THEN [r EXCEPT !.lease = "live"] ELSE r

UpdateProgress(r, stage) ==
  IF Processing(r) THEN [r EXCEPT !.stage = stage, !.lease = "live"] ELSE r

BugPublishable(r) == Processing(r)

Publishable(r) == Processing(r) /\ ~r.cancel

BeginPublishing(r) == [r EXCEPT !.stage = "publishing", !.lease = "live"]

MarkAwaitingReview(r) ==
  [r EXCEPT !.status = "awaiting_review", !.stage = "awaiting_review",
            !.lease = "none", !.approved = FALSE]

Complete(r) ==
  IF Processing(r)
    THEN [r EXCEPT !.status = "completed", !.stage = "completed",
                   !.lease = "none", !.window = "none"]
    ELSE r

(* A pending cancellation wins over the failure. *)
Fail(r, window) ==
  IF Processing(r)
    THEN [r EXCEPT !.status = IF r.cancel THEN "cancelled" ELSE "failed",
                   !.window = IF r.cancel THEN "none" ELSE window,
                   !.lease = "none"]
    ELSE r

BugRequeue(r) ==
  IF Processing(r) THEN [r EXCEPT !.status = "queued", !.stage = "queued", !.lease = "none"]
                   ELSE r

Requeue(r) ==
  IF Processing(r)
    THEN [r EXCEPT !.status = IF r.cancel THEN "cancelled" ELSE "queued",
                   !.stage = IF r.cancel THEN @ ELSE "queued",
                   !.lease = "none"]
    ELSE r

-----------------------------------------------------------------------------
(* What a user asks for. *)

Cancellable(r) ==
  /\ Active(r)
  /\ ~(Processing(r) /\ r.stage = "publishing")
  /\ ~r.approved

RequestCancellation(r) ==
  [r EXCEPT !.cancel = TRUE,
            !.status = IF Processing(r) THEN @ ELSE "cancelled",
            !.window = "none"]

ReviewOpen(r) == r.status = "awaiting_review" /\ ~r.cancel

BugClaimForPublishing(r) ==
  [r EXCEPT !.status = "processing", !.stage = "publishing", !.lease = "live"]

ClaimForPublishing(r) ==
  [r EXCEPT !.status = "processing", !.stage = "publishing",
            !.approved = TRUE, !.lease = "live"]

Resync(r) ==
  [r EXCEPT !.status = "queued", !.stage = "queued", !.approved = FALSE,
            !.attempt = 0, !.dec = @ + 1]

Retryable(r) == r.status = "failed" /\ r.window = "open"

Retry(r) ==
  [r EXCEPT !.status = "queued", !.stage = "queued", !.attempt = 0,
            !.cancel = FALSE, !.window = "none"]

-----------------------------------------------------------------------------
(* What housekeeping does.  recoverExpiredLeases is three updates in this  *)
(* order; each sees the rows as the one before it, and whatever ran        *)
(* between them, left them.                                                *)

BugLeaseExpired(r) == Processing(r)
BugLeaseMissing(r) == Processing(r) /\ r.lease = "none"

LeaseExpired(r) == Processing(r) /\ r.lease # "live"

BugRecoverCancelled(r) == r

RecoverCancelled(r) ==
  IF LeaseExpired(r) /\ r.cancel
    THEN [r EXCEPT !.status = "cancelled", !.lease = "none", !.window = "none"]
    ELSE r

RecoverFailed(r) ==
  IF LeaseExpired(r) /\ ~r.cancel /\ r.attempt >= MaxAttempts
    THEN [r EXCEPT !.status = "failed", !.lease = "none", !.window = "open"]
    ELSE r

BugRecoverApproved(r) ==
  IF LeaseExpired(r) /\ ~r.cancel
    THEN [r EXCEPT !.status = "queued", !.stage = "queued", !.lease = "none",
                   !.approved = TRUE]
    ELSE r

BugRecoverForgetful(r) ==
  IF LeaseExpired(r) /\ ~r.cancel
    THEN [r EXCEPT !.status = "queued", !.stage = "queued", !.lease = "none"]
    ELSE r

RecoverRequeued(r) ==
  IF LeaseExpired(r) /\ ~r.cancel
    THEN [r EXCEPT !.status = "queued", !.stage = "queued", !.lease = "none",
                   !.approved = @ \/ r.stage = "publishing"]
    ELSE r

ExpireReview(r) == [r EXCEPT !.status = "cancelled"]

ClearExpiredWorkWindow(r) == [r EXCEPT !.window = "none"]

BugKeepsUnreviewed(r) == r.status \in {"queued", "processing"} \/ Retryable(r)
BugKeepsCancelled(r) == Active(r) \/ r.status \in {"failed", "cancelled"}

KeepsWork(r) == Active(r) \/ Retryable(r)
=============================================================================
