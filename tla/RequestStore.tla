---------------------------- MODULE RequestStore ----------------------------
(***************************************************************************)
(* Book requests and their download attempts: the statuses, the sets of    *)
(* statuses the updates are conditional on, and the conditional update.    *)
(* Everything concurrent meets in these two tables, so each update is one  *)
(* atomic step of the modules that use it.                                 *)
(*                                                                         *)
(* An attempt keeps its request, its status, whether automation made it,   *)
(* whether it points at its Book Dock entry, and whether it lists several  *)
(* books to choose from.                                                   *)
(*                                                                         *)
(* A definition called Bug... is a wrong version of the one after it, put  *)
(* in its place to see that a property notices.                            *)
(***************************************************************************)
EXTENDS Naturals

(* Requests. *)

ActiveRequest == {"pending", "approved", "searching", "grabbed", "downloading",
                  "importing", "needs_review"}
RequestStatus == ActiveRequest \cup {"rejected", "cancelled", "available", "failed"}

BugGrabbable == {"approved", "searching", "failed", "grabbed"}
Grabbable == {"approved", "searching", "failed"}

Cancellable == ActiveRequest \cup {"failed"}

Fulfillable == ActiveRequest \cup {"failed"}

BugWorkerWritable == ActiveRequest \cup {"failed", "cancelled"}

WorkerWritable == ActiveRequest \cup {"failed"}

DownloadingFrom == {"grabbed", "downloading"}

ActiveTransferRequest == {"grabbed", "downloading"}

FileableFrom == {"importing", "needs_review"}

Abandonable == {"approved", "searching"}

(* Attempts. *)

ActiveAttempt == {"queued", "downloading"}
InFlight == ActiveAttempt \cup {"completed", "importing"}
Unsettled == InFlight \cup {"needs_review"}
AttemptStatus == Unsettled \cup {"imported", "failed"}

(* updateIf: the new status, or the old one when the row has moved on. *)
UpdateIf(status, expected, new) == IF status \in expected THEN new ELSE status
=============================================================================
