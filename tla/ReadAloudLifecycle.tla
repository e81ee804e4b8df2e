------------------------- MODULE ReadAloudLifecycle -------------------------
(***************************************************************************)
(* What a user is promised of read-aloud jobs, without the processes,      *)
(* leases, folders and retries that bring it about.                        *)
(*                                                                         *)
(*  - One job at a time is active on a book.                               *)
(*  - A job that was asked to stop is stopped: it is not queued again, not *)
(*    offered for review, adds no file, and ends as cancelled.             *)
(*  - A file reaches the book only while the job runs, and a job is done   *)
(*    only with its file there.                                            *)
(*  - A done and a cancelled job stay as they are.                         *)
(***************************************************************************)
EXTENDS FiniteSets

CONSTANTS Jobs, BookOf

VARIABLE job    \* what a user sees of each job

Phase == {"none", "waiting", "running", "review", "done", "failed", "cancelled"}
InProgress == {"waiting", "running", "review"}

Job == [phase : Phase, stop : BOOLEAN, added : BOOLEAN]

Init == job = [j \in Jobs |-> [phase |-> "none", stop |-> FALSE, added |-> FALSE]]

Free(j) ==
  \A k \in Jobs : k # j /\ job[k].phase \in InProgress => BookOf[k] # BookOf[j]

(* Job j moves from one phase to another, and nothing else happens. *)
Move(j, from, to) ==
  /\ job[j].phase = from
  /\ job' = [job EXCEPT ![j].phase = to]

Request(j) == Free(j) /\ Move(j, "none", "waiting")
Start(j)   == Move(j, "waiting", "running")
Offer(j)   == ~job[j].stop /\ Move(j, "running", "review")
Approve(j) == Move(j, "review", "running")
Redo(j)    == Move(j, "review", "waiting")
Expire(j)  == Move(j, "review", "cancelled")
Again(j)   == Free(j) /\ Move(j, "failed", "waiting")
Finish(j)  == job[j].added /\ ~job[j].stop /\ Move(j, "running", "done")

Add(j) ==
  /\ job[j].phase = "running" /\ ~job[j].stop
  /\ job' = [job EXCEPT ![j].added = TRUE]

Stop(j) ==
  /\ job[j].phase \in InProgress
  /\ job' = [job EXCEPT ![j].stop = TRUE,
                        ![j].phase = IF @ = "running" THEN @ ELSE "cancelled"]

(* What becomes of a running job that fails or loses its server. *)
Interrupted(r) ==
  IF r.stop THEN {[r EXCEPT !.phase = "cancelled"]}
            ELSE {[r EXCEPT !.phase = p] : p \in {"waiting", "failed"}}

(* One job fails, or recovery finds several. *)
Interrupt ==
  /\ job' \in [Jobs -> Job]
  /\ \A j \in Jobs :
       job'[j] # job[j] => job[j].phase = "running" /\ job'[j] \in Interrupted(job[j])

Next ==
  \/ \E j \in Jobs : \/ Request(j) \/ Start(j) \/ Offer(j) \/ Approve(j) \/ Redo(j)
                     \/ Expire(j) \/ Again(j) \/ Finish(j) \/ Add(j) \/ Stop(j)
  \/ Interrupt

Spec == Init /\ [][Next]_job
=============================================================================
