----------------------------- MODULE JobWorker -----------------------------
(***************************************************************************)
(* JOB_WORKER of the subconscious server (src/tools/subcon/job_worker.cpp):*)
(* one thread that does the slow work, one job in the pipeline at a time.  *)
(* The main loop submits a job, takes its result, may abort the job in the *)
(* pipeline and stops the thread.  A job is its id; what a model or a web  *)
(* page answers is abstracted to whether the job came to its end ("done")  *)
(* or not ("failed": cut short, refused, unreachable, threw).              *)
(***************************************************************************)
EXTENDS Naturals

CONSTANT MaxJob  \* the highest job id the main loop hands out (a bound)

ASSUME MaxJobAssumption == MaxJob \in Nat

VARIABLES
  pending,    \* id of the accepted job the thread has not picked up, or 0
  running,    \* id of the job the thread is on, or 0
  finished,   \* the result nobody has taken, or NoResult
  abort_any,  \* what the transfer's progress callback polls
  stopping,   \* the thread is to leave
  thread,     \* "waiting", "running", "storing" or "gone"
  computed,   \* the thread's own result, before it is stored
  next_job_id,\* the reasoner's numbering: upwards, never twice
  cut         \* ids aborted before the job had come to its end (history)

jobVars == <<pending, running, finished, abort_any, stopping, thread, computed, next_job_id, cut>>

Job      == 1..MaxJob
Outcome  == {"done", "failed"}
NoResult == [id |-> 0, outcome |-> "failed"]
Result   == [id : 0..MaxJob, outcome : Outcome]

\* pending.has_value() || running || finished.has_value()
Busy == pending # 0 \/ running # 0 \/ finished # NoResult

JobInit ==
  /\ pending = 0 /\ running = 0 /\ finished = NoResult
  /\ abort_any = FALSE /\ stopping = FALSE
  /\ thread = "waiting" /\ computed = NoResult
  /\ next_job_id = 1 /\ cut = {}

\* A new process has a new worker.
JobRestart ==
  /\ pending' = 0 /\ running' = 0 /\ finished' = NoResult
  /\ abort_any' = FALSE /\ stopping' = FALSE
  /\ thread' = "waiting" /\ computed' = NoResult
  /\ next_job_id' = 1 /\ cut' = {}

-----------------------------------------------------------------------------
(* The main loop's calls.                                                  *)

Accepts == ~Busy /\ ~stopping

\* submit(), accepted: a fresh job starts un-aborted.
Submit ==
  /\ Accepts
  /\ pending' = next_job_id
  /\ next_job_id' = next_job_id + 1
  /\ abort_any' = FALSE
  /\ UNCHANGED <<running, finished, stopping, thread, computed, cut>>

TakeResult ==
  /\ finished # NoResult
  /\ finished' = NoResult
  /\ UNCHANGED <<pending, running, abort_any, stopping, thread, computed, next_job_id, cut>>

\* The job the abort reaches before its end: accepted, or being worked on.
Unfinished ==
  IF thread = "running" THEN {running} ELSE {pending} \ {0}

AbortCurrent ==
  /\ abort_any' = TRUE
  /\ cut' = cut \cup Unfinished
  /\ UNCHANGED <<pending, running, finished, stopping, thread, computed, next_job_id>>

\* stop() up to the join.
RequestStop ==
  /\ stopping' = TRUE
  /\ abort_any' = TRUE
  /\ cut' = cut \cup Unfinished
  /\ UNCHANGED <<pending, running, finished, thread, computed, next_job_id>>

-----------------------------------------------------------------------------
(* The thread.                                                             *)

\* A mutant: the abort flag is cleared when the job is picked up.
PickUpUnaborted ==
  /\ thread = "waiting" /\ ~stopping /\ pending # 0
  /\ abort_any' = FALSE
  /\ running' = pending
  /\ pending' = 0
  /\ thread' = "running"
  /\ UNCHANGED <<finished, stopping, computed, next_job_id, cut>>

\* The wait ends: a job is there and nobody asked the thread to leave.
PickUp ==
  /\ thread = "waiting" /\ ~stopping /\ pending # 0
  /\ running' = pending
  /\ pending' = 0
  /\ thread' = "running"
  /\ UNCHANGED <<finished, abort_any, stopping, computed, next_job_id, cut>>

\* A mutant: the wait only ends for a job.
LeaveWithJob ==
  /\ thread = "waiting" /\ stopping /\ pending # 0
  /\ thread' = "gone"
  /\ UNCHANGED <<pending, running, finished, abort_any, stopping, computed, next_job_id, cut>>

Leave ==
  /\ thread = "waiting" /\ stopping
  /\ thread' = "gone"
  /\ UNCHANGED <<pending, running, finished, abort_any, stopping, computed, next_job_id, cut>>

\* The job itself.  The transfer polls abort_any and is cut when it is up.
Perform ==
  /\ thread = "running"
  /\ \E o \in IF abort_any THEN {"failed"} ELSE Outcome :
        computed' = [id |-> running, outcome |-> o]
  /\ thread' = "storing"
  /\ UNCHANGED <<pending, running, finished, abort_any, stopping, next_job_id, cut>>

Store ==
  /\ thread = "storing"
  /\ finished' = computed
  /\ running' = 0
  /\ computed' = NoResult
  /\ thread' = "waiting"
  /\ UNCHANGED <<pending, abort_any, stopping, next_job_id, cut>>

WorkerThread == PickUp \/ Leave \/ Perform \/ Store

-----------------------------------------------------------------------------
(* The worker on its own, under a main loop that may call it in any order. *)

JobNext ==
  \/ next_job_id <= MaxJob /\ Submit
  \/ TakeResult \/ AbortCurrent \/ RequestStop \/ WorkerThread

Spec == JobInit /\ [][JobNext]_jobVars

-----------------------------------------------------------------------------
(* Properties.                                                             *)

\* A job that was aborted before it came to its end does not come to its
\* end: submit()'s comment tells of the abort that was lost between the
\* submission and the pick-up (job_worker.cpp:21).
AbortedIsCut ==
  \A r \in {finished, computed} : r.id \in cut => r.outcome = "failed"
=============================================================================
