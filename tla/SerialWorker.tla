----------------------------- MODULE SerialWorker -----------------------------
(***************************************************************************)
(* What MSWorkerThread (src/base/msasync.c) promises to the code that      *)
(* queues one-shot tasks on it with ms_worker_thread_add_task(): the jobs  *)
(* are executed one at a time, each of them once, in the order in which    *)
(* they were queued.  A job may be withdrawn before it starts.  Once the   *)
(* worker is being destroyed nothing is queued any more, and what is still *)
(* pending is executed or dropped, according to finish_tasks.              *)
(*                                                                         *)
(* WorkerThread implements this module; the asynchronous reader of         *)
(* FilePlayer and the asynchronous writer of FileRecorder are built on it. *)
(***************************************************************************)
EXTENDS Naturals, Sequences

CONSTANTS Jobs, \* what may be queued
          Idle  \* no job is being executed

VARIABLES pending, \* the jobs that wait for their turn
          active,  \* the job whose function runs
          closing  \* "no", or what the destruction does with pending jobs

wvars == <<pending, active, closing>>

WInit == pending = << >> /\ active = Idle /\ closing = "no"

\* ms_worker_thread_add_task()
Submit(j) ==
  /\ closing = "no"
  /\ pending' = Append(pending, j)
  /\ UNCHANGED <<active, closing>>

\* ms_task_cancel() before the job starts.
Withdraw(i) ==
  /\ pending' = SubSeq(pending, 1, i - 1) \o SubSeq(pending, i + 1, Len(pending))
  /\ UNCHANGED <<active, closing>>

\* The job's function is called.
Start ==
  /\ active = Idle /\ pending # << >> /\ closing # "drop"
  /\ active' = Head(pending) /\ pending' = Tail(pending)
  /\ UNCHANGED closing

\* The job's function returns.
Finish ==
  /\ active # Idle /\ active' = Idle
  /\ UNCHANGED <<pending, closing>>

\* ms_worker_thread_destroy(finish_tasks)
Close(finish) ==
  /\ closing = "no" /\ closing' = IF finish THEN "finish" ELSE "drop"
  /\ UNCHANGED <<pending, active>>

\* A pending job is marked done without having been executed.
Discard ==
  /\ active = Idle /\ pending # << >> /\ closing = "drop"
  /\ pending' = Tail(pending)
  /\ UNCHANGED <<active, closing>>

WNext == \/ \E j \in Jobs : Submit(j)
         \/ \E i \in DOMAIN pending : Withdraw(i)
         \/ Start \/ Finish \/ Discard
         \/ \E finish \in BOOLEAN : Close(finish)

WSafety == WInit /\ [][WNext]_wvars

\* Functions return, and the worker goes on as long as there is a job.
WFairness == WF_wvars(Start \/ Finish \/ Discard)

WSpec == WSafety /\ WFairness
===============================================================================
