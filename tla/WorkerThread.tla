----------------------------- MODULE WorkerThread -----------------------------
(***************************************************************************)
(* The worker thread of src/base/msasync.c: client threads queue tasks on  *)
(* an MSWorkerThread, cancel them, wait for them and destroy them while    *)
(* the worker executes them.  One condition variable is shared by the idle *)
(* worker and by the clients that wait for a completion.                   *)
(*                                                                         *)
(* A client's critical section under worker->mutex is one step.  The       *)
(* worker keeps the mutex over several steps; WorkerHolds says when.  The  *)
(* places where the code releases the mutex are program counter values of  *)
(* their own: "func" (the task's function runs), "release" (destruction of *)
(* an auto_release task), "bcast", "sleep" and "wait".                     *)
(*                                                                         *)
(* The clock is abstract: whether a repeated task is due (curtime >=       *)
(* repeat_at) is a free choice except for its first turn, which is always  *)
(* due (repeat_at == 0).                                                   *)
(***************************************************************************)
EXTENDS Naturals, Sequences

CONSTANTS
  Tasks,          \* the MSTask objects that may be allocated in a run
  Clients,        \* the threads that use the worker
  NoTask,         \* the null task pointer
  NoClient,       \* owner of a task nobody holds a handle on
  DestroyAnyTime  \* TRUE: ms_task_destroy() may be called at any moment, as
                  \* msasync.h allows; FALSE: only once a wait on the task
                  \* has returned, as every caller in the code base does

ASSUME ConstantsOK == /\ NoTask \notin Tasks
                      /\ NoClient \notin Clients
                      /\ DestroyAnyTime \in BOOLEAN

VARIABLES
  running, finishTasks, inwait, \* fields of MSWorkerThread
  tasks,                        \* worker->tasks
  todo, kept,                   \* the batch taken from it: still to process,
                                \* processed and not dropped
  cur,                          \* task being processed without the mutex
  wpc,                          \* worker's control point
  state,                        \* field of MSTask
  repeated, autoRelease, started, \* the tasks with repeat_interval # 0, with
                                \* auto_release set, with repeat_at # 0
  mem,                          \* "none", "alive" or "freed"
  owner,                        \* client that holds a handle on the task
  settled,                      \* the tasks on which a wait has returned
  cpc, arg, cont                \* client's control point, the task of its
                                \* call and where a wait returns to

workerVars == <<running, finishTasks, inwait, tasks, todo, kept, cur, wpc>>
taskVars   == <<state, repeated, autoRelease, started, mem>>
clientVars == <<owner, settled, cpc, arg, cont>>
vars == <<workerVars, taskVars, clientVars>>

TaskStates == {"Init", "Queued", "Cancelled", "Running", "Done"}
WorkerPcs  == {"start", "top", "iter", "func", "release", "bcast", "after",
               "sleep", "wait", "woken", "exited"}
ClientPcs  == {"idle", "wait", "woken", "destroy", "canceldestroy", "dcancel",
               "dwait", "free", "join", "gone"}

Elems(s) == {s[i] : i \in DOMAIN s}
NoDup(s) == \A i, j \in DOMAIN s : s[i] = s[j] => i = j

WorkerTypeOK ==
  /\ running \in BOOLEAN /\ finishTasks \in BOOLEAN /\ inwait \in BOOLEAN
  /\ tasks \in Seq(Tasks) /\ todo \in Seq(Tasks) /\ kept \in Seq(Tasks)
  /\ cur \in Tasks \cup {NoTask}
  /\ wpc \in WorkerPcs
TaskTypeOK ==
  /\ state \in [Tasks -> TaskStates]
  /\ repeated \subseteq Tasks /\ autoRelease \subseteq Tasks /\ started \subseteq Tasks
  /\ mem \in [Tasks -> {"none", "alive", "freed"}]
  /\ \A t \in Tasks : state[t] = "Init" <=> mem[t] = "none"
ClientTypeOK ==
  /\ owner \in [Tasks -> Clients \cup {NoClient}]
  /\ settled \subseteq Tasks
  /\ cpc \in [Clients -> ClientPcs]
  /\ arg \in [Clients -> Tasks \cup {NoTask}]
  /\ cont \in [Clients -> {"idle", "free"}]
\* The values every field, list and control point may take.  A task leaves
\* MSTaskInit before anybody can see it (ms_worker_thread_queue_task).
TypeOK == WorkerTypeOK /\ TaskTypeOK /\ ClientTypeOK

Init ==
  /\ running = TRUE /\ finishTasks = FALSE /\ inwait = FALSE
  /\ tasks = <<>> /\ todo = <<>> /\ kept = <<>>
  /\ cur = NoTask
  /\ wpc = "start"
  /\ state = [t \in Tasks |-> "Init"]
  /\ repeated = {} /\ autoRelease = {} /\ started = {} /\ settled = {}
  /\ mem = [t \in Tasks |-> "none"]
  /\ owner = [t \in Tasks |-> NoClient]
  /\ cpc = [c \in Clients |-> "idle"]
  /\ arg = [c \in Clients |-> NoTask]
  /\ cont = [c \in Clients |-> "idle"]

-----------------------------------------------------------------------------
(* The mutex and the condition variable.                                   *)

WorkerHolds == wpc \in {"top", "iter", "after"}

\* ms_cond_broadcast(): every thread in the wait set is woken.
Broadcast(cp) == [c \in Clients |-> IF cp[c] = "wait" THEN "woken" ELSE cp[c]]

\* ms_cond_signal() under "if (obj->inwait)": one thread of the wait set, any
\* of them, is woken; a signal that finds no waiter is lost.  cp is the
\* clients' control state after the caller's own step.
SignalIfInwait(cp) ==
  \/ /\ inwait
     /\ wpc = "wait" /\ wpc' = "woken" /\ cpc' = cp
  \/ /\ inwait
     /\ \E c \in Clients : cp[c] = "wait" /\ cpc' = [cp EXCEPT ![c] = "woken"]
     /\ UNCHANGED wpc
  \/ /\ ~inwait \/ (wpc # "wait" /\ \A c \in Clients : cp[c] # "wait")
     /\ cpc' = cp /\ UNCHANGED wpc

\* task_wait_count counts the clients between the increment and the decrement
\* around ms_cond_wait().
Blocked(c) == cpc[c] \in {"wait", "woken"}
SomeoneWaits == \E c \in Clients : Blocked(c)

-----------------------------------------------------------------------------
(* Clients.                                                                *)

\* Faulty variant: the task is put first.
QueueTaskFirst(c, t, rep, auto) ==
  /\ ~WorkerHolds /\ running
  /\ cpc[c] = "idle" /\ mem[t] = "none"
  /\ mem' = [mem EXCEPT ![t] = "alive"]
  /\ repeated' = IF rep THEN repeated \cup {t} ELSE repeated
  /\ autoRelease' = IF auto THEN autoRelease \cup {t} ELSE autoRelease
  /\ state' = [state EXCEPT ![t] = "Queued"]
  /\ owner' = [owner EXCEPT ![t] = IF auto THEN NoClient ELSE c]
  /\ tasks' = <<t>> \o tasks
  /\ SignalIfInwait(cpc)
  /\ UNCHANGED <<running, finishTasks, inwait, todo, kept, cur, started,
                 settled, arg, cont>>

\* ms_task_new() followed by ms_worker_thread_queue_task(): the three add
\* functions differ in auto_release, repeat_interval and in who keeps a handle.
QueueTask(c, t, rep, auto) ==
  /\ ~WorkerHolds /\ running
  /\ cpc[c] = "idle" /\ mem[t] = "none"
  /\ mem' = [mem EXCEPT ![t] = "alive"]
  /\ repeated' = IF rep THEN repeated \cup {t} ELSE repeated
  /\ autoRelease' = IF auto THEN autoRelease \cup {t} ELSE autoRelease
  /\ state' = [state EXCEPT ![t] = "Queued"]
  /\ owner' = [owner EXCEPT ![t] = IF auto THEN NoClient ELSE c]
  /\ tasks' = Append(tasks, t)
  /\ SignalIfInwait(cpc)
  /\ UNCHANGED <<running, finishTasks, inwait, todo, kept, cur,
                 started, settled, arg, cont>>

AddTask(c, t)         == QueueTask(c, t, FALSE, TRUE)
AddWaitableTask(c, t) == QueueTask(c, t, FALSE, FALSE)
AddRepeatedTask(c, t) == QueueTask(c, t, TRUE, FALSE)

\* The critical section of _ms_task_cancel() when the task is not done yet.
CancelPending(t, withDestroy) ==
  /\ autoRelease' = IF withDestroy THEN autoRelease \cup {t} ELSE autoRelease
  /\ state' = [state EXCEPT ![t] = "Cancelled"]

\* ms_task_cancel(): any thread may cancel a task on which a handle exists.
Cancel(c, t) ==
  /\ ~WorkerHolds /\ cpc[c] = "idle" /\ owner[t] # NoClient
  /\ IF state[t] # "Done"
     THEN CancelPending(t, FALSE) /\ cpc' = Broadcast(cpc)
     ELSE UNCHANGED <<state, autoRelease, cpc>>
  /\ UNCHANGED <<workerVars, repeated, started, mem, owner, settled, arg, cont>>

\* No other thread is inside a call on t: what msasync.h asks of the callers of
\* the two functions that destroy a task.
Unused(t) == \A d \in Clients : arg[d] # t

\* ms_task_cancel_and_destroy(): the caller gives its handle up.  A finished
\* task is destroyed by the caller, otherwise the worker will do it.
CancelAndDestroy(c, t) ==
  /\ ~WorkerHolds /\ cpc[c] = "idle" /\ owner[t] = c /\ Unused(t)
  /\ owner' = [owner EXCEPT ![t] = NoClient]
  /\ IF state[t] # "Done"
     THEN /\ CancelPending(t, TRUE)
          /\ cpc' = Broadcast(cpc)
          /\ UNCHANGED arg
     ELSE /\ autoRelease' = autoRelease \cup {t}
          /\ cpc' = [cpc EXCEPT ![c] = "destroy"]
          /\ arg' = [arg EXCEPT ![c] = t]
          /\ UNCHANGED state
  /\ UNCHANGED <<workerVars, repeated, started, mem, settled, cont>>

\* The test of the loop of ms_task_wait_completion(), made under the mutex:
\* leave through "cont" or enter the wait set.
WaitTest(c, t, back) ==
  IF state[t] \in {"Done", "Cancelled"}
  THEN /\ cpc' = [cpc EXCEPT ![c] = back]
       /\ arg' = [arg EXCEPT ![c] = IF back = "idle" THEN NoTask ELSE t]
       /\ settled' = settled \cup {t}
       /\ UNCHANGED cont
  ELSE /\ cpc' = [cpc EXCEPT ![c] = "wait"]
       /\ arg' = [arg EXCEPT ![c] = t]
       /\ cont' = [cont EXCEPT ![c] = back]
       /\ UNCHANGED settled

WaitCompletion(c, t) ==
  /\ ~WorkerHolds /\ cpc[c] = "idle" /\ owner[t] = c
  /\ WaitTest(c, t, "idle")
  /\ UNCHANGED <<workerVars, taskVars, owner>>

\* ms_cond_wait() returned and the mutex is held again.
WaitRecheck(c) ==
  /\ ~WorkerHolds /\ cpc[c] = "woken"
  /\ WaitTest(c, arg[c], cont[c])
  /\ UNCHANGED <<workerVars, taskVars, owner>>

\* ms_task_destroy() called by the holder of the handle.
Destroy(c, t) ==
  /\ cpc[c] = "idle" /\ owner[t] = c /\ Unused(t)
  /\ DestroyAnyTime \/ t \in settled
  /\ owner' = [owner EXCEPT ![t] = NoClient]
  /\ cpc' = [cpc EXCEPT ![c] = "destroy"]
  /\ arg' = [arg EXCEPT ![c] = t]
  /\ UNCHANGED <<workerVars, taskVars, settled, cont>>

\* Faulty variant: the destruction of a cancelled task is not delayed.
DestroyCheckNoDelay(c) ==
  /\ ~WorkerHolds /\ cpc[c] = "destroy"
  /\ cpc' = [cpc EXCEPT ![c] = IF arg[c] \in autoRelease THEN "free" ELSE "dcancel"]
  /\ UNCHANGED <<workerVars, taskVars, owner, settled, arg, cont>>

\* ms_task_destroy(): the state is read under the mutex, which is released
\* before the decision is acted upon.
DestroyCheck(c) ==
  /\ ~WorkerHolds /\ cpc[c] = "destroy"
  /\ cpc' = [cpc EXCEPT ![c] = IF state[arg[c]] = "Cancelled" THEN "canceldestroy"
                               ELSE IF arg[c] \in autoRelease THEN "free"
                               ELSE "dcancel"]
  /\ UNCHANGED <<workerVars, taskVars, owner, settled, arg, cont>>

\* The delayed destruction: ms_task_cancel_and_destroy() inside ms_task_destroy().
DestroyDelayed(c) ==
  /\ ~WorkerHolds /\ cpc[c] = "canceldestroy"
  /\ LET t == arg[c] IN
     IF state[t] # "Done"
     THEN /\ CancelPending(t, TRUE)
          /\ cpc' = [Broadcast(cpc) EXCEPT ![c] = "idle"]
          /\ arg' = [arg EXCEPT ![c] = NoTask]
     ELSE /\ autoRelease' = autoRelease \cup {t}
          /\ cpc' = [cpc EXCEPT ![c] = "destroy"]
          /\ UNCHANGED <<state, arg>>
  /\ UNCHANGED <<workerVars, repeated, started, mem, owner, settled, cont>>

\* "Make sure it is cancelled": ms_task_cancel() inside ms_task_destroy().
DestroyCancel(c) ==
  /\ ~WorkerHolds /\ cpc[c] = "dcancel"
  /\ IF state[arg[c]] # "Done"
     THEN /\ CancelPending(arg[c], FALSE)
          /\ cpc' = [Broadcast(cpc) EXCEPT ![c] = "dwait"]
     ELSE /\ cpc' = [cpc EXCEPT ![c] = "dwait"]
          /\ UNCHANGED <<state, autoRelease>>
  /\ UNCHANGED <<workerVars, repeated, started, mem, owner, settled, arg, cont>>

\* ms_task_wait_completion() inside ms_task_destroy().
DestroyWait(c) ==
  /\ ~WorkerHolds /\ cpc[c] = "dwait"
  /\ WaitTest(c, arg[c], "free")
  /\ UNCHANGED <<workerVars, taskVars, owner>>

\* ms_free(obj), outside any critical section.
Free(c) ==
  /\ cpc[c] = "free"
  /\ mem' = [mem EXCEPT ![arg[c]] = "freed"]
  /\ cpc' = [cpc EXCEPT ![c] = "idle"]
  /\ arg' = [arg EXCEPT ![c] = NoTask]
  /\ UNCHANGED <<workerVars, state, repeated, autoRelease, started, owner, settled, cont>>

\* Faulty variant: the worker is not signalled.
WorkerDestroySilent(c, finish) ==
  /\ ~WorkerHolds /\ running
  /\ \A d \in Clients : cpc[d] = "idle"
  /\ \A t \in Tasks : owner[t] = NoClient
  /\ running' = FALSE /\ finishTasks' = finish
  /\ cpc' = [cpc EXCEPT ![c] = "join"]
  /\ UNCHANGED <<inwait, tasks, todo, kept, cur, wpc, taskVars, owner, settled,
                 arg, cont>>

\* ms_worker_thread_destroy(), called when no thread uses the worker any more
\* and every handle has been given up.
WorkerDestroy(c, finish) ==
  /\ ~WorkerHolds /\ running
  /\ \A d \in Clients : cpc[d] = "idle"
  /\ \A t \in Tasks : owner[t] = NoClient
  /\ running' = FALSE /\ finishTasks' = finish
  /\ SignalIfInwait([cpc EXCEPT ![c] = "join"])
  /\ UNCHANGED <<inwait, tasks, todo, kept, cur, taskVars,
                 owner, settled, arg, cont>>

\* ms_thread_join() returns.
WorkerJoin(c) ==
  /\ cpc[c] = "join" /\ wpc = "exited"
  /\ cpc' = [cpc EXCEPT ![c] = "gone"]
  /\ UNCHANGED <<workerVars, taskVars, owner, settled, arg, cont>>

-----------------------------------------------------------------------------
(* The worker, ms_worker_thread_run().                                     *)

WorkerStart ==
  /\ wpc = "start" /\ wpc' = "top"
  /\ UNCHANGED <<running, finishTasks, inwait, tasks, todo, kept, cur,
                 taskVars, clientVars>>

\* Faulty variant: the thread does not care for unterminated tasks.
WorkerTopCareless ==
  /\ wpc = "top"
  /\ IF running /\ tasks # <<>>
     THEN /\ todo' = tasks /\ tasks' = <<>> /\ wpc' = "iter"
          /\ UNCHANGED inwait
     ELSE /\ IF running THEN wpc' = "wait" /\ inwait' = TRUE
                        ELSE wpc' = "exited" /\ UNCHANGED inwait
          /\ UNCHANGED <<todo, tasks>>
  /\ UNCHANGED <<running, finishTasks, kept, cur, taskVars, clientVars>>

\* The head of the outer loop: take the whole list as a batch, or wait for
\* work, or leave.
WorkerTop ==
  /\ wpc = "top"
  /\ IF tasks # <<>>
     THEN /\ todo' = tasks /\ tasks' = <<>> /\ wpc' = "iter"
          /\ UNCHANGED inwait
     ELSE /\ IF running THEN wpc' = "wait" /\ inwait' = TRUE
                        ELSE wpc' = "exited" /\ UNCHANGED inwait
          /\ UNCHANGED <<todo, tasks>>
  /\ UNCHANGED <<running, finishTasks, kept, cur, taskVars, clientVars>>

\* Faulty variant: auto_release is forgotten.
FinishTaskNoRelease(t, drop) ==
  /\ kept' = IF drop THEN kept ELSE Append(kept, t)
  /\ wpc' = "iter" /\ cur' = NoTask

\* The end of ms_worker_thread_process_task() for a task whose state is already
\* settled: release an auto_release task without the mutex, or go on.
FinishTask(t, drop) ==
  /\ kept' = IF drop THEN kept ELSE Append(kept, t)
  /\ IF t \in autoRelease
     THEN wpc' = "release" /\ cur' = t
     ELSE wpc' = "iter" /\ cur' = NoTask

FirstTurn(t) == t \notin repeated \/ t \notin started

\* A queued task whose turn has come: its function is called without the
\* mutex unless the worker is exiting and was told not to finish its tasks.
WorkerRunTask ==
  /\ wpc = "iter" /\ todo # <<>> /\ state[Head(todo)] = "Queued"
  /\ LET t == Head(todo) IN
     /\ todo' = Tail(todo)
     /\ started' = IF t \in repeated THEN started \cup {t} ELSE started
     /\ IF running \/ finishTasks
        THEN /\ state' = [state EXCEPT ![t] = "Running"]
             /\ wpc' = "func" /\ cur' = t
             /\ UNCHANGED kept
        ELSE /\ state' = [state EXCEPT ![t] = "Done"]
             /\ FinishTask(t, TRUE)
  /\ UNCHANGED <<running, finishTasks, inwait, tasks, repeated, autoRelease,
                 mem, clientVars>>

\* A repeated task whose next turn has not come yet remains queued.
WorkerSkipTask ==
  /\ wpc = "iter" /\ todo # <<>> /\ state[Head(todo)] = "Queued"
  /\ ~FirstTurn(Head(todo))
  /\ todo' = Tail(todo)
  /\ FinishTask(Head(todo), FALSE)
  /\ UNCHANGED <<running, finishTasks, inwait, tasks, taskVars, clientVars>>

\* A task that is not queued any more is dropped; a cancelled one is done.
WorkerDropTask ==
  /\ wpc = "iter" /\ todo # <<>> /\ state[Head(todo)] # "Queued"
  /\ LET t == Head(todo) IN
     /\ todo' = Tail(todo)
     /\ state' = [state EXCEPT ![t] = IF @ = "Cancelled" THEN "Done" ELSE @]
     /\ FinishTask(t, TRUE)
  /\ UNCHANGED <<running, finishTasks, inwait, tasks, repeated, autoRelease,
                 started, mem, clientVars>>

\* The function returned and the mutex is held again: a repeated task that was
\* not cancelled meanwhile is queued again, any other is done.
WorkerFuncReturns ==
  /\ wpc = "func"
  /\ IF running /\ state[cur] = "Running" /\ cur \in repeated
     THEN state' = [state EXCEPT ![cur] = "Queued"] /\ FinishTask(cur, FALSE)
     ELSE state' = [state EXCEPT ![cur] = "Done"] /\ FinishTask(cur, TRUE)
  /\ UNCHANGED <<running, finishTasks, inwait, tasks, todo, repeated,
                 autoRelease, started, mem, clientVars>>

\* ms_task_destroy() by the worker on an auto_release task (freed, unless it was
\* cancelled since), then the mutex is taken again.
WorkerRelease ==
  /\ wpc = "release"
  /\ IF state[cur] = "Cancelled"
     THEN cpc' = Broadcast(cpc) /\ UNCHANGED mem
     ELSE mem' = [mem EXCEPT ![cur] = "freed"] /\ UNCHANGED cpc
  /\ wpc' = "iter" /\ cur' = NoTask
  /\ UNCHANGED <<running, finishTasks, inwait, tasks, todo, kept, state, repeated,
                 autoRelease, started, owner, settled,
                 arg, cont>>

\* Faulty variant: the waiting threads are not signalled.
WorkerBatchDoneSilent ==
  /\ wpc = "iter" /\ todo = <<>> /\ wpc' = "after"
  /\ UNCHANGED <<running, finishTasks, inwait, tasks, todo, kept, cur,
                 taskVars, clientVars>>

\* The batch is processed: unlock to signal the waiting threads, if any.
WorkerBatchDone ==
  /\ wpc = "iter" /\ todo = <<>>
  /\ wpc' = IF SomeoneWaits THEN "bcast" ELSE "after"
  /\ UNCHANGED <<running, finishTasks, inwait, tasks, todo, kept, cur,
                 taskVars, clientVars>>

WorkerBroadcast ==
  /\ wpc = "bcast" /\ wpc' = "after"
  /\ cpc' = Broadcast(cpc)
  /\ UNCHANGED <<running, finishTasks, inwait, tasks, todo, kept, cur,
                 taskVars, owner, settled, arg, cont>>

\* Merge what was queued meanwhile with what remains, then loop, sleep or wait.
WorkerAfterBatch ==
  /\ wpc = "after"
  /\ tasks' = tasks \o kept /\ kept' = <<>>
  /\ \/ (tasks # <<>> \/ ~running) /\ wpc' = "top" /\ UNCHANGED inwait
     \/ tasks = <<>> /\ running /\ kept # <<>> /\ wpc' = "sleep" /\ UNCHANGED inwait
     \/ tasks = <<>> /\ running /\ kept = <<>> /\ wpc' = "wait" /\ inwait' = TRUE
  /\ UNCHANGED <<running, finishTasks, todo, cur, taskVars, clientVars>>

\* bctbx_sleep_ms(10) or ms_cond_wait() returns, the mutex is held again.
WorkerResume ==
  /\ wpc \in {"sleep", "woken"} /\ wpc' = "top" /\ inwait' = FALSE
  /\ UNCHANGED <<running, finishTasks, tasks, todo, kept, cur,
                 taskVars, clientVars>>

\* ms_cond_wait() may return without a signal.
SpuriousWakeup ==
  \/ /\ wpc = "wait" /\ wpc' = "woken"
     /\ UNCHANGED <<running, finishTasks, inwait, tasks, todo, kept, cur,
                    taskVars, clientVars>>
  \/ /\ \E c \in Clients : cpc[c] = "wait" /\ cpc' = [cpc EXCEPT ![c] = "woken"]
     /\ UNCHANGED <<workerVars, taskVars, owner, settled, arg, cont>>

-----------------------------------------------------------------------------
ClientCall(c) ==
  \/ \E t \in Tasks : \/ AddTask(c, t) \/ AddWaitableTask(c, t)
                      \/ AddRepeatedTask(c, t) \/ Cancel(c, t)
                      \/ CancelAndDestroy(c, t) \/ WaitCompletion(c, t)
                      \/ Destroy(c, t)
  \/ \E finish \in BOOLEAN : WorkerDestroy(c, finish)

\* Steps of a call that has begun.
ClientStep(c) == \/ WaitRecheck(c) \/ DestroyCheck(c) \/ DestroyDelayed(c)
                 \/ DestroyCancel(c) \/ DestroyWait(c) \/ Free(c) \/ WorkerJoin(c)

WorkerStep == \/ WorkerStart \/ WorkerTop \/ WorkerRunTask \/ WorkerSkipTask
              \/ WorkerDropTask \/ WorkerFuncReturns \/ WorkerRelease
              \/ WorkerBatchDone \/ WorkerBroadcast \/ WorkerAfterBatch
              \/ WorkerResume

Next == WorkerStep \/ SpuriousWakeup \/ \E c \in Clients : ClientCall(c) \/ ClientStep(c)

\* The operating system schedules every thread; a call that has begun goes on;
\* time passes, so a repeated task that is looked at again and again is due in
\* the end.
Fairness == /\ WF_vars(WorkerStep) /\ SF_vars(WorkerRunTask)
            /\ \A c \in Clients : SF_vars(ClientStep(c))

Spec == Init /\ [][Next]_vars /\ Fairness

-----------------------------------------------------------------------------
(* Properties.                                                             *)

Listed == Elems(tasks) \cup Elems(todo) \cup Elems(kept)
            \cup (IF wpc = "func" THEN {cur} ELSE {})

\* No thread refers to a task that was freed: neither the worker, through its
\* list, its batch or the task whose function it runs (ms_worker_thread_run),
\* nor a client inside a call, nor the owner of a handle (ms_task_destroy).
NoDangling ==
  /\ \A t \in Listed : mem[t] = "alive"
  /\ wpc = "release" => mem[cur] = "alive"
  /\ \A c \in Clients : arg[c] # NoTask => mem[arg[c]] = "alive"
  /\ \A t \in Tasks : owner[t] # NoClient => mem[t] = "alive"

\* A task is known to the worker once: the list is taken and merged back
\* (ms_worker_thread_run) without duplicating a task, whatever is queued meanwhile.
ListedOnce ==
  /\ NoDup(tasks) /\ NoDup(todo) /\ NoDup(kept)
  /\ Elems(tasks) \cap Elems(todo) = {}
  /\ Elems(tasks) \cap Elems(kept) = {}
  /\ Elems(todo) \cap Elems(kept) = {}
  /\ wpc \in {"func", "release"} =>
       cur \notin Elems(tasks) \cup Elems(todo) \cup Elems(kept)

\* The worker and the clients wait on the same condition variable and
\* ms_cond_signal() wakes only one thread: when the worker sleeps no client
\* does, so the signal of ms_worker_thread_queue_task() cannot be taken by a
\* client and lost for the worker.
SignalReachesWorker ==
  wpc = "wait" => /\ \A c \in Clients : cpc[c] # "wait"
                  /\ inwait /\ tasks = <<>>

\* Every object is accounted for when the thread has ended: nothing is left in
\* the list ("should never happen" in ms_worker_thread_destroy) and no task
\* leaks.
CleanExit ==
  wpc = "exited" => /\ tasks = <<>>
                    /\ \A t \in Tasks : mem[t] # "alive"

\* A task that is done stays done and is not run again (enum MSTaskState).
DoneIsFinal ==
  [][\A t \in Tasks : state[t] = "Done" => state'[t] = "Done"]_vars

\* A thread blocked in ms_task_wait_completion() on a one-shot task, or on a
\* task that is cancelled meanwhile, is woken and returns.
WaiterReturns ==
  \A c \in Clients :
    (Blocked(c) /\ (arg[c] \notin repeated \/ state[arg[c]] = "Cancelled")) ~> ~Blocked(c)

\* A task given up with its handle, or queued without one, is freed in the end.
Reclaimed ==
  \A t \in Tasks : (mem[t] = "alive" /\ t \in autoRelease) ~> mem[t] = "freed"

\* Once told to stop, the worker processes what is left and exits.
WorkerExits == ~running ~> wpc = "exited"

-----------------------------------------------------------------------------
(* The worker as seen by users of one-shot tasks.                          *)

OneShots == {t \in Tasks \ repeated : state[t] = "Queued"}

\* The elements of s that are in S, in their order.
Among(s, S) ==
  LET upTo[i \in 0..Len(s)] ==
        IF i = 0 THEN <<>>
        ELSE IF s[i] \in S THEN Append(upTo[i - 1], s[i]) ELSE upTo[i - 1]
  IN  upTo[Len(s)]

Serial == INSTANCE SerialWorker
            WITH Jobs <- Tasks, Idle <- NoTask,
                 pending <- Among(todo \o tasks, OneShots),
                 active <- IF wpc = "func" /\ cur \notin repeated THEN cur ELSE NoTask,
                 closing <- IF running THEN "no" ELSE IF finishTasks THEN "finish" ELSE "drop"

\* The lists, the batches and the repeated tasks of ms_worker_thread_run() are
\* invisible: one-shot tasks are executed one at a time, once, in the order in
\* which they were queued, and none is forgotten.
ImplementsSerial == Serial!WSpec
===============================================================================
