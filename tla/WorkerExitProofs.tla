--------------------------- MODULE WorkerExitProofs ---------------------------
(***************************************************************************)
(* For any number of tasks and clients: the signal that announces a new    *)
(* task always reaches the sleeping worker, although clients wait on the   *)
(* same condition variable; nothing is left when the worker has ended; and *)
(* the worker with its batches implements SerialWorker.                    *)
(***************************************************************************)
EXTENDS WorkerThreadProofs, WellFoundedInduction

\* Zenon first: it is the faster of the two on the many leaves without arithmetic.
USE ZenonT(3), SMTT(30)

-----------------------------------------------------------------------------
(* The strengthening.                                                      *)

\* The tasks that the worker has.
Held == InLists \cup (IF wpc \in {"func", "release"} THEN {cur} ELSE {})

\* A client has the task: it holds the handle or is destroying the task.
Handled(t) ==
  \/ owner[t] # NoClient
  \/ \E c \in Clients : arg[c] = t /\ cpc[c] \in Destroying

\* An allocated task that is not done is with the worker, and somebody will free
\* it: the worker when it is auto_release, a client otherwise.
PlaceOK(t) ==
  mem[t] = "alive" => /\ t \in Held \/ state[t] = "Done"
                      /\ (t \in Held /\ t \in autoRelease) \/ Handled(t)

PlaceInv == \A t \in Tasks : PlaceOK(t)

\* Once the worker is told to stop no client uses it.
StopInv ==
  ~ running => /\ \A c \in Clients : cpc[c] \in {"idle", "join", "gone"}
               /\ \A t \in Tasks : owner[t] = NoClient

\* What is left of a batch is merged before the next one is taken.
KeptInv == wpc \notin {"iter", "func", "release", "bcast", "after"} => kept = << >>

ExitInv == wpc = "exited" => ~ running /\ tasks = << >>

\* After the broadcast at the end of a batch no client sleeps, and from then on a
\* client goes to sleep only for a task of the list.
WaitInv ==
  /\ wpc = "after" => \A c \in Clients : cpc[c] # "wait"
  /\ wpc \in {"start", "top", "sleep", "wait", "woken", "exited"} =>
       \A c \in Clients : cpc[c] = "wait" => arg[c] \in Elems(tasks)
  /\ wpc = "wait" => inwait /\ tasks = << >>

ControlInv == StopInv /\ KeptInv /\ ExitInv /\ WaitInv

LInv == PlaceInv /\ ControlInv

\* What a step leaves as it is for a task that it does not process.
Left(t) ==
  /\ mem'[t] = "alive" => mem[t] = "alive"
  /\ t \in Held => t \in Held'
  /\ state[t] = "Done" => state'[t] = "Done"
  /\ t \in autoRelease => t \in autoRelease'
  /\ Handled(t) => Handled(t)'

\* Such a task stays in its place.
LEMMA LeftPlace ==
  ASSUME NEW t \in Tasks, PlaceOK(t), Left(t)
  PROVE  PlaceOK(t)'
BY DEF PlaceOK, Left

\* The initial state.
LEMMA InitLInv == Init => LInv
<1> SUFFICES ASSUME Init PROVE LInv
  OBVIOUS
<1>1. PlaceInv
  BY DEF Init, PlaceInv, PlaceOK
<1>2. StopInv /\ KeptInv /\ ExitInv
  BY DEF Init, StopInv, KeptInv, ExitInv
<1>3. WaitInv
  BY DEF Init, WaitInv
<1> QED BY <1>1, <1>2, <1>3 DEF LInv, ControlInv

-----------------------------------------------------------------------------
(* Steps of the clients.                                                   *)

\* A client that goes to sleep while the worker is not in a batch waits for a
\* task that is still in the list.
LEMMA SleepsOnListed ==
  ASSUME IInv, LInv, NEW t \in Tasks, mem[t] = "alive", state[t] \notin {"Done", "Cancelled"},
         wpc \notin {"iter", "func", "release", "bcast", "after"}
  PROVE  t \in Elems(tasks)
<1>1. t \in InLists
  BY DEF LInv, PlaceInv, PlaceOK, Held
<1>2. todo = << >> /\ kept = << >>
  BY DEF IInv, BatchInv, LInv, ControlInv, KeptInv
<1>3. Elems(<< >>) = {}
  BY EmptyLemma
<1> QED BY <1>1, <1>2, <1>3 DEF InLists

\* A step of a client inside or at the beginning of a call: the worker is
\* running and is left alone, and who goes to sleep has looked at the task.
LEMMA ClientControl ==
  ASSUME IInv, LInv, running,
         UNCHANGED <<running, inwait, tasks, kept, wpc>>,
         \A c \in Clients : cpc'[c] = "wait" =>
           \/ cpc[c] = "wait" /\ arg'[c] = arg[c]
           \/ /\ wpc # "after" /\ arg'[c] \in Tasks /\ mem[arg'[c]] = "alive"
              /\ state[arg'[c]] \notin {"Done", "Cancelled"}
  PROVE  ControlInv'
<1> USE DEF LInv, ControlInv
<1>1. StopInv' /\ KeptInv' /\ ExitInv'
  BY DEF StopInv, KeptInv, ExitInv
<1>2. WaitInv'
  <2>1. ASSUME wpc = "after", NEW c \in Clients PROVE cpc'[c] # "wait"
    BY <2>1 DEF WaitInv
  <2>2. ASSUME wpc \in {"start", "top", "sleep", "wait", "woken", "exited"},
               NEW c \in Clients, cpc'[c] = "wait"
        PROVE  arg'[c] \in Elems(tasks)
    <3>1. CASE cpc[c] = "wait" /\ arg'[c] = arg[c]
      BY <2>2, <3>1 DEF WaitInv
    <3>2. CASE ~(cpc[c] = "wait" /\ arg'[c] = arg[c])
      <4>1. /\ arg'[c] \in Tasks /\ mem[arg'[c]] = "alive"
            /\ state[arg'[c]] \notin {"Done", "Cancelled"}
        BY <2>2, <3>2
      <4>2. wpc \notin {"iter", "func", "release", "bcast", "after"}
        BY <2>2
      <4> QED BY <4>1, <4>2, SleepsOnListed
    <3> QED BY <3>1, <3>2
  <2>3. wpc = "wait" => inwait /\ tasks = << >>
    BY DEF WaitInv
  <2> QED BY <2>1, <2>2, <2>3 DEF WaitInv
<1> QED BY <1>1, <1>2

\* A new task is in the list, with its owner or with auto_release set.  The signal
\* wakes the worker if it sleeps: no client sleeps then.
LEMMA QueueTaskLInv ==
  ASSUME IInv, LInv, NEW c \in Clients, NEW t \in Tasks, NEW rep \in BOOLEAN,
         NEW auto \in BOOLEAN, QueueTask(c, t, rep, auto)
  PROVE  LInv'
<1> USE ConstantsOK DEF LInv, ControlInv
<1>e. /\ running /\ ~WorkerHolds /\ mem[t] = "none" /\ tasks \in Seq(Tasks)
      /\ state' = [state EXCEPT ![t] = "Queued"] /\ mem' = [mem EXCEPT ![t] = "alive"]
      /\ tasks' = Append(tasks, t)
      /\ UNCHANGED <<running, inwait, todo, kept, cur, arg>>
      /\ autoRelease \subseteq autoRelease' /\ (auto => t \in autoRelease')
      /\ owner' = [owner EXCEPT ![t] = IF auto THEN NoClient ELSE c]
  BY Zenon DEF QueueTask, IInv, TypeOK, WorkerTypeOK
<1>l. /\ Elems(tasks') = Elems(tasks) \cup {t}
      /\ InLists' = InLists \cup {t}
  BY <1>e, AppendLemma DEF InLists
<1>s. /\ \A d \in Clients : cpc'[d] = cpc[d] \/ (cpc[d] = "wait" /\ cpc'[d] = "woken")
      /\ IF wpc = "wait" THEN wpc' = "woken" ELSE wpc' = wpc
  <2>1. SignalIfInwait(cpc)
    BY DEF QueueTask
  <2>2. wpc = "wait" => inwait /\ \A d \in Clients : cpc[d] # "wait"
    BY EmptyLemma DEF WaitInv
  <2> QED BY <2>1, <2>2 DEF SignalIfInwait, IInv, TypeOK, ClientTypeOK
<1>1. PlaceInv'
  <2> SUFFICES ASSUME NEW u \in Tasks PROVE PlaceOK(u)'
    BY DEF PlaceInv
  <2>1. CASE u = t
    <3>1. t \in Held'
      BY <1>l DEF Held
    <3>2. t \in autoRelease' \/ owner'[t] # NoClient
      BY <1>e DEF IInv, TypeOK, ClientTypeOK
    <3> QED BY <2>1, <3>1, <3>2 DEF PlaceOK, Handled
  <2>2. CASE u # t
    <3>1. mem'[u] = mem[u] /\ state'[u] = state[u] /\ owner'[u] = owner[u]
      BY <1>e, <2>2 DEF IInv, TypeOK, TaskTypeOK, ClientTypeOK
    <3>2. u \in Held => u \in Held'
      BY <1>e, <1>l, <1>s DEF Held
    <3>3. Handled(u) => Handled(u)'
      BY <1>e, <1>s, <3>1 DEF Handled, Destroying
    <3>4. Left(u)
      BY <1>e, <3>1, <3>2, <3>3 DEF Left
    <3> QED BY <3>4, LeftPlace DEF PlaceInv
  <2> QED BY <2>1, <2>2
<1>2. StopInv' /\ KeptInv' /\ ExitInv'
  BY <1>e, <1>s DEF StopInv, KeptInv, ExitInv
<1>3. WaitInv'
  BY <1>e, <1>l, <1>s DEF WaitInv, WorkerHolds
<1> QED BY <1>1, <1>2, <1>3

\* The worker's lists are left alone.
LEMMA SameHeld == UNCHANGED workerVars => Held' = Held /\ UNCHANGED <<running, inwait, tasks, kept, wpc>>
BY DEF workerVars, Held, InLists

\* ms_task_cancel(): all the sleepers are woken.
LEMMA CancelLInv ==
  ASSUME IInv, LInv, NEW c \in Clients, NEW t \in Tasks, Cancel(c, t)
  PROVE  LInv'
<1> USE ConstantsOK DEF LInv, ControlInv
<1>e. /\ UNCHANGED workerVars /\ owner[t] # NoClient
      /\ UNCHANGED <<autoRelease, mem, owner, arg>>
      /\ state' \in {state, [state EXCEPT ![t] = "Cancelled"]}
      /\ state' # state => state[t] # "Done"
      /\ cpc' \in {cpc, Broadcast(cpc)}
  BY DEF Cancel, CancelPending
<1>s. /\ running
      /\ \A d \in Clients : cpc'[d] = cpc[d] \/ (cpc[d] = "wait" /\ cpc'[d] = "woken")
  BY <1>e DEF StopInv, Broadcast, IInv, TypeOK, ClientTypeOK
<1>h. Held' = Held /\ UNCHANGED <<running, inwait, tasks, kept, wpc>>
  BY <1>e, SameHeld
<1>1. PlaceInv'
  <2> SUFFICES ASSUME NEW u \in Tasks PROVE PlaceOK(u)'
    BY DEF PlaceInv
  <2>1. Handled(u) => Handled(u)'
    BY <1>e, <1>s DEF Handled, Destroying
  <2>2. state[u] = "Done" => state'[u] = "Done"
    BY <1>e DEF IInv, TypeOK, TaskTypeOK
  <2>3. Left(u)
    BY <1>e, <1>h, <2>1, <2>2 DEF Left
  <2> QED BY <2>3, LeftPlace DEF PlaceInv
<1>2. ControlInv'
  <2>1. \A d \in Clients : cpc'[d] = "wait" => cpc[d] = "wait" /\ arg'[d] = arg[d]
    BY <1>e, <1>s
  <2> QED BY <1>h, <1>s, <2>1, ClientControl
<1> QED BY <1>1, <1>2

\* ms_task_cancel_and_destroy(): the worker has a task that is not done and will
\* free it; a done one passes from the handle to the destruction.
LEMMA CancelAndDestroyLInv ==
  ASSUME IInv, LInv, NEW c \in Clients, NEW t \in Tasks, CancelAndDestroy(c, t)
  PROVE  LInv'
<1> USE ConstantsOK DEF LInv, ControlInv
<1>e. /\ UNCHANGED workerVars /\ owner[t] = c /\ cpc[c] = "idle" /\ mem' = mem
      /\ owner' = [owner EXCEPT ![t] = NoClient]
      /\ autoRelease' = autoRelease \cup {t}
  BY DEF CancelAndDestroy, CancelPending
<1>h. Held' = Held /\ UNCHANGED <<running, inwait, tasks, kept, wpc>>
  BY <1>e, SameHeld
<1>r. running /\ mem[t] = "alive" /\ arg[c] = NoTask
  BY <1>e DEF StopInv, IInv, TaskInv, TaskOK, ClientInv, ClientOK
<1>o. \A u \in Tasks : owner'[u] = IF u = t THEN NoClient ELSE owner[u]
  BY <1>e DEF IInv, TypeOK, ClientTypeOK
<1>1. CASE state[t] # "Done"
  <2>e. /\ state' = [state EXCEPT ![t] = "Cancelled"]
        /\ cpc' = Broadcast(cpc) /\ arg' = arg
    BY <1>1 DEF CancelAndDestroy, CancelPending
  <2>s. /\ \A d \in Clients : cpc'[d] = cpc[d] \/ (cpc[d] = "wait" /\ cpc'[d] = "woken")
        /\ \A u \in Tasks : state'[u] = IF u = t THEN "Cancelled" ELSE state[u]
    BY <2>e DEF Broadcast, IInv, TypeOK, ClientTypeOK, TaskTypeOK
  <2>1. PlaceInv'
    <3> SUFFICES ASSUME NEW u \in Tasks PROVE PlaceOK(u)'
      BY DEF PlaceInv
    <3>1. CASE u = t
      BY <1>1, <1>e, <1>h, <1>r, <3>1 DEF PlaceInv, PlaceOK
    <3>2. CASE u # t
      <4>1. Handled(u) => Handled(u)'
        BY <1>o, <2>e, <2>s, <3>2 DEF Handled, Destroying
      <4>2. Left(u)
        BY <1>e, <1>h, <2>s, <3>2, <4>1 DEF Left
      <4> QED BY <4>2, LeftPlace DEF PlaceInv
    <3> QED BY <3>1, <3>2
  <2>2. ControlInv'
    <3>1. \A d \in Clients : cpc'[d] = "wait" => cpc[d] = "wait" /\ arg'[d] = arg[d]
      BY <2>e, <2>s
    <3> QED BY <1>h, <1>r, <3>1, ClientControl
  <2> QED BY <2>1, <2>2
<1>2. CASE state[t] = "Done"
  <2>e. /\ state' = state
        /\ cpc' = [cpc EXCEPT ![c] = "destroy"] /\ arg' = [arg EXCEPT ![c] = t]
    BY <1>2 DEF CancelAndDestroy
  <2>s. \A d \in Clients : /\ cpc'[d] = IF d = c THEN "destroy" ELSE cpc[d]
                           /\ arg'[d] = IF d = c THEN t ELSE arg[d]
    BY <2>e DEF IInv, TypeOK, ClientTypeOK
  <2>1. PlaceInv'
    <3> SUFFICES ASSUME NEW u \in Tasks PROVE PlaceOK(u)'
      BY DEF PlaceInv
    <3>1. Handled(u) => Handled(u)'
      BY <1>e, <1>o, <2>s DEF Handled, Destroying
    <3>2. Left(u)
      BY <1>e, <1>h, <2>e, <3>1 DEF Left
    <3> QED BY <3>2, LeftPlace DEF PlaceInv
  <2>2. ControlInv'
    <3>1. \A d \in Clients : cpc'[d] = "wait" => cpc[d] = "wait" /\ arg'[d] = arg[d]
      BY <2>s
    <3> QED BY <1>h, <1>r, <3>1, ClientControl
  <2> QED BY <2>1, <2>2
<1> QED BY <1>1, <1>2

\* ms_task_wait_completion(), at its start and after each wakeup.
LEMMA WaitLInv ==
  ASSUME IInv, LInv, NEW c \in Clients, WaitRecheck(c) \/ \E t \in Tasks : WaitCompletion(c, t)
  PROVE  LInv'
<1> USE ConstantsOK DEF LInv, ControlInv
<1>1. PICK t \in Tasks : /\ mem[t] = "alive" /\ WaitTest(c, t, "idle")
                         /\ cpc[c] \in {"idle", "woken"} /\ running
  <2>1. CASE WaitRecheck(c)
    <3>1. arg[c] \in Tasks /\ mem[arg[c]] = "alive" /\ cont[c] = "idle"
      BY <2>1 DEF WaitRecheck, IInv, ClientInv, ClientOK, TypeOK, ClientTypeOK
    <3>2. WaitTest(c, arg[c], "idle") /\ cpc[c] = "woken" /\ running
      BY <2>1, <3>1 DEF WaitRecheck, StopInv
    <3> QED BY <3>1, <3>2
  <2>2. CASE \E t \in Tasks : WaitCompletion(c, t)
    <3>1. PICK t \in Tasks : WaitCompletion(c, t)
      BY <2>2
    <3>2. mem[t] = "alive" /\ running
      BY <3>1 DEF WaitCompletion, StopInv, IInv, TaskInv, TaskOK
    <3> QED BY <3>1, <3>2 DEF WaitCompletion
  <2> QED BY <2>1, <2>2
<1>e. /\ UNCHANGED workerVars /\ UNCHANGED taskVars /\ owner' = owner /\ ~WorkerHolds
  BY DEF WaitRecheck, WaitCompletion
<1>h. Held' = Held /\ UNCHANGED <<running, inwait, tasks, kept, wpc>>
  BY <1>e, SameHeld
<1>s. /\ \A d \in Clients : d # c => cpc'[d] = cpc[d] /\ arg'[d] = arg[d]
      /\ \/ cpc'[c] = "idle"
         \/ cpc'[c] = "wait" /\ arg'[c] = t /\ state[t] \notin {"Done", "Cancelled"}
  BY <1>1 DEF WaitTest, IInv, TypeOK, ClientTypeOK
<1>2. PlaceInv'
  <2> SUFFICES ASSUME NEW u \in Tasks PROVE PlaceOK(u)'
    BY DEF PlaceInv
  <2>1. Handled(u) => Handled(u)'
    BY <1>1, <1>e, <1>s DEF Handled, Destroying
  <2>2. Left(u)
    BY <1>e, <1>h, <2>1 DEF Left, taskVars
  <2> QED BY <2>2, LeftPlace DEF PlaceInv
<1>3. ControlInv'
  <2>1. \A d \in Clients : cpc'[d] = "wait" =>
           \/ cpc[d] = "wait" /\ arg'[d] = arg[d]
           \/ /\ wpc # "after" /\ arg'[d] \in Tasks /\ mem[arg'[d]] = "alive"
              /\ state[arg'[d]] \notin {"Done", "Cancelled"}
    BY <1>1, <1>e, <1>s DEF WorkerHolds
  <2> QED BY <1>1, <1>h, <2>1, ClientControl
<1> QED BY <1>2, <1>3

\* ms_task_destroy(): the handle becomes a destruction, which goes on until the
\* task is freed.
LEMMA DestroyStepsLInv ==
  ASSUME IInv, LInv, NEW c \in Clients,
         \/ \E t \in Tasks : Destroy(c, t)
         \/ DestroyCheck(c) \/ DestroyCancel(c) \/ DestroyWait(c)
  PROVE  LInv'
<1> USE ConstantsOK DEF LInv, ControlInv
<1>1. PICK t \in Tasks :
        /\ UNCHANGED workerVars /\ UNCHANGED taskVars /\ running
        /\ \/ owner[t] = c /\ cpc[c] = "idle" /\ owner' = [owner EXCEPT ![t] = NoClient]
           \/ arg[c] = t /\ cpc[c] \in Destroying /\ owner' = owner
        /\ \E pc \in Destroying : cpc' = [cpc EXCEPT ![c] = pc]
        /\ arg' = [arg EXCEPT ![c] = t]
  <2>1. CASE \E t \in Tasks : Destroy(c, t)
    BY <2>1 DEF Destroy, StopInv, Destroying
  <2>2. CASE DestroyCheck(c) \/ DestroyCancel(c) \/ DestroyWait(c)
    <3>1. cpc[c] \in {"destroy", "dcancel", "dwait"} /\ running
      BY <2>2 DEF DestroyCheck, DestroyCancel, DestroyWait, StopInv
    <3>2. /\ arg[c] \in Tasks /\ arg = [arg EXCEPT ![c] = arg[c]]
          /\ cpc[c] \in {"dcancel", "dwait"} => state[arg[c]] = "Done"
      <4>1. ClientOK(c) /\ arg \in [Clients -> Tasks \cup {NoTask}]
        BY DEF IInv, ClientInv, TypeOK, ClientTypeOK
      <4>2. /\ cpc[c] \in {"idle", "join", "gone"} <=> arg[c] = NoTask
            /\ cpc[c] \in {"dcancel", "dwait", "free"} => state[arg[c]] = "Done"
        BY <4>1, Zenon DEF ClientOK
      <4>3. arg[c] # NoTask
        BY <3>1, <4>2
      <4> QED BY <4>1, <4>2, <4>3
    <3>3. CASE DestroyCheck(c)
      <4>1. \E pc \in Destroying : cpc' = [cpc EXCEPT ![c] = pc]
        BY <3>3, Zenon DEF DestroyCheck, Destroying
      <4> QED BY <3>1, <3>2, <3>3, <4>1 DEF DestroyCheck, Destroying
    <3>4. CASE DestroyCancel(c)
      BY <3>1, <3>2, <3>4 DEF DestroyCancel, taskVars, Destroying
    <3>5. CASE DestroyWait(c)
      BY <3>1, <3>2, <3>5 DEF DestroyWait, WaitTest, Destroying
    <3> QED BY <2>2, <3>3, <3>4, <3>5
  <2> QED BY <2>1, <2>2
<1>h. Held' = Held /\ UNCHANGED <<running, inwait, tasks, kept, wpc>>
  BY <1>1, SameHeld
<1>s. /\ \A d \in Clients : d # c => cpc'[d] = cpc[d] /\ arg'[d] = arg[d]
      /\ cpc'[c] \in Destroying /\ arg'[c] = t
      /\ \A u \in Tasks : u # t => owner'[u] = owner[u]
  BY <1>1 DEF IInv, TypeOK, ClientTypeOK
<1>2. PlaceInv'
  <2> SUFFICES ASSUME NEW u \in Tasks PROVE PlaceOK(u)'
    BY DEF PlaceInv
  <2>1. Handled(u) => Handled(u)'
    <3>1. CASE u = t
      BY <1>s, <3>1 DEF Handled
    <3>2. CASE u # t
      <4>1. cpc[c] \in Destroying => arg[c] = t
        BY <1>1 DEF Destroying
      <4> QED BY <1>s, <3>2, <4>1 DEF Handled
    <3> QED BY <3>1, <3>2
  <2>2. Left(u)
    BY <1>1, <1>h, <2>1 DEF Left, taskVars
  <2> QED BY <2>2, LeftPlace DEF PlaceInv
<1>3. ControlInv'
  <2>1. \A d \in Clients : cpc'[d] = "wait" => cpc[d] = "wait" /\ arg'[d] = arg[d]
    BY <1>s DEF Destroying
  <2> QED BY <1>1, <1>h, <2>1, ClientControl
<1> QED BY <1>2, <1>3

\* The delayed destruction: the worker has the task and will free it, or it is
\* done and the destruction starts again.
LEMMA DestroyDelayedLInv ==
  ASSUME IInv, LInv, NEW c \in Clients, DestroyDelayed(c)
  PROVE  LInv'
<1> USE ConstantsOK DEF LInv, ControlInv
<1>e. /\ UNCHANGED workerVars /\ cpc[c] = "canceldestroy" /\ mem' = mem /\ owner' = owner
      /\ autoRelease' = autoRelease \cup {arg[c]}
  BY DEF DestroyDelayed, CancelPending
<1>r. running /\ arg[c] \in Tasks /\ mem[arg[c]] = "alive"
  BY <1>e DEF StopInv, IInv, ClientInv, ClientOK, TypeOK, ClientTypeOK
<1>h. Held' = Held /\ UNCHANGED <<running, inwait, tasks, kept, wpc>>
  BY <1>e, SameHeld
<1>1. CASE state[arg[c]] # "Done"
  <2>e. /\ state' = [state EXCEPT ![arg[c]] = "Cancelled"]
        /\ cpc' = [Broadcast(cpc) EXCEPT ![c] = "idle"]
        /\ arg' = [arg EXCEPT ![c] = NoTask]
    BY <1>1 DEF DestroyDelayed, CancelPending
  <2>s. /\ \A d \in Clients : d # c =>
             /\ cpc'[d] = cpc[d] \/ (cpc[d] = "wait" /\ cpc'[d] = "woken")
             /\ arg'[d] = arg[d]
        /\ cpc'[c] = "idle"
        /\ \A u \in Tasks : state'[u] = IF u = arg[c] THEN "Cancelled" ELSE state[u]
    BY <2>e DEF Broadcast, IInv, TypeOK, ClientTypeOK, TaskTypeOK
  <2>1. PlaceInv'
    <3> SUFFICES ASSUME NEW u \in Tasks PROVE PlaceOK(u)'
      BY DEF PlaceInv
    <3>1. CASE u = arg[c]
      BY <1>1, <1>e, <1>h, <1>r, <3>1 DEF PlaceInv, PlaceOK
    <3>2. CASE u # arg[c]
      <4>1. Handled(u) => Handled(u)'
        BY <1>e, <2>s, <3>2 DEF Handled, Destroying
      <4>2. Left(u)
        BY <1>e, <1>h, <2>s, <3>2, <4>1 DEF Left
      <4> QED BY <4>2, LeftPlace DEF PlaceInv
    <3> QED BY <3>1, <3>2
  <2>2. ControlInv'
    <3>1. \A d \in Clients : cpc'[d] = "wait" => cpc[d] = "wait" /\ arg'[d] = arg[d]
      BY <2>s
    <3> QED BY <1>h, <1>r, <3>1, ClientControl
  <2> QED BY <2>1, <2>2
<1>2. CASE state[arg[c]] = "Done"
  <2>e. state' = state /\ arg' = arg /\ cpc' = [cpc EXCEPT ![c] = "destroy"]
    BY <1>2 DEF DestroyDelayed
  <2>s. \A d \in Clients : cpc'[d] = IF d = c THEN "destroy" ELSE cpc[d]
    BY <2>e DEF IInv, TypeOK, ClientTypeOK
  <2>1. PlaceInv'
    <3> SUFFICES ASSUME NEW u \in Tasks PROVE PlaceOK(u)'
      BY DEF PlaceInv
    <3>1. Handled(u) => Handled(u)'
      BY <1>e, <2>e, <2>s DEF Handled, Destroying
    <3>2. Left(u)
      BY <1>e, <1>h, <2>e, <3>1 DEF Left
    <3> QED BY <3>2, LeftPlace DEF PlaceInv
  <2>2. ControlInv'
    <3>1. \A d \in Clients : cpc'[d] = "wait" => cpc[d] = "wait" /\ arg'[d] = arg[d]
      BY <2>e, <2>s
    <3> QED BY <1>h, <1>r, <3>1, ClientControl
  <2> QED BY <2>1, <2>2
<1> QED BY <1>1, <1>2

\* ms_free() by a client.
LEMMA FreeLInv ==
  ASSUME IInv, LInv, NEW c \in Clients, Free(c)
  PROVE  LInv'
<1> USE ConstantsOK DEF LInv, ControlInv
<1>e. /\ UNCHANGED workerVars /\ cpc[c] = "free"
      /\ mem' = [mem EXCEPT ![arg[c]] = "freed"]
      /\ cpc' = [cpc EXCEPT ![c] = "idle"] /\ arg' = [arg EXCEPT ![c] = NoTask]
      /\ UNCHANGED <<state, autoRelease, owner>>
  BY DEF Free
<1>r. running /\ arg[c] \in Tasks
  BY <1>e DEF StopInv, IInv, ClientInv, ClientOK, TypeOK, ClientTypeOK
<1>h. Held' = Held /\ UNCHANGED <<running, inwait, tasks, kept, wpc>>
  BY <1>e, SameHeld
<1>s. /\ \A d \in Clients : d # c => cpc'[d] = cpc[d] /\ arg'[d] = arg[d]
      /\ cpc'[c] = "idle"
      /\ \A u \in Tasks : mem'[u] = IF u = arg[c] THEN "freed" ELSE mem[u]
  BY <1>e DEF IInv, TypeOK, ClientTypeOK, TaskTypeOK
<1>1. PlaceInv'
  <2> SUFFICES ASSUME NEW u \in Tasks PROVE PlaceOK(u)'
    BY DEF PlaceInv
  <2>1. CASE u = arg[c]
    BY <1>s, <2>1 DEF PlaceOK
  <2>2. CASE u # arg[c]
    <3>1. Handled(u) => Handled(u)'
      BY <1>e, <1>s, <2>2 DEF Handled, Destroying
    <3>2. Left(u)
      BY <1>e, <1>h, <1>s, <2>2, <3>1 DEF Left
    <3> QED BY <3>2, LeftPlace DEF PlaceInv
  <2> QED BY <2>1, <2>2
<1>2. ControlInv'
  <2>1. \A d \in Clients : cpc'[d] = "wait" => cpc[d] = "wait" /\ arg'[d] = arg[d]
    BY <1>s
  <2> QED BY <1>h, <1>r, <2>1, ClientControl
<1> QED BY <1>1, <1>2

\* ms_worker_thread_destroy(): all the tasks are already with the worker.
LEMMA WorkerDestroyLInv ==
  ASSUME IInv, LInv, NEW c \in Clients, NEW finish \in BOOLEAN, WorkerDestroy(c, finish)
  PROVE  LInv'
<1> USE ConstantsOK DEF LInv, ControlInv
<1>e. /\ running /\ ~running' /\ UNCHANGED <<inwait, tasks, todo, kept, cur>>
      /\ UNCHANGED <<state, autoRelease, mem, owner, arg>>
      /\ \A d \in Clients : cpc[d] = "idle"
      /\ \A t \in Tasks : owner[t] = NoClient
  BY DEF WorkerDestroy, taskVars
<1>s. /\ \A d \in Clients : cpc'[d] \in {"idle", "join"}
      /\ wpc' = wpc \/ (wpc = "wait" /\ wpc' = "woken")
  <2>1. SignalIfInwait([cpc EXCEPT ![c] = "join"])
    BY DEF WorkerDestroy
  <2>2. \A d \in Clients : [cpc EXCEPT ![c] = "join"][d] \in {"idle", "join"}
    BY <1>e DEF IInv, TypeOK, ClientTypeOK
  <2>3. /\ cpc' = [cpc EXCEPT ![c] = "join"]
        /\ wpc' = wpc \/ (wpc = "wait" /\ wpc' = "woken")
    BY <2>1, <2>2 DEF SignalIfInwait
  <2> QED BY <2>2, <2>3
<1>1. PlaceInv'
  <2> SUFFICES ASSUME NEW u \in Tasks PROVE PlaceOK(u)'
    BY DEF PlaceInv
  <2>1. ~Handled(u)
    BY <1>e DEF Handled, Destroying
  <2>2. Held' = Held
    BY <1>e, <1>s DEF Held, InLists
  <2>3. Left(u)
    BY <1>e, <2>1, <2>2 DEF Left
  <2> QED BY <2>3, LeftPlace DEF PlaceInv
<1>2. StopInv' /\ KeptInv' /\ ExitInv'
  BY <1>e, <1>s DEF StopInv, KeptInv, ExitInv
<1>3. WaitInv'
  BY <1>e, <1>s DEF WaitInv
<1> QED BY <1>1, <1>2, <1>3

\* ms_thread_join().
LEMMA WorkerJoinLInv ==
  ASSUME IInv, LInv, NEW c \in Clients, WorkerJoin(c)
  PROVE  LInv'
<1> USE ConstantsOK DEF LInv, ControlInv
<1>e. /\ UNCHANGED workerVars /\ UNCHANGED taskVars /\ UNCHANGED <<owner, arg>>
      /\ wpc = "exited" /\ cpc[c] = "join" /\ cpc' = [cpc EXCEPT ![c] = "gone"]
  BY DEF WorkerJoin
<1>h. Held' = Held /\ UNCHANGED <<running, inwait, tasks, kept, wpc>>
  BY <1>e, SameHeld
<1>s. \A d \in Clients : cpc'[d] = IF d = c THEN "gone" ELSE cpc[d]
  BY <1>e DEF IInv, TypeOK, ClientTypeOK
<1>1. PlaceInv'
  <2> SUFFICES ASSUME NEW u \in Tasks PROVE PlaceOK(u)'
    BY DEF PlaceInv
  <2>1. Handled(u) => Handled(u)'
    BY <1>e, <1>s DEF Handled, Destroying
  <2>2. Left(u)
    BY <1>e, <1>h, <2>1 DEF Left, taskVars
  <2> QED BY <2>2, LeftPlace DEF PlaceInv
<1>2. StopInv' /\ KeptInv' /\ ExitInv'
  BY <1>e, <1>h, <1>s DEF StopInv, KeptInv, ExitInv
<1>3. WaitInv'
  BY <1>e, <1>h, <1>s DEF WaitInv
<1> QED BY <1>1, <1>2, <1>3

-----------------------------------------------------------------------------
(* Steps of the worker.                                                    *)

\* A step within a batch.
LEMMA BatchControl ==
  ASSUME LInv, wpc' \in {"iter", "func", "release"}, UNCHANGED <<running, owner, cpc>>
  PROVE  ControlInv'
BY DEF LInv, ControlInv, StopInv, KeptInv, ExitInv, WaitInv

\* A task that the worker marks done is freed by the worker next when it is
\* auto_release, and otherwise a client has it.
LEMMA FinishedPlace ==
  ASSUME TypeOK, LInv, NEW u \in Tasks, mem[u] = "alive",
         state' = [state EXCEPT ![u] = "Done"],
         \/ u \in autoRelease /\ wpc' = "release" /\ cur' = u
         \/ u \notin autoRelease /\ wpc' = "iter" /\ cur' = NoTask,
         Held \ {u} \subseteq InLists',
         UNCHANGED <<running, autoRelease, mem>>, UNCHANGED <<owner, cpc, arg>>
  PROVE  LInv'
<1>s. \A t \in Tasks : state'[t] = IF t = u THEN "Done" ELSE state[t]
  BY DEF TypeOK, TaskTypeOK
<1>o. \A t \in Tasks : Handled(t) => Handled(t)'
  BY DEF Handled
<1>1. PlaceInv'
  <2> SUFFICES ASSUME NEW t \in Tasks PROVE PlaceOK(t)'
    BY DEF PlaceInv
  <2>1. CASE t = u
    <3>1. u \in autoRelease => u \in Held'
      BY DEF Held
    <3>2. u \notin autoRelease => Handled(u)'
      BY <1>o DEF LInv, PlaceInv, PlaceOK
    <3> QED BY <1>s, <2>1, <3>1, <3>2 DEF PlaceOK
  <2>2. CASE t # u
    <3>1. t \in Held => t \in Held'
      BY <2>2 DEF Held
    <3>2. Left(t)
      BY <1>s, <1>o, <2>2, <3>1 DEF Left
    <3> QED BY <3>2, LeftPlace DEF LInv, PlaceInv
  <2> QED BY <2>1, <2>2
<1>2. ControlInv'
  BY BatchControl
<1> QED BY <1>1, <1>2 DEF LInv

\* A step within a batch after which the worker has the same tasks, none of
\* them newly done.
LEMMA MovedPlace ==
  ASSUME LInv, Held \subseteq Held', wpc' \in {"iter", "func", "release"},
         \A t \in Tasks : state[t] = "Done" => state'[t] = "Done",
         UNCHANGED <<running, autoRelease, mem>>, UNCHANGED <<owner, cpc, arg>>
  PROVE  LInv'
<1>1. PlaceInv'
  <2> SUFFICES ASSUME NEW t \in Tasks PROVE PlaceOK(t)'
    BY DEF PlaceInv
  <2>1. Left(t)
    BY DEF Left, Handled
  <2> QED BY <2>1, LeftPlace DEF LInv, PlaceInv
<1>2. ControlInv'
  BY BatchControl
<1> QED BY <1>1, <1>2 DEF LInv

\* The processing of the first task of the batch.
LEMMA ProcessLInv ==
  ASSUME IInv, LInv, WorkerRunTask \/ WorkerSkipTask \/ WorkerDropTask
  PROVE  LInv'
<1> USE ConstantsOK DEF IInv
<1>t. /\ Head(todo) \in Tasks /\ Tail(todo) \in Seq(Tasks)
      /\ Elems(todo) = {Head(todo)} \cup Elems(Tail(todo))
      /\ mem[Head(todo)] = "alive" /\ state[Head(todo)] \in {"Queued", "Cancelled"}
      /\ wpc = "iter"
  BY HeadOfBatch DEF WorkerRunTask, WorkerSkipTask, WorkerDropTask
<1>e. /\ todo' = Tail(todo) /\ UNCHANGED <<running, tasks, autoRelease, mem>>
      /\ UNCHANGED <<owner, cpc, arg>>
  BY DEF WorkerRunTask, WorkerSkipTask, WorkerDropTask, taskVars, clientVars
<1>h. Held = InLists
  BY <1>t DEF Held
<1>1. ASSUME state' = [state EXCEPT ![Head(todo)] = "Done"], FinishTask(Head(todo), TRUE)
      PROVE  LInv'
  <2>1. /\ kept' = kept
        /\ \/ Head(todo) \in autoRelease /\ wpc' = "release" /\ cur' = Head(todo)
           \/ Head(todo) \notin autoRelease /\ wpc' = "iter" /\ cur' = NoTask
    BY <1>1 DEF FinishTask
  <2>2. Held \ {Head(todo)} \subseteq InLists'
    BY <1>t, <1>e, <1>h, <2>1 DEF InLists
  <2> QED BY <1>1, <1>t, <1>e, <2>1, <2>2, FinishedPlace
<1>2. CASE WorkerRunTask /\ (running \/ finishTasks)
  <2>1. /\ state' = [state EXCEPT ![Head(todo)] = "Running"]
        /\ wpc' = "func" /\ cur' = Head(todo) /\ kept' = kept
    BY <1>2 DEF WorkerRunTask
  <2>2. Held \subseteq Held'
    BY <1>t, <1>e, <1>h, <2>1 DEF Held, InLists
  <2>3. \A t \in Tasks : state[t] = "Done" => state'[t] = "Done"
    BY <1>t, <2>1 DEF TypeOK, TaskTypeOK
  <2> QED BY <1>e, <2>1, <2>2, <2>3, MovedPlace
<1>3. CASE WorkerRunTask /\ ~(running \/ finishTasks)
  BY <1>1, <1>3, Zenon DEF WorkerRunTask
<1>4. CASE WorkerSkipTask
  <2>1. state' = state /\ kept' = Append(kept, Head(todo)) /\ wpc' \in {"iter", "release"}
    BY <1>4 DEF WorkerSkipTask, FinishTask, taskVars
  <2>2. Elems(kept') = Elems(kept) \cup {Head(todo)}
    BY <1>t, <2>1, AppendLemma DEF TypeOK, WorkerTypeOK
  <2>3. Held \subseteq Held'
    BY <1>t, <1>e, <1>h, <2>2 DEF Held, InLists
  <2> QED BY <1>e, <2>1, <2>3, MovedPlace
<1>5. CASE WorkerDropTask
  <2>1. state[Head(todo)] = "Cancelled"
    BY <1>5, <1>t DEF WorkerDropTask
  <2>2. state' = [state EXCEPT ![Head(todo)] = "Done"] /\ FinishTask(Head(todo), TRUE)
    BY <1>5, <2>1, Zenon DEF WorkerDropTask
  <2> QED BY <1>1, <2>2
<1> QED BY <1>2, <1>3, <1>4, <1>5

\* A function has returned.
LEMMA WorkerFuncReturnsLInv ==
  ASSUME IInv, LInv, WorkerFuncReturns
  PROVE  LInv'
<1> USE ConstantsOK DEF IInv
<1>t. /\ cur \in Tasks /\ mem[cur] = "alive" /\ wpc = "func"
      /\ state[cur] \in {"Running", "Cancelled"}
  BY DEF WorkerFuncReturns, KnownInv
<1>e. UNCHANGED <<running, tasks, todo, autoRelease, mem>> /\ UNCHANGED <<owner, cpc, arg>>
  BY DEF WorkerFuncReturns, clientVars
<1>h. Held = InLists \cup {cur}
  BY <1>t DEF Held
<1>1. CASE running /\ state[cur] = "Running" /\ cur \in repeated
  <2>1. /\ state' = [state EXCEPT ![cur] = "Queued"]
        /\ kept' = Append(kept, cur) /\ wpc' \in {"iter", "release"}
    BY <1>1 DEF WorkerFuncReturns, FinishTask
  <2>2. Elems(kept') = Elems(kept) \cup {cur}
    BY <1>t, <2>1, AppendLemma DEF TypeOK, WorkerTypeOK
  <2>3. Held \subseteq Held'
    BY <1>e, <1>h, <2>2 DEF Held, InLists
  <2>4. \A t \in Tasks : state[t] = "Done" => state'[t] = "Done"
    BY <1>t, <2>1 DEF TypeOK, TaskTypeOK
  <2> QED BY <1>e, <2>1, <2>3, <2>4, MovedPlace
<1>2. CASE ~(running /\ state[cur] = "Running" /\ cur \in repeated)
  <2>1. state' = [state EXCEPT ![cur] = "Done"] /\ FinishTask(cur, TRUE)
    BY <1>2, Zenon DEF WorkerFuncReturns
  <2>2. /\ kept' = kept
        /\ \/ cur \in autoRelease /\ wpc' = "release" /\ cur' = cur
           \/ cur \notin autoRelease /\ wpc' = "iter" /\ cur' = NoTask
    BY <2>1 DEF FinishTask
  <2>3. Held \ {cur} \subseteq InLists'
    BY <1>e, <1>h, <2>2 DEF InLists
  <2> QED BY <1>t, <1>e, <2>1, <2>2, <2>3, FinishedPlace
<1> QED BY <1>1, <1>2

\* The worker frees an auto_release task.
LEMMA WorkerReleaseLInv ==
  ASSUME IInv, LInv, WorkerRelease
  PROVE  LInv'
<1> USE ConstantsOK DEF IInv
<1>t. cur \in Tasks /\ wpc = "release" /\ state[cur] = "Done"
  BY DEF WorkerRelease, KnownInv
<1>e. /\ mem' = [mem EXCEPT ![cur] = "freed"] /\ wpc' = "iter"
      /\ UNCHANGED <<running, tasks, todo, kept, state, autoRelease>>
      /\ UNCHANGED <<owner, cpc, arg>>
  BY <1>t DEF WorkerRelease
<1>s. \A t \in Tasks : mem'[t] = IF t = cur THEN "freed" ELSE mem[t]
  BY <1>e DEF TypeOK, TaskTypeOK
<1>1. PlaceInv'
  <2> SUFFICES ASSUME NEW t \in Tasks PROVE PlaceOK(t)'
    BY DEF PlaceInv
  <2>1. CASE t = cur
    BY <1>s, <2>1 DEF PlaceOK
  <2>2. CASE t # cur
    <3>1. t \in Held => t \in Held'
      BY <1>e, <2>2 DEF Held, InLists
    <3>2. Left(t)
      BY <1>e, <1>s, <2>2, <3>1 DEF Left, Handled
    <3> QED BY <3>2, LeftPlace DEF LInv, PlaceInv
  <2> QED BY <2>1, <2>2
<1>2. ControlInv'
  BY <1>e, BatchControl
<1> QED BY <1>1, <1>2 DEF LInv

\* The steps that process no task leave every task in its place.
LEMMA LoopPlace ==
  ASSUME IInv, LInv,
         \/ WorkerStart \/ WorkerTop \/ WorkerBatchDone \/ WorkerBroadcast
         \/ WorkerAfterBatch \/ WorkerResume \/ SpuriousWakeup
  PROVE  PlaceInv' /\ StopInv'
<1> USE ConstantsOK DEF IInv
<1>1. InLists' = InLists
  <2>1. CASE WorkerTop
    BY <2>1, EmptyLemma DEF WorkerTop, InLists, BatchInv
  <2>2. CASE WorkerAfterBatch
    <3>1. tasks' = tasks \o kept /\ kept' = << >> /\ todo' = todo
      BY <2>2 DEF WorkerAfterBatch
    <3>2. Elems(tasks') = Elems(tasks) \cup Elems(kept)
      BY <3>1, ConcatLemma DEF TypeOK, WorkerTypeOK
    <3> QED BY <3>1, <3>2, EmptyLemma DEF InLists
  <2>3. CASE WorkerStart \/ WorkerBatchDone \/ WorkerBroadcast \/ WorkerResume \/ SpuriousWakeup
    BY <2>3 DEF WorkerStart, WorkerBatchDone, WorkerBroadcast, WorkerResume, SpuriousWakeup,
       workerVars, InLists
  <2> QED BY <2>1, <2>2, <2>3
<1>2. /\ UNCHANGED <<running, cur, state, autoRelease, mem>> /\ UNCHANGED <<owner, arg>>
      /\ wpc' = wpc \/ wpc \notin {"func", "release"}
  BY Zenon DEF WorkerStart, WorkerTop, WorkerBatchDone, WorkerBroadcast, WorkerAfterBatch,
     WorkerResume, SpuriousWakeup, workerVars, taskVars, clientVars
<1>3. \A c \in Clients : cpc'[c] = cpc[c] \/ (cpc[c] = "wait" /\ cpc'[c] = "woken")
  <2>1. \/ cpc' = cpc \/ cpc' = Broadcast(cpc)
        \/ \E d \in Clients : cpc[d] = "wait" /\ cpc' = [cpc EXCEPT ![d] = "woken"]
    BY Zenon DEF WorkerStart, WorkerTop, WorkerBatchDone, WorkerBroadcast, WorkerAfterBatch,
       WorkerResume, SpuriousWakeup, clientVars
  <2> QED BY <2>1 DEF Broadcast, TypeOK, ClientTypeOK
<1>4. PlaceInv'
  <2> SUFFICES ASSUME NEW t \in Tasks PROVE PlaceOK(t)'
    BY DEF PlaceInv
  <2>1. t \in Held => t \in Held'
    BY <1>1, <1>2 DEF Held
  <2>2. Handled(t) => Handled(t)'
    BY <1>2, <1>3 DEF Handled, Destroying
  <2>3. Left(t)
    BY <1>2, <2>1, <2>2 DEF Left
  <2> QED BY <2>3, LeftPlace DEF LInv, PlaceInv
<1>5. StopInv'
  BY <1>2, <1>3 DEF LInv, ControlInv, StopInv
<1> QED BY <1>4, <1>5

\* The worker leaves a batch without a sleeping client, merges what is left, and
\* sleeps or ends only with an empty list.
LEMMA LoopControl ==
  ASSUME IInv, LInv,
         \/ WorkerStart \/ WorkerTop \/ WorkerBatchDone \/ WorkerBroadcast
         \/ WorkerAfterBatch \/ WorkerResume \/ SpuriousWakeup
  PROVE  KeptInv' /\ ExitInv' /\ WaitInv'
<1> USE ConstantsOK DEF LInv, ControlInv
<1>1. CASE WorkerStart \/ WorkerResume
  BY <1>1, Zenon DEF WorkerStart, WorkerResume, clientVars, KeptInv, ExitInv, WaitInv
<1>2. CASE WorkerTop
  <2>1. /\ wpc = "top" /\ UNCHANGED <<running, kept, cpc, arg>>
        /\ \/ wpc' = "iter"
           \/ wpc' = "wait" /\ inwait' /\ tasks = << >> /\ tasks' = tasks
           \/ wpc' = "exited" /\ ~running /\ tasks = << >> /\ tasks' = tasks
    BY <1>2, Zenon DEF WorkerTop, clientVars
  <2> QED BY <2>1 DEF KeptInv, ExitInv, WaitInv
<1>3. CASE WorkerBatchDone
  <2>1. /\ UNCHANGED cpc
        /\ wpc' = "bcast" \/ (wpc' = "after" /\ \A c \in Clients : cpc[c] # "wait")
    BY <1>3 DEF WorkerBatchDone, clientVars, SomeoneWaits, Blocked
  <2> QED BY <2>1 DEF KeptInv, ExitInv, WaitInv
<1>4. CASE WorkerBroadcast
  <2>1. wpc' = "after" /\ \A c \in Clients : cpc'[c] # "wait"
    BY <1>4 DEF WorkerBroadcast, Broadcast
  <2> QED BY <2>1 DEF KeptInv, ExitInv, WaitInv
<1>5. CASE WorkerAfterBatch
  <2>1. /\ wpc = "after" /\ kept' = << >> /\ cpc' = cpc
        /\ tasks' = tasks \o kept
        /\ \/ wpc' \in {"top", "sleep"}
           \/ wpc' = "wait" /\ inwait' /\ tasks = << >> /\ kept = << >>
    BY <1>5, Zenon DEF WorkerAfterBatch, clientVars
  <2>2. tasks = << >> /\ kept = << >> => tasks' = << >>
    BY <2>1
  <2> QED BY <2>1, <2>2 DEF KeptInv, ExitInv, WaitInv
<1>6. CASE SpuriousWakeup
  <2>1. /\ UNCHANGED <<running, inwait, tasks, kept, arg>>
        /\ wpc' = wpc \/ (wpc = "wait" /\ wpc' = "woken")
        /\ \A c \in Clients : cpc'[c] = "wait" => cpc[c] = "wait"
    BY <1>6 DEF SpuriousWakeup, workerVars, clientVars, IInv, TypeOK, ClientTypeOK
  <2> QED BY <2>1 DEF KeptInv, ExitInv, WaitInv
<1> QED BY <1>1, <1>2, <1>3, <1>4, <1>5, <1>6

-----------------------------------------------------------------------------
(* The theorems.                                                           *)

\* Every step keeps the strengthening.
LEMMA NextLInv == IInv /\ LInv /\ [Next]_vars => LInv'
<1> SUFFICES ASSUME IInv, LInv, [Next]_vars PROVE LInv'
  OBVIOUS
<1>1. CASE WorkerStep \/ SpuriousWakeup
  BY <1>1, ProcessLInv, WorkerFuncReturnsLInv, WorkerReleaseLInv, LoopPlace, LoopControl
     DEF WorkerStep, LInv, ControlInv
<1>2. ASSUME NEW c \in Clients, ClientCall(c)
      PROVE  LInv'
  <2>1. ASSUME NEW t \in Tasks, AddTask(c, t) \/ AddWaitableTask(c, t) \/ AddRepeatedTask(c, t)
        PROVE  LInv'
    BY <2>1, QueueTaskLInv, Zenon DEF AddTask, AddWaitableTask, AddRepeatedTask
  <2>2. ASSUME NEW t \in Tasks, \/ Cancel(c, t) \/ CancelAndDestroy(c, t)
                                \/ WaitCompletion(c, t) \/ Destroy(c, t)
        PROVE  LInv'
    BY <2>2, CancelLInv, CancelAndDestroyLInv, WaitLInv, DestroyStepsLInv
  <2>3. ASSUME NEW finish \in BOOLEAN, WorkerDestroy(c, finish)
        PROVE  LInv'
    BY <2>3, WorkerDestroyLInv
  <2> QED BY <1>2, <2>1, <2>2, <2>3 DEF ClientCall
<1>3. ASSUME NEW c \in Clients, ClientStep(c)
      PROVE  LInv'
  BY <1>3, WaitLInv, DestroyStepsLInv, DestroyDelayedLInv, FreeLInv, WorkerJoinLInv
     DEF ClientStep
<1>4. CASE UNCHANGED vars
  <2> USE <1>4 DEF vars, workerVars, taskVars, clientVars, LInv, ControlInv
  <2>1. PlaceInv'
    BY DEF PlaceInv, PlaceOK, Held, InLists, Handled
  <2>2. StopInv' /\ KeptInv' /\ ExitInv' /\ WaitInv'
    BY DEF StopInv, KeptInv, ExitInv, WaitInv
  <2> QED BY <2>1, <2>2
<1> QED BY <1>1, <1>2, <1>3, <1>4 DEF Next

\* The strengthening holds in every reachable state.
LEMMA PlacesKept ==
  ASSUME ~DestroyAnyTime
  PROVE  Spec => []LInv
BY InitLInv, NextLInv, InductiveInvariant, PTL DEF Spec

\* When the worker sleeps its list is empty, so no client sleeps on the shared
\* condition variable and the one thread that the signal of
\* ms_worker_thread_queue_task() wakes is the worker.
THEOREM SignalNotLost ==
  ASSUME ~DestroyAnyTime
  PROVE  Spec => []SignalReachesWorker
<1>1. LInv => SignalReachesWorker
  BY EmptyLemma DEF LInv, ControlInv, WaitInv, SignalReachesWorker
<1> QED BY <1>1, PlacesKept, PTL

\* When the worker thread has ended its list is empty and every task that was
\* ever allocated has been freed: "should never happen" never happens.
THEOREM NothingLeft ==
  ASSUME ~DestroyAnyTime
  PROVE  Spec => []CleanExit
<1>1. IInv /\ LInv => CleanExit
  <2> SUFFICES ASSUME IInv, LInv, wpc = "exited" PROVE tasks = << >> /\ \A t \in Tasks : mem[t] # "alive"
    BY DEF CleanExit
  <2>1. tasks = << >> /\ todo = << >> /\ kept = << >> /\ ~running
    BY DEF LInv, ControlInv, ExitInv, KeptInv, IInv, BatchInv
  <2>2. Held = {}
    BY <2>1, EmptyLemma DEF Held, InLists
  <2>3. \A t \in Tasks : ~Handled(t)
    BY <2>1 DEF LInv, ControlInv, StopInv, Handled, Destroying
  <2> QED BY <2>1, <2>2, <2>3 DEF LInv, PlaceInv, PlaceOK
<1> QED BY <1>1, PlacesKept, InductiveInvariant, PTL

-----------------------------------------------------------------------------
(* Selecting from a list.                                                  *)

\* A set of natural numbers has a least element.
LEMMA LeastNat ==
  ASSUME NEW T, T \subseteq Nat, T # {}
  PROVE  \E x \in T : \A y \in T : x <= y
<1> DEFINE R == OpToRel(<, Nat)
<1>1. IsWellFoundedOn(R, Nat)
  BY NatLessThanWellFounded
<1>2. R = {ss \in Nat \X Nat : ss[1] < ss[2]}
  BY DEF OpToRel
<1> HIDE DEF R
<1>3. PICK x \in T : \A y \in T : ~ (<<y, x>> \in R)
  BY <1>1, WFMin
<1>4. ASSUME NEW y \in T PROVE x <= y
  <2>1. <<y, x>> \notin R
    BY <1>3
  <2>2. x \in Nat /\ y \in Nat
    OBVIOUS
  <2>3. ~ (y < x)
    BY <1>2, <2>1, <2>2
  <2> QED BY <2>2, <2>3
<1> QED
  BY <1>4

\* Induction over 0..N, as a fact about the set of the numbers that have the property.
LEMMA Induction ==
  ASSUME NEW N \in Nat, NEW S, 0 \in S, \A n \in 1..N : n - 1 \in S => n \in S
  PROVE  0..N \subseteq S
<1> SUFFICES ASSUME ~ (0..N \subseteq S) PROVE FALSE
  OBVIOUS
<1> DEFINE T == {n \in 0..N : n \notin S}
<1>1. PICK x \in T : \A y \in T : x <= y
  <2>1. T \subseteq Nat /\ T # {}
    OBVIOUS
  <2> HIDE DEF T
  <2> QED BY <2>1, LeastNat
<1>2. x \in 1..N /\ x \notin S
  OBVIOUS
<1>3. x - 1 \in 0..N /\ ~ (x <= x - 1)
  BY <1>2
<1>4. x - 1 \in S
  BY <1>1, <1>3
<1> QED BY <1>2, <1>4

\* The values that the recursion of Among() goes through for the first m elements.
Picks(f, s, S, T, m) ==
  /\ f \in [0..m -> Seq(T)] /\ f[0] = << >>
  /\ \A n \in 1..m : f[n] = IF s[n] \in S THEN Append(f[n - 1], s[n]) ELSE f[n - 1]

\* There are such values.
LEMMA PicksExist ==
  ASSUME NEW T, NEW s \in Seq(T), NEW S
  PROVE  \E f : Picks(f, s, S, T, Len(s))
<1> DEFINE M == {m \in 0..Len(s) : \E f : Picks(f, s, S, T, m)}
<1>1. Len(s) \in Nat /\ \A n \in 1..Len(s) : s[n] \in T
  OBVIOUS
<1>2. 0 \in M
  <2> DEFINE f == [n \in 0..0 |-> << >>]
  <2>1. Picks(f, s, S, T, 0)
    BY DEF Picks
  <2> HIDE DEF f
  <2> QED BY <1>1, <2>1
<1>3. ASSUME NEW m \in 1..Len(s), m - 1 \in M PROVE m \in M
  <2>1. PICK f : Picks(f, s, S, T, m - 1)
    BY <1>3
  <2>2. /\ f \in [0..(m - 1) -> Seq(T)] /\ f[0] = << >>
        /\ \A n \in 1..(m - 1) : f[n] = IF s[n] \in S THEN Append(f[n - 1], s[n]) ELSE f[n - 1]
    BY <2>1 DEF Picks
  <2> DEFINE last == IF s[m] \in S THEN Append(f[m - 1], s[m]) ELSE f[m - 1]
             g == [n \in 0..m |-> IF n = m THEN last ELSE f[n]]
  <2>3. m - 1 \in 0..(m - 1) /\ m \in Nat /\ m # 0
    OBVIOUS
  <2>4. last \in Seq(T)
    BY <1>1, <2>2, <2>3
  <2>5. /\ g[m] = last /\ g[m - 1] = f[m - 1]
        /\ \A n \in 0..(m - 1) : g[n] = f[n]
    BY <2>3
  <2>6. g \in [0..m -> Seq(T)] /\ g[0] = << >>
    BY <2>2, <2>3, <2>4
  <2> HIDE DEF g
  <2>7. ASSUME NEW n \in 1..m
        PROVE  g[n] = IF s[n] \in S THEN Append(g[n - 1], s[n]) ELSE g[n - 1]
    <3>1. CASE n = m
      BY <2>5, <3>1
    <3>2. CASE n # m
      <4>1. n \in 1..(m - 1) /\ n \in 0..(m - 1) /\ n - 1 \in 0..(m - 1)
        BY <3>2
      <4> QED BY <2>2, <2>5, <4>1
    <3> QED BY <3>1, <3>2
  <2>8. Picks(g, s, S, T, m)
    BY <2>6, <2>7 DEF Picks
  <2>9. m \in 0..Len(s)
    BY <1>1
  <2> QED BY <2>8, <2>9
<1>4. 0..Len(s) \subseteq M
  <2> HIDE DEF M
  <2> QED BY <1>1, <1>2, <1>3, Induction
<1> QED
  BY <1>1, <1>4

\* s and u have the same first m elements, and S and R pick the same of them.
Agree(s, S, u, R, m) == \A n \in 1..m : s[n] = u[n] /\ (s[n] \in S <=> u[n] \in R)

\* They depend only on the elements looked at, and on which of them are picked.
LEMMA PicksSame ==
  ASSUME NEW T, NEW s, NEW u, NEW S, NEW R, NEW k \in Nat, NEW l \in Nat, NEW f, NEW g,
         Picks(f, s, S, T, k), Picks(g, u, R, T, l),
         NEW m \in (0..k) \cap (0..l), Agree(s, S, u, R, m)
  PROVE  f[m] = g[m]
<1> DEFINE M == {n \in 0..m : f[n] = g[n]}
<1>1. 0 \in M
  BY DEF Picks
<1>2. ASSUME NEW n \in 1..m, n - 1 \in M PROVE n \in M
  <2>1. n \in 1..k /\ n \in 1..l /\ n \in 0..m
    OBVIOUS
  <2>2. /\ f[n] = IF s[n] \in S THEN Append(f[n - 1], s[n]) ELSE f[n - 1]
        /\ g[n] = IF u[n] \in R THEN Append(g[n - 1], u[n]) ELSE g[n - 1]
    BY <2>1 DEF Picks
  <2> QED BY <1>2, <2>1, <2>2 DEF Agree
<1>3. 0..m \subseteq M
  <2> HIDE DEF M
  <2> QED BY <1>1, <1>2, Induction
<1> QED
  BY <1>3

\* Among() is the last of them.
LEMMA AmongPicks ==
  ASSUME NEW T, NEW s \in Seq(T), NEW S
  PROVE  \E f : Picks(f, s, S, T, Len(s)) /\ Among(s, S) = f[Len(s)]
<1> DEFINE Fun(k) == [i \in 0..Len(s) |->
                        IF i = 0 THEN << >>
                        ELSE IF s[i] \in S THEN Append(k[i - 1], s[i]) ELSE k[i - 1]]
           Kept == CHOOSE k : k = Fun(k)
<1>0. Among(s, S) = Kept[Len(s)]
  BY DEF Among
<1>1. PICK f : Picks(f, s, S, T, Len(s))
  BY PicksExist
<1>2. Len(s) \in Nat
  OBVIOUS
<1>3. f = Fun(f)
  <2>1. /\ f \in [0..Len(s) -> Seq(T)] /\ f[0] = << >>
        /\ \A n \in 1..Len(s) : f[n] = IF s[n] \in S THEN Append(f[n - 1], s[n]) ELSE f[n - 1]
    BY <1>1 DEF Picks
  <2>2. \A n \in 0..Len(s) : n # 0 => n \in 1..Len(s)
    BY <1>2
  <2> QED BY <2>1, <2>2
<1>4. Kept = Fun(Kept)
  <2> HIDE DEF Fun
  <2> QED BY <1>3
<1> HIDE DEF Kept
<1> DEFINE M == {n \in 0..Len(s) : Kept[n] = f[n]}
<1>5. 0..Len(s) \subseteq M
  <2>1. 0 \in M
    BY <1>1, <1>2, <1>4 DEF Picks
  <2>2. ASSUME NEW n \in 1..Len(s), n - 1 \in M PROVE n \in M
    <3>1. n \in 0..Len(s) /\ n # 0
      BY <1>2
    <3>2. Kept[n] = IF s[n] \in S THEN Append(Kept[n - 1], s[n]) ELSE Kept[n - 1]
      BY <1>4, <3>1
    <3>3. f[n] = IF s[n] \in S THEN Append(f[n - 1], s[n]) ELSE f[n - 1]
      BY <1>1 DEF Picks
    <3> QED BY <2>2, <3>1, <3>2, <3>3
  <2> HIDE DEF M
  <2> QED BY <1>2, <2>1, <2>2, Induction
<1> QED
  BY <1>0, <1>1, <1>2, <1>5

\* Among() depends only on which elements are in the set.
LEMMA AmongSame ==
  ASSUME NEW T, NEW s \in Seq(T), NEW S, NEW R, \A x \in Elems(s) : x \in S <=> x \in R
  PROVE  Among(s, S) = Among(s, R) /\ Among(s, S) \in Seq(T)
<1>1. PICK f : Picks(f, s, S, T, Len(s)) /\ Among(s, S) = f[Len(s)]
  BY AmongPicks
<1>2. PICK g : Picks(g, s, R, T, Len(s)) /\ Among(s, R) = g[Len(s)]
  BY AmongPicks
<1>3. /\ Len(s) \in Nat /\ Len(s) \in (0..Len(s)) \cap (0..Len(s))
      /\ Agree(s, S, s, R, Len(s))
  BY DEF Elems, Agree
<1>4. f[Len(s)] = g[Len(s)]
  BY <1>1, <1>2, <1>3, PicksSame
<1>5. f[Len(s)] \in Seq(T)
  BY <1>1, <1>3 DEF Picks
<1> QED BY <1>1, <1>2, <1>4, <1>5

\* Nothing is picked from the empty list.
LEMMA AmongEmpty == ASSUME NEW S PROVE Among(<< >>, S) = << >>
<1>1. << >> \in Seq({}) /\ Len(<< >>) = 0
  OBVIOUS
<1>2. PICK f : Picks(f, << >>, S, {}, 0) /\ Among(<< >>, S) = f[0]
  BY <1>1, AmongPicks
<1> QED BY <1>2 DEF Picks

\* Nothing is picked by the empty set.
LEMMA AmongNone == ASSUME NEW T, NEW s \in Seq(T) PROVE Among(s, {}) = << >>
<1>1. PICK f : Picks(f, s, {}, T, Len(s)) /\ Among(s, {}) = f[Len(s)]
  BY AmongPicks
<1>2. /\ Len(s) \in Nat /\ f[0] = << >>
      /\ \A n \in 1..Len(s) : f[n] = f[n - 1]
  BY <1>1 DEF Picks
<1> DEFINE M == {n \in 0..Len(s) : f[n] = << >>}
<1>3. 0 \in M
  BY <1>2
<1>4. ASSUME NEW n \in 1..Len(s), n - 1 \in M PROVE n \in M
  BY <1>2, <1>4
<1>5. 0..Len(s) \subseteq M
  <2> HIDE DEF M
  <2> QED BY <1>2, <1>3, <1>4, Induction
<1> QED BY <1>1, <1>2, <1>5

\* A list of one element.
LEMMA AmongOne ==
  ASSUME NEW T, NEW x \in T, NEW S
  PROVE  Among(<<x>>, S) = IF x \in S THEN <<x>> ELSE << >>
<1>1. <<x>> \in Seq(T) /\ Len(<<x>>) = 1 /\ <<x>>[1] = x
  OBVIOUS
<1>2. PICK f : Picks(f, <<x>>, S, T, 1) /\ Among(<<x>>, S) = f[1]
  BY <1>1, AmongPicks
<1>3. f[0] = << >> /\ f[1] = IF x \in S THEN Append(f[0], x) ELSE f[0]
  BY <1>1, <1>2 DEF Picks
<1> QED BY <1>2, <1>3

\* What is picked from two lists one after the other.
LEMMA AmongConcat ==
  ASSUME NEW T, NEW s \in Seq(T), NEW u \in Seq(T), NEW S
  PROVE  Among(s \o u, S) = Among(s, S) \o Among(u, S)
<1> DEFINE k == Len(s)
           l == Len(u)
           v == s \o u
<1>1. /\ k \in Nat /\ l \in Nat /\ v \in Seq(T) /\ Len(v) = k + l
      /\ Agree(v, S, s, S, k)
      /\ \A n \in 1..l : v[k + n] = u[n] /\ u[n] \in T
  BY DEF Agree
<1>2. k \in Nat /\ l \in Nat
  OBVIOUS
<1>3. PICK g : Picks(g, s, S, T, k) /\ Among(s, S) = g[k]
  BY AmongPicks
<1>4. PICK h : Picks(h, u, S, T, l) /\ Among(u, S) = h[l]
  BY AmongPicks
<1> HIDE DEF k, l, v
<1>5. PICK f : Picks(f, v, S, T, k + l) /\ Among(v, S) = f[k + l]
  BY <1>1, AmongPicks
<1>6. f[k] = g[k]
  <2>1. k + l \in Nat /\ k \in (0..(k + l)) \cap (0..k)
    BY <1>1
  <2> QED BY <1>1, <1>2, <1>3, <1>5, <2>1, PicksSame
<1>7. g[k] \in Seq(T) /\ \A n \in 0..l : h[n] \in Seq(T)
  <2>1. k \in 0..k
    BY <1>2
  <2> QED BY <1>3, <1>4, <2>1 DEF Picks
<1> DEFINE M == {n \in 0..l : f[k + n] = g[k] \o h[n]}
<1>8. 0 \in M
  <2>1. h[0] = << >> /\ k + 0 = k /\ 0 \in 0..l
    BY <1>2, <1>4 DEF Picks
  <2>2. g[k] \o << >> = g[k]
    BY <1>7
  <2> QED BY <1>6, <2>1, <2>2
<1>9. ASSUME NEW n \in 1..l, n - 1 \in M PROVE n \in M
  <2>1. k + n \in 1..(k + l) /\ (k + n) - 1 = k + (n - 1) /\ n \in 0..l /\ n - 1 \in 0..l
    BY <1>2
  <2>2. f[k + n] = IF v[k + n] \in S THEN Append(f[(k + n) - 1], v[k + n])
                   ELSE f[(k + n) - 1]
    BY <1>5, <2>1 DEF Picks
  <2>3. f[k + n] = IF u[n] \in S THEN Append(g[k] \o h[n - 1], u[n]) ELSE g[k] \o h[n - 1]
    BY <1>1, <1>9, <2>1, <2>2
  <2>4. h[n] = IF u[n] \in S THEN Append(h[n - 1], u[n]) ELSE h[n - 1]
    BY <1>4 DEF Picks
  <2>5. g[k] \o Append(h[n - 1], u[n]) = Append(g[k] \o h[n - 1], u[n])
    <3> DEFINE a == g[k]
               b == h[n - 1]
               x == u[n]
    <3>1. a \in Seq(T) /\ b \in Seq(T) /\ x \in T
      BY <1>1, <1>7, <2>1
    <3> HIDE DEF a, b, x
    <3>2. a \o Append(b, x) = Append(a \o b, x)
      BY <3>1
    <3> QED BY <3>2 DEF a, b, x
  <2> QED BY <2>1, <2>3, <2>4, <2>5
<1>10. 0..l \subseteq M
  <2> HIDE DEF M
  <2> QED BY <1>2, <1>8, <1>9, Induction
<1>11. l \in 0..l
  BY <1>2
<1>12. f[k + l] = g[k] \o h[l]
  BY <1>10, <1>11
<1> QED
  BY <1>3, <1>4, <1>5, <1>12 DEF v

\* The first of a list.
LEMMA AmongHead ==
  ASSUME NEW T, NEW s \in Seq(T), s # << >>, NEW S
  PROVE  Among(s, S) = (IF Head(s) \in S THEN <<Head(s)>> ELSE << >>) \o Among(Tail(s), S)
<1> DEFINE h == <<Head(s)>>
           t == Tail(s)
<1>1. Head(s) \in T /\ t \in Seq(T) /\ h \in Seq(T) /\ s = h \o t
  OBVIOUS
<1>2. Among(h, S) = IF Head(s) \in S THEN <<Head(s)>> ELSE << >>
  BY <1>1, AmongOne
<1> HIDE DEF h, t
<1>3. Among(h \o t, S) = Among(h, S) \o Among(t, S)
  BY <1>1, AmongConcat
<1> QED
  BY <1>1, <1>2, <1>3 DEF t

\* A value that is not in the list is not missed.
LEMMA AmongWithout ==
  ASSUME NEW T, NEW s \in Seq(T), NEW S, NEW x, x \notin Elems(s)
  PROVE  Among(s, S \ {x}) = Among(s, S) /\ Among(s, S) \in Seq(T)
<1> DEFINE R == S \ {x}
<1>1. \A y \in Elems(s) : y \in S <=> y \in R
  OBVIOUS
<1> HIDE DEF R
<1>2. Among(s, S) = Among(s, R) /\ Among(s, S) \in Seq(T)
  BY <1>1, AmongSame
<1> QED BY <1>2 DEF R

\* Without one of its elements a list without duplicates loses one place.
LEMMA AmongLess ==
  ASSUME NEW T, NEW s \in Seq(T), NoDup(s), NEW S, NEW x \in Elems(s), x \in S
  PROVE  \E i \in DOMAIN Among(s, S) :
           Among(s, S \ {x}) = SubSeq(Among(s, S), 1, i - 1)
                                 \o SubSeq(Among(s, S), i + 1, Len(Among(s, S)))
<1>1. PICK k \in 1..Len(s) : s[k] = x
  BY DEF Elems
<1> DEFINE b == SubSeq(s, 1, k - 1)
           e == SubSeq(s, k + 1, Len(s))
<1>2. /\ b \in Seq(T) /\ e \in Seq(T) /\ x \in T /\ <<x>> \in Seq(T)
      /\ Len(b) = k - 1 /\ Len(e) = Len(s) - k
      /\ \A n \in 1..(k - 1) : b[n] = s[n]
      /\ \A n \in 1..(Len(s) - k) : e[n] = s[k + n]
  BY <1>1
<1> HIDE DEF b, e
<1>3. s = b \o (<<x>> \o e)
  <2> DEFINE v == <<x>> \o e
  <2>0. /\ v \in Seq(T) /\ Len(v) = Len(e) + 1 /\ v[1] = x
        /\ \A n \in 2..(Len(e) + 1) : v[n] = e[n - 1]
    <3>1. e \in Seq(T) /\ x \in T
      BY <1>2
    <3> QED BY <3>1
  <2> HIDE DEF v
  <2>1. /\ v \in Seq(T) /\ Len(v) = Len(s) - k + 1 /\ v[1] = x
        /\ \A n \in 2..(Len(s) - k + 1) : v[n] = s[k + n - 1]
    <3>1. Len(v) = Len(s) - k + 1
      BY <1>2, <2>0
    <3>2. ASSUME NEW n \in 2..(Len(s) - k + 1) PROVE v[n] = s[k + n - 1]
      <4>1. n - 1 \in 1..(Len(s) - k) /\ k + (n - 1) = k + n - 1
        BY <1>1
      <4>2. v[n] = e[n - 1]
        BY <1>2, <2>0
      <4> QED BY <1>2, <4>1, <4>2
    <3> QED BY <2>0, <3>1, <3>2
  <2> DEFINE w == b \o v
  <2>2. /\ w \in Seq(T) /\ Len(w) = Len(b) + Len(v)
        /\ \A n \in 1..(Len(b) + Len(v)) :
             w[n] = IF n <= Len(b) THEN b[n] ELSE v[n - Len(b)]
    <3>1. b \in Seq(T) /\ v \in Seq(T)
      BY <1>2, <2>1
    <3> QED BY <3>1
  <2> HIDE DEF w
  <2>3. Len(b) = k - 1 /\ Len(b) + Len(v) = Len(s)
    <3>1. Len(b) = k - 1 /\ Len(v) = Len(s) - k + 1 /\ k \in Nat /\ Len(s) \in Nat
      BY <1>1, <1>2, <2>1
    <3> QED BY <3>1
  <2>4. ASSUME NEW n \in 1..Len(s) PROVE w[n] = s[n]
    <3>1. w[n] = IF n <= k - 1 THEN b[n] ELSE v[n - (k - 1)]
      BY <2>2, <2>3
    <3>2. CASE n <= k - 1
      <4>1. n \in 1..(k - 1)
        BY <3>2
      <4> QED BY <1>2, <3>1, <3>2, <4>1
    <3>3. CASE n = k
      <4>1. ~ (n <= k - 1) /\ n - (k - 1) = 1
        BY <3>3
      <4> QED BY <1>1, <2>1, <3>1, <3>3, <4>1
    <3>4. CASE n > k
      <4>1. /\ n - (k - 1) \in 2..(Len(s) - k + 1) /\ k + (n - (k - 1)) - 1 = n
            /\ ~ (n <= k - 1)
        BY <1>1, <3>4
      <4> QED BY <2>1, <3>1, <4>1
    <3>5. n <= k - 1 \/ n = k \/ n > k
      BY <1>1
    <3> QED BY <3>2, <3>3, <3>4, <3>5
  <2>5. w \in Seq(T) /\ Len(w) = Len(s) /\ \A n \in 1..Len(s) : w[n] = s[n]
    BY <2>2, <2>3, <2>4
  <2>6. s = w
    BY <2>5
  <2> QED BY <2>6 DEF w, v
<1>4. x \notin Elems(b) /\ x \notin Elems(e)
  <2>1. \A n \in 1..(k - 1) : n \in 1..Len(s) /\ n # k
    BY <1>1
  <2>2. \A n \in 1..(Len(s) - k) : k + n \in 1..Len(s) /\ k + n # k
    BY <1>1
  <2>3. \A n \in 1..Len(s) : n # k => s[n] # x
    BY <1>1 DEF NoDup
  <2>4. x \notin Elems(b)
    <3>1. DOMAIN b = 1..(k - 1)
      BY <1>1, <1>2
    <3>2. \A n \in DOMAIN b : b[n] # x
      BY <1>2, <2>1, <2>3, <3>1
    <3> QED BY <3>2 DEF Elems
  <2>5. x \notin Elems(e)
    <3>1. DOMAIN e = 1..(Len(s) - k)
      BY <1>1, <1>2
    <3>2. \A n \in DOMAIN e : e[n] # x
      BY <1>2, <2>2, <2>3, <3>1
    <3> QED BY <3>2 DEF Elems
  <2> QED BY <2>4, <2>5
<1>5. b \in Seq(T) /\ e \in Seq(T) /\ <<x>> \in Seq(T)
  BY <1>2
<1>6. ASSUME NEW R PROVE Among(s, R) = Among(b, R) \o (Among(<<x>>, R) \o Among(e, R))
  <2> DEFINE o == <<x>>
             v == o \o e
  <2>1. o \in Seq(T) /\ v \in Seq(T)
    BY <1>5
  <2> HIDE DEF o
  <2>2. Among(v, R) = Among(o, R) \o Among(e, R)
    BY <1>5, <2>1, AmongConcat
  <2> HIDE DEF v
  <2>3. b \in Seq(T) /\ v \in Seq(T)
    BY <1>5, <2>1
  <2>4. Among(b \o v, R) = Among(b, R) \o Among(v, R)
    BY <2>3, AmongConcat
  <2> QED BY <1>3, <2>2, <2>4 DEF v, o
<1> DEFINE B == Among(b, S)
           E == Among(e, S)
<1>7. /\ Among(b, S \ {x}) = B /\ Among(e, S \ {x}) = E
      /\ B \in Seq(T) /\ E \in Seq(T)
  BY <1>4, <1>5, AmongWithout
<1>8. Among(<<x>>, S) = <<x>> /\ Among(<<x>>, S \ {x}) = << >>
  BY <1>2, AmongOne
<1>9. Among(s, S) = B \o (<<x>> \o E)
  BY <1>6, <1>8
<1>10. Among(s, S \ {x}) = B \o (<< >> \o E)
  BY <1>6, <1>7, <1>8
<1> HIDE DEF B, E
<1> DEFINE w == B \o (<<x>> \o E)
<1>11. /\ Len(B) + 1 \in DOMAIN w
       /\ SubSeq(w, 1, (Len(B) + 1) - 1) = B
       /\ SubSeq(w, (Len(B) + 1) + 1, Len(w)) = E
  <2>1. /\ w \in Seq(T) /\ Len(w) = Len(B) + 1 + Len(E) /\ Len(B) \in Nat /\ Len(E) \in Nat
        /\ \A n \in 1..Len(B) : w[n] = B[n]
        /\ \A n \in 1..Len(E) : w[Len(B) + 1 + n] = E[n]
    <3> DEFINE v == <<x>> \o E
    <3>1. B \in Seq(T) /\ E \in Seq(T) /\ x \in T
      BY <1>2, <1>7
    <3>2. /\ v \in Seq(T) /\ Len(v) = 1 + Len(E) /\ Len(B) \in Nat /\ Len(E) \in Nat
          /\ \A n \in 1..Len(E) : v[1 + n] = E[n]
      BY <3>1
    <3> HIDE DEF v
    <3>3. /\ B \o v \in Seq(T) /\ Len(B \o v) = Len(B) + Len(v)
          /\ \A n \in 1..Len(B) : (B \o v)[n] = B[n]
          /\ \A n \in 1..Len(v) : (B \o v)[Len(B) + n] = v[n]
      <4>1. B \in Seq(T) /\ v \in Seq(T)
        BY <3>1, <3>2
      <4> QED BY <4>1
    <3>4. w = B \o v
      BY DEF v
    <3> HIDE DEF w
    <3>5. ASSUME NEW n \in 1..Len(E) PROVE w[Len(B) + 1 + n] = E[n]
      <4>1. 1 + n \in 1..Len(v) /\ Len(B) + 1 + n = Len(B) + (1 + n)
        BY <3>2
      <4> QED BY <3>2, <3>3, <3>4, <4>1
    <3>6. Len(w) = Len(B) + 1 + Len(E)
      BY <3>2, <3>3, <3>4
    <3> QED BY <3>2, <3>3, <3>4, <3>5, <3>6
  <2> HIDE DEF w
  <2>2. Len(B) + 1 \in DOMAIN w
    BY <2>1
  <2>3. SubSeq(w, 1, (Len(B) + 1) - 1) = B
    BY <1>7, <2>1
  <2>4. SubSeq(w, (Len(B) + 1) + 1, Len(w)) = E
    BY <1>7, <2>1
  <2> QED BY <2>2, <2>3, <2>4
<1>12. B \o (<< >> \o E) = B \o E
  BY <1>7
<1> HIDE DEF w
<1>13. Among(s, S) = w
  BY <1>9 DEF w
<1> QED
  BY <1>10, <1>11, <1>12, <1>13

-----------------------------------------------------------------------------
(* The worker implements SerialWorker.                                     *)

\* What is left of the batch, then what was queued since.
Line == todo \o tasks

\* The variables of SerialWorker in terms of those of the worker, as Serial maps them.
Pending == Among(Line, OneShots)
Active == IF wpc = "func" /\ cur \notin repeated THEN cur ELSE NoTask
Closing == IF running THEN "no" ELSE IF finishTasks THEN "finish" ELSE "drop"

\* A step of SerialWorker, or one that it does not see.
SerialStep == [Serial!WNext]_(Serial!wvars)

\* Only repeated tasks remain after their turn.
KeptRepeats == Elems(kept) \subseteq repeated

\* A task is at most once in the line.
LEMMA LineFacts ==
  ASSUME IInv
  PROVE  /\ Line \in Seq(Tasks) /\ NoDup(Line) /\ Elems(Line) = Elems(todo) \cup Elems(tasks)
         /\ Elems(Line) \subseteq InLists /\ InLists \subseteq Tasks
<1>1. /\ todo \in Seq(Tasks) /\ tasks \in Seq(Tasks) /\ NoDup(todo) /\ NoDup(tasks)
      /\ Elems(todo) \cap Elems(tasks) = {}
  BY DEF IInv, TypeOK, WorkerTypeOK, ListedOnce
<1>2. Line \in Seq(Tasks) /\ NoDup(Line) /\ Elems(Line) = Elems(todo) \cup Elems(tasks)
  BY <1>1, ConcatLemma DEF Line
<1>3. InLists \subseteq Tasks
  BY InListsType DEF IInv
<1> QED BY <1>2, <1>3 DEF InLists

\* Steps that SerialWorker does not see.
LEMMA Hidden ==
  ASSUME Pending' = Pending, Active' = Active, Closing' = Closing
  PROVE  SerialStep
BY DEF SerialStep, Serial!wvars, Pending, Line, Active, Closing

\* The same line with the same one-shot tasks still to run.
LEMMA SameLine ==
  ASSUME IInv, Line' = Line, \A x \in Elems(Line) : x \in OneShots' <=> x \in OneShots
  PROVE  Pending' = Pending
<1>1. Among(Line, OneShots) = Among(Line, OneShots')
  BY LineFacts, AmongSame
<1> QED BY <1>1 DEF Pending

\* A step that touches neither the lists nor the states of the tasks.
LEMMA HiddenStep ==
  ASSUME IInv, UNCHANGED <<running, finishTasks, tasks, todo, state, repeated>>, Active' = Active
  PROVE  SerialStep
<1>1. Line' = Line /\ OneShots' = OneShots /\ Closing' = Closing
  BY DEF Line, OneShots, Closing
<1>2. Pending' = Pending
  BY <1>1 DEF Pending
<1> QED BY <1>1, <1>2, Hidden

\* ms_task_cancel() withdraws a one-shot task that waits for its turn.
LEMMA CancelStep ==
  ASSUME IInv, NEW t \in Tasks, UNCHANGED <<workerVars, repeated>>,
         state' = [state EXCEPT ![t] = "Cancelled"]
  PROVE  SerialStep
<1>1. UNCHANGED <<running, finishTasks, tasks, todo, wpc, cur, repeated>>
  BY DEF workerVars
<1>2. Line' = Line /\ Active' = Active /\ Closing' = Closing
  BY <1>1 DEF Line, Active, Closing
<1>3. OneShots' = OneShots \ {t}
  BY <1>1 DEF OneShots, IInv, TypeOK, TaskTypeOK
<1>4. CASE t \in Elems(Line) /\ t \in OneShots
  <2>1. PICK i \in DOMAIN Pending :
          Among(Line, OneShots \ {t}) = SubSeq(Pending, 1, i - 1)
                                          \o SubSeq(Pending, i + 1, Len(Pending))
    BY <1>4, LineFacts, AmongLess DEF Pending
  <2>2. Pending' = SubSeq(Pending, 1, i - 1) \o SubSeq(Pending, i + 1, Len(Pending))
    BY <1>2, <1>3, <2>1 DEF Pending
  <2>3. Serial!Withdraw(i)
    BY <1>2, <2>2 DEF Serial!Withdraw, Pending, Line, Active, Closing
  <2>4. i \in DOMAIN Among(todo \o tasks, OneShots)
    BY <2>1 DEF Pending, Line
  <2> QED BY <2>3, <2>4 DEF SerialStep, Serial!WNext
<1>5. CASE ~ (t \in Elems(Line) /\ t \in OneShots)
  <2>1. Pending' = Pending
    BY <1>2, <1>3, <1>5, SameLine
  <2> QED BY <1>2, <2>1, Hidden
<1> QED BY <1>4, <1>5

\* A one-shot task that is queued goes to the end of the line; a repeated one is not seen.
LEMMA QueueStep ==
  ASSUME IInv, NEW c \in Clients, NEW t \in Tasks, NEW rep \in BOOLEAN, NEW auto \in BOOLEAN,
         QueueTask(c, t, rep, auto)
  PROVE  SerialStep
<1>1. /\ running /\ mem[t] = "none" /\ tasks' = Append(tasks, t)
      /\ state' = [state EXCEPT ![t] = "Queued"]
      /\ repeated' = IF rep THEN repeated \cup {t} ELSE repeated
      /\ UNCHANGED <<running, finishTasks, todo, cur>>
      /\ wpc' = wpc \/ (wpc = "wait" /\ wpc' = "woken")
  BY DEF QueueTask, SignalIfInwait
<1>2. /\ t \notin Elems(Line) /\ t \notin repeated /\ state[t] = "Init"
      /\ wpc = "func" => cur # t
  <2>1. \A x \in InLists : mem[x] = "alive"
    BY DEF IInv, KnownInv
  <2>2. wpc = "func" => mem[cur] = "alive"
    BY DEF IInv, KnownInv
  <2>3. state[t] = "Init" /\ t \notin repeated
    BY <1>1 DEF IInv, TypeOK, TaskTypeOK, TaskInv, TaskOK
  <2> QED BY <1>1, <2>1, <2>2, <2>3, LineFacts
<1>3. Active' = Active /\ Closing' = Closing /\ Closing = "no"
  BY <1>1, <1>2 DEF Active, Closing
<1>4. OneShots' = IF rep THEN OneShots ELSE OneShots \cup {t}
  BY <1>1, <1>2 DEF OneShots, IInv, TypeOK, TaskTypeOK
<1>5. t \notin OneShots
  BY <1>2 DEF OneShots
<1>6. Line' = Line \o <<t>>
  BY <1>1 DEF Line, IInv, TypeOK, WorkerTypeOK
<1>7. Among(Line \o <<t>>, OneShots') = Among(Line, OneShots') \o Among(<<t>>, OneShots')
  <2> DEFINE one == <<t>>
  <2>1. Line \in Seq(Tasks) /\ one \in Seq(Tasks)
    BY LineFacts
  <2> HIDE DEF one
  <2>2. Among(Line \o one, OneShots') = Among(Line, OneShots') \o Among(one, OneShots')
    BY <2>1, AmongConcat
  <2> QED BY <2>2 DEF one
<1>8. Among(Line, OneShots') = Pending /\ Pending \in Seq(Tasks)
  <2>1. \A x \in Elems(Line) : x \in OneShots <=> x \in OneShots'
    BY <1>2, <1>4
  <2> QED BY <2>1, LineFacts, AmongSame DEF Pending
<1>9. Pending' = Pending \o (IF rep THEN << >> ELSE <<t>>)
  BY <1>4, <1>5, <1>6, <1>7, <1>8, AmongOne DEF Pending
<1>10. CASE rep
  <2>1. Pending' = Pending
    BY <1>8, <1>9, <1>10
  <2> QED BY <1>3, <2>1, Hidden
<1>11. CASE ~rep
  <2>1. Pending' = Append(Pending, t)
    BY <1>8, <1>9, <1>11
  <2>2. Serial!Submit(t)
    BY <1>3, <2>1 DEF Serial!Submit, Pending, Line, Active, Closing
  <2> QED BY <2>2 DEF SerialStep, Serial!WNext
<1> QED BY <1>10, <1>11

\* The worker takes the next task of the batch.
LEMMA TakeHead ==
  ASSUME IInv, todo # << >>, todo' = Tail(todo), tasks' = tasks,
         \A x \in Tasks : x # Head(todo) => (x \in OneShots' <=> x \in OneShots)
  PROVE  /\ Pending = (IF Head(todo) \in OneShots THEN <<Head(todo)>> ELSE << >>) \o Pending'
         /\ Pending' \in Seq(Tasks) /\ Head(todo) \in Tasks
<1>1. todo \in Seq(Tasks) /\ tasks \in Seq(Tasks) /\ Head(todo) \in Tasks
  BY DEF IInv, TypeOK, WorkerTypeOK
<1>2. Line # << >> /\ Head(Line) = Head(todo) /\ Tail(Line) = Line'
  BY <1>1 DEF Line
<1>3. Line \in Seq(Tasks) /\ NoDup(Line)
  BY LineFacts
<1>4. /\ Line' \in Seq(Tasks) /\ Elems(Line') \subseteq Tasks
      /\ Head(todo) \notin Elems(Line')
  <2>1. Tail(Line) \in Seq(Tasks) /\ Head(Line) \notin Elems(Tail(Line))
    BY <1>2, <1>3, TailLemma
  <2>2. Elems(Tail(Line)) \subseteq Tasks
    BY <2>1 DEF Elems
  <2> QED BY <1>2, <2>1, <2>2
<1>5. Among(Line, OneShots) = (IF Head(Line) \in OneShots THEN <<Head(Line)>> ELSE << >>)
                                \o Among(Tail(Line), OneShots)
  BY <1>2, <1>3, AmongHead
<1>6. \A x \in Elems(Line') : x \in OneShots <=> x \in OneShots'
  BY <1>4
<1>7. Among(Line', OneShots) = Among(Line', OneShots') /\ Among(Line', OneShots) \in Seq(Tasks)
  BY <1>4, <1>6, AmongSame
<1>8. Pending' = Among(Line', OneShots')
  BY DEF Pending
<1> QED BY <1>1, <1>2, <1>5, <1>7, <1>8 DEF Pending

\* A one-shot task whose turn has come is started, or discarded when the worker was
\* destroyed without finishing its tasks.
LEMMA RunStep == ASSUME IInv, WorkerRunTask PROVE SerialStep
<1> DEFINE t == Head(todo)
<1>1. /\ wpc = "iter" /\ todo # << >> /\ state[t] = "Queued"
      /\ todo' = Tail(todo) /\ UNCHANGED <<running, finishTasks, tasks, repeated>>
      /\ IF running \/ finishTasks
         THEN state' = [state EXCEPT ![t] = "Running"] /\ wpc' = "func" /\ cur' = t
         ELSE state' = [state EXCEPT ![t] = "Done"] /\ wpc' \in {"release", "iter"}
  BY DEF WorkerRunTask, FinishTask
<1>2. \A x \in Tasks : x # t => (x \in OneShots' <=> x \in OneShots)
  BY <1>1 DEF OneShots, IInv, TypeOK, TaskTypeOK
<1>3. /\ Pending = (IF t \in OneShots THEN <<t>> ELSE << >>) \o Pending'
      /\ Pending' \in Seq(Tasks) /\ t \in Tasks
  BY <1>1, <1>2, TakeHead
<1>4. t \in OneShots <=> t \notin repeated
  BY <1>1, <1>3 DEF OneShots
<1>5. Active = NoTask /\ Closing' = Closing
  BY <1>1 DEF Active, Closing
<1> HIDE DEF t
<1>6. CASE t \in repeated
  <2>1. Pending' = Pending
    BY <1>3, <1>4, <1>6
  <2>2. Active' = NoTask
    BY <1>1, <1>6 DEF Active
  <2> QED BY <1>5, <2>1, <2>2, Hidden
<1>7. CASE t \notin repeated
  <2>1. Pending # << >> /\ Head(Pending) = t /\ Tail(Pending) = Pending'
    BY <1>3, <1>4, <1>7
  <2>2. CASE running \/ finishTasks
    <3>1. Active' = t /\ Closing # "drop"
      BY <1>1, <1>7, <2>2 DEF Active, Closing
    <3>2. Serial!Start
      BY <1>5, <2>1, <3>1 DEF Serial!Start, Pending, Line, Active, Closing
    <3> QED BY <3>2 DEF SerialStep, Serial!WNext
  <2>3. CASE ~ (running \/ finishTasks)
    <3>1. Active' = NoTask /\ Closing = "drop"
      BY <1>1, <2>3 DEF Active, Closing
    <3>2. Serial!Discard
      BY <1>5, <2>1, <3>1 DEF Serial!Discard, Pending, Line, Active, Closing
    <3> QED BY <3>2 DEF SerialStep, Serial!WNext
  <2> QED BY <2>2, <2>3
<1> QED BY <1>6, <1>7

\* A repeated task that is not due, and a cancelled one, leave the line unseen.
LEMMA PassStep == ASSUME IInv, WorkerSkipTask \/ WorkerDropTask PROVE SerialStep
<1> DEFINE t == Head(todo)
<1>1. /\ wpc = "iter" /\ todo # << >> /\ t \notin OneShots
      /\ todo' = Tail(todo) /\ UNCHANGED <<running, finishTasks, tasks, repeated>>
      /\ wpc' \in {"release", "iter"}
  BY DEF WorkerSkipTask, WorkerDropTask, FinishTask, FirstTurn, OneShots, taskVars
<1>2. state' = state \/ state' = [state EXCEPT ![t] = IF @ = "Cancelled" THEN "Done" ELSE @]
  BY DEF WorkerSkipTask, WorkerDropTask, taskVars
<1>3. \A x \in Tasks : x # t => (x \in OneShots' <=> x \in OneShots)
  BY <1>1, <1>2 DEF OneShots, IInv, TypeOK, TaskTypeOK
<1>4. Pending = << >> \o Pending' /\ Pending' \in Seq(Tasks)
  BY <1>1, <1>3, TakeHead
<1>5. Pending' = Pending
  BY <1>4
<1>6. Active' = Active /\ Closing' = Closing
  BY <1>1 DEF Active, Closing
<1> QED BY <1>5, <1>6, Hidden

\* The function of a one-shot task returns.
LEMMA ReturnStep == ASSUME IInv, WorkerFuncReturns PROVE SerialStep
<1>1. /\ wpc = "func" /\ wpc' \in {"release", "iter"}
      /\ UNCHANGED <<running, finishTasks, tasks, todo, repeated>>
      /\ \/ cur \in repeated /\ state' = [state EXCEPT ![cur] = "Queued"]
         \/ state' = [state EXCEPT ![cur] = "Done"]
  BY DEF WorkerFuncReturns, FinishTask
<1>2. cur \in Tasks /\ cur \notin Elems(Line) /\ state[cur] \in {"Running", "Cancelled"}
  BY <1>1, LineFacts DEF IInv, KnownInv, ListedOnce
<1>3. \A x \in Elems(Line) : x \in OneShots' <=> x \in OneShots
  BY <1>1, <1>2 DEF OneShots, IInv, TypeOK, TaskTypeOK
<1>4. Pending' = Pending
  <2>1. Line' = Line
    BY <1>1 DEF Line
  <2> QED BY <1>3, <2>1, SameLine
<1>5. Active' = NoTask /\ Closing' = Closing
  BY <1>1 DEF Active, Closing
<1>6. CASE cur \in repeated
  BY <1>4, <1>5, <1>6, Hidden DEF Active
<1>7. CASE cur \notin repeated
  <2>1. Active # NoTask
    BY <1>1, <1>2, <1>7, ConstantsOK DEF Active
  <2>2. Serial!Finish
    BY <1>4, <1>5, <2>1 DEF Serial!Finish, Pending, Line, Active, Closing
  <2> QED BY <2>2 DEF SerialStep, Serial!WNext
<1> QED BY <1>6, <1>7

\* Moving the queue to a batch, and the kept tasks back to the queue, changes nothing.
LEMMA BatchStep == ASSUME IInv, KeptRepeats, WorkerTop \/ WorkerAfterBatch PROVE SerialStep
<1>1. /\ wpc # "func" /\ wpc' # "func" /\ todo = << >>
      /\ UNCHANGED <<running, finishTasks, state, repeated>>
  BY DEF WorkerTop, WorkerAfterBatch, taskVars, IInv, BatchInv
<1>2. OneShots' = OneShots /\ Active' = Active /\ Closing' = Closing
  BY <1>1 DEF OneShots, Active, Closing
<1>3. tasks \in Seq(Tasks) /\ kept \in Seq(Tasks)
  BY DEF IInv, TypeOK, WorkerTypeOK
<1>4. Line = tasks
  BY <1>1, <1>3 DEF Line
<1>5. CASE WorkerTop
  <2>1. Line' = tasks
    <3>1. todo' \o tasks' = tasks
      BY <1>1, <1>3, <1>5 DEF WorkerTop
    <3> QED BY <3>1 DEF Line
  <2>2. Pending' = Pending
    BY <1>2, <1>4, <2>1 DEF Pending
  <2> QED BY <1>2, <2>2, Hidden
<1>6. CASE WorkerAfterBatch
  <2>1. Line' = tasks \o kept
    <3>1. todo' = << >> /\ tasks' = tasks \o kept
      BY <1>1, <1>6 DEF WorkerAfterBatch
    <3> QED BY <1>3, <3>1 DEF Line
  <2>2. Among(tasks \o kept, OneShots) = Among(tasks, OneShots) \o Among(kept, OneShots)
    BY <1>3, AmongConcat
  <2>3. Among(kept, OneShots) = Among(kept, {}) /\ Among(tasks, OneShots) \in Seq(Tasks)
    <3>1. \A x \in Elems(kept) : x \in OneShots <=> x \in {}
      BY DEF KeptRepeats, OneShots
    <3> QED BY <1>3, <3>1, AmongSame
  <2>4. Among(kept, {}) = << >>
    BY <1>3, AmongNone
  <2>5. Among(tasks, OneShots) \o << >> = Among(tasks, OneShots)
    BY <2>3
  <2>6. Pending' = Pending
    BY <1>2, <1>4, <2>1, <2>2, <2>3, <2>4, <2>5 DEF Pending
  <2> QED BY <1>2, <2>6, Hidden
<1> QED BY <1>5, <1>6

\* The clients: the calls, ms_worker_thread_destroy() among them,
LEMMA CallStep == ASSUME IInv, NEW c \in Clients, ClientCall(c) PROVE SerialStep
<1>1. ASSUME NEW t \in Tasks, AddTask(c, t) \/ AddWaitableTask(c, t) \/ AddRepeatedTask(c, t)
      PROVE  SerialStep
  BY <1>1, QueueStep DEF AddTask, AddWaitableTask, AddRepeatedTask
<1>2. ASSUME NEW t \in Tasks, Cancel(c, t) \/ CancelAndDestroy(c, t) PROVE SerialStep
  <2>1. /\ UNCHANGED <<workerVars, repeated>>
        /\ state' = state \/ state' = [state EXCEPT ![t] = "Cancelled"]
    BY <1>2 DEF Cancel, CancelAndDestroy, CancelPending
  <2>2. CASE state' = state
    BY <2>1, <2>2, HiddenStep DEF workerVars, Active
  <2> QED BY <2>1, <2>2, CancelStep
<1>3. ASSUME NEW t \in Tasks, WaitCompletion(c, t) \/ Destroy(c, t) PROVE SerialStep
  BY <1>3, HiddenStep DEF WaitCompletion, Destroy, workerVars, taskVars, Active
<1>4. ASSUME NEW finish \in BOOLEAN, WorkerDestroy(c, finish) PROVE SerialStep
  <2>1. /\ running /\ running' = FALSE /\ finishTasks' = finish
        /\ UNCHANGED <<tasks, todo, cur, state, repeated>>
        /\ wpc' = wpc \/ (wpc = "wait" /\ wpc' = "woken")
    BY <1>4 DEF WorkerDestroy, SignalIfInwait, taskVars
  <2>2. Line' = Line /\ OneShots' = OneShots /\ Active' = Active
    BY <2>1 DEF Line, OneShots, Active
  <2>3. Pending' = Pending
    BY <2>2 DEF Pending
  <2>4. Serial!Close(finish)
    BY <2>1, <2>2, <2>3 DEF Serial!Close, Pending, Line, Active
  <2> QED BY <2>4 DEF SerialStep, Serial!WNext
<1> QED BY <1>1, <1>2, <1>3, <1>4 DEF ClientCall

\* and what a call does after it had to let the mutex go.
LEMMA CallGoesOn == ASSUME IInv, NEW c \in Clients, ClientStep(c) PROVE SerialStep
<1>1. CASE WaitRecheck(c) \/ DestroyCheck(c) \/ DestroyWait(c) \/ Free(c) \/ WorkerJoin(c)
  BY <1>1, HiddenStep
     DEF WaitRecheck, DestroyCheck, DestroyWait, Free, WorkerJoin, workerVars, taskVars, Active
<1>2. CASE DestroyDelayed(c) \/ DestroyCancel(c)
  <2>1. arg[c] \in Tasks
    <3>1. cpc[c] \in {"canceldestroy", "dcancel"}
      BY <1>2 DEF DestroyDelayed, DestroyCancel
    <3>2. ClientOK(c) /\ arg[c] \in Tasks \cup {NoTask}
      BY DEF IInv, ClientInv, TypeOK, ClientTypeOK
    <3> QED BY <3>1, <3>2 DEF ClientOK
  <2>2. /\ UNCHANGED <<workerVars, repeated>>
        /\ state' = state \/ state' = [state EXCEPT ![arg[c]] = "Cancelled"]
    BY <1>2 DEF DestroyDelayed, DestroyCancel, CancelPending
  <2>3. CASE state' = state
    BY <2>2, <2>3, HiddenStep DEF workerVars, Active
  <2> QED BY <2>1, <2>2, <2>3, CancelStep
<1> QED BY <1>1, <1>2 DEF ClientStep

\* Every step of the worker and of its clients is a step of SerialWorker or hidden.
LEMMA StepsSerially == IInv /\ KeptRepeats /\ [Next]_vars => SerialStep
<1> SUFFICES ASSUME IInv, KeptRepeats, [Next]_vars PROVE SerialStep
  OBVIOUS
<1>1. CASE WorkerStart \/ WorkerRelease \/ WorkerBatchDone \/ WorkerBroadcast \/ WorkerResume
           \/ SpuriousWakeup
  <2>1. /\ UNCHANGED <<running, finishTasks, tasks, todo, state, repeated>>
        /\ (wpc # "func" /\ wpc' # "func") \/ UNCHANGED <<wpc, cur>>
    BY <1>1 DEF WorkerStart, WorkerRelease, WorkerBatchDone, WorkerBroadcast, WorkerResume,
                SpuriousWakeup, taskVars, workerVars
  <2>2. Active' = Active
    BY <2>1 DEF Active
  <2> QED BY <2>1, <2>2, HiddenStep
<1>2. CASE WorkerStep \/ SpuriousWakeup
  BY <1>1, <1>2, BatchStep, RunStep, PassStep, ReturnStep DEF WorkerStep
<1>3. CASE UNCHANGED vars
  BY <1>3, HiddenStep DEF vars, workerVars, taskVars, Active
<1> QED BY <1>2, <1>3, CallStep, CallGoesOn DEF Next

\* Only a repeated task is kept for another turn.
LEMMA KeptStep == IInv /\ KeptRepeats /\ [Next]_vars => KeptRepeats'
<1> SUFFICES ASSUME IInv, KeptRepeats, [Next]_vars PROVE KeptRepeats'
  OBVIOUS
<1>1. kept \in Seq(Tasks) /\ repeated \subseteq Tasks
  BY DEF IInv, TypeOK, WorkerTypeOK, TaskTypeOK
<1>2. ASSUME NEW t \in repeated, kept' = Append(kept, t), repeated' = repeated PROVE KeptRepeats'
  <2>1. t \in Tasks
    BY <1>1
  <2>2. Elems(kept') = Elems(kept) \cup {t}
    BY <1>1, <1>2, <2>1, AppendLemma
  <2> QED BY <1>2, <2>2 DEF KeptRepeats
<1>3. ASSUME kept' = kept, repeated \subseteq repeated' PROVE KeptRepeats'
  BY <1>3 DEF KeptRepeats
<1>4. CASE WorkerSkipTask \/ WorkerFuncReturns
  <2>1. /\ repeated' = repeated
        /\ kept' = kept \/ \E t \in repeated : kept' = Append(kept, t)
    BY <1>4 DEF WorkerSkipTask, WorkerFuncReturns, FinishTask, FirstTurn, taskVars
  <2> QED BY <1>2, <1>3, <2>1
<1>5. CASE WorkerAfterBatch
  <2>1. kept' = << >>
    BY <1>5 DEF WorkerAfterBatch
  <2> QED BY <2>1, EmptyLemma DEF KeptRepeats
<1>6. CASE WorkerStep \/ SpuriousWakeup
  <2>1. CASE WorkerStart \/ WorkerTop \/ WorkerRelease \/ WorkerBatchDone \/ WorkerBroadcast
             \/ WorkerResume \/ SpuriousWakeup
    BY <1>3, <2>1 DEF WorkerStart, WorkerTop, WorkerRelease, WorkerBatchDone, WorkerBroadcast,
                      WorkerResume, SpuriousWakeup, taskVars, workerVars
  <2>2. CASE WorkerRunTask \/ WorkerDropTask
    BY <1>3, <2>2 DEF WorkerRunTask, WorkerDropTask, FinishTask
  <2> QED BY <1>4, <1>5, <1>6, <2>1, <2>2 DEF WorkerStep
<1>7. ASSUME NEW c \in Clients, ClientCall(c) PROVE KeptRepeats'
  <2>1. ASSUME NEW t \in Tasks, NEW rep, NEW auto, QueueTask(c, t, rep, auto) PROVE KeptRepeats'
    BY <1>3, <2>1 DEF QueueTask
  <2> QED BY <1>3, <1>7, <2>1 DEF ClientCall, AddTask, AddWaitableTask, AddRepeatedTask,
        Cancel, CancelAndDestroy, WaitCompletion, Destroy, WorkerDestroy, workerVars, taskVars
<1>8. ASSUME NEW c \in Clients, ClientStep(c) PROVE KeptRepeats'
  BY <1>3, <1>8 DEF ClientStep, WaitRecheck, DestroyCheck, DestroyDelayed, DestroyCancel,
     DestroyWait, Free, WorkerJoin, workerVars, taskVars
<1>9. CASE UNCHANGED vars
  BY <1>3, <1>9 DEF vars, workerVars, taskVars
<1> QED BY <1>6, <1>7, <1>8, <1>9 DEF Next

\* The worker implements SerialWorker: the one-shot tasks are executed one at a time,
\* each of them once, in the order in which they were queued, whatever repeated tasks,
\* cancellations and batches come in between, and what is left when the worker is
\* destroyed is executed or dropped as was asked.
THEOREM ExecutesSerially ==
  ASSUME ~DestroyAnyTime
  PROVE  Spec => Serial!WSafety
<1>1. Init => Serial!WInit /\ KeptRepeats
  <2> SUFFICES ASSUME Init PROVE Serial!WInit /\ KeptRepeats
    OBVIOUS
  <2>1. KeptRepeats
    BY EmptyLemma DEF Init, KeptRepeats
  <2>2. todo \o tasks = << >>
    BY DEF Init
  <2>3. Among(todo \o tasks, OneShots) = << >>
    BY <2>2, AmongEmpty
  <2> QED BY <2>1, <2>3 DEF Init, Serial!WInit
<1>2. Spec => []KeptRepeats
  BY <1>1, KeptStep, InductiveInvariant, PTL DEF Spec
<1>3. IInv /\ KeptRepeats /\ [Next]_vars => [Serial!WNext]_(Serial!wvars)
  BY StepsSerially DEF SerialStep
<1> QED
  BY <1>1, <1>2, <1>3, InductiveInvariant, PTL DEF Spec, Serial!WSafety

===============================================================================
