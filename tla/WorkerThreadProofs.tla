-------------------------- MODULE WorkerThreadProofs --------------------------
(***************************************************************************)
(* For any number of tasks and clients, a worker whose users call          *)
(* ms_task_destroy() only after a wait has returned never touches a freed  *)
(* task and never holds a task twice.                                      *)
(***************************************************************************)
EXTENDS WorkerThread, TLAPS

\* Zenon first: it is the faster of the two on the many leaves without arithmetic.
USE ZenonT(3), SMTT(30)

-----------------------------------------------------------------------------
(* Lemmas on the lists.                                                    *)

\* What bctbx_list_append() does to the elements and to their uniqueness.
LEMMA AppendLemma ==
  ASSUME NEW S, NEW s \in Seq(S), NEW e \in S
  PROVE  /\ Append(s, e) \in Seq(S)
         /\ Elems(Append(s, e)) = Elems(s) \cup {e}
         /\ NoDup(s) /\ e \notin Elems(s) => NoDup(Append(s, e))
BY DEF Elems, NoDup

\* What bctbx_list_concat() does.
LEMMA ConcatLemma ==
  ASSUME NEW S, NEW s \in Seq(S), NEW u \in Seq(S)
  PROVE  /\ s \o u \in Seq(S)
         /\ Elems(s \o u) = Elems(s) \cup Elems(u)
         /\ NoDup(s) /\ NoDup(u) /\ Elems(s) \cap Elems(u) = {} => NoDup(s \o u)
<1>1. s \o u \in Seq(S)
  OBVIOUS
<1>2. Elems(s \o u) \subseteq Elems(s) \cup Elems(u)
  BY DEF Elems
<1>3. Elems(s) \subseteq Elems(s \o u)
  BY DEF Elems
<1>4. ASSUME NEW x \in Elems(u)
      PROVE  x \in Elems(s \o u)
  <2>1. PICK i \in DOMAIN u : x = u[i]
    BY DEF Elems
  <2>2. /\ Len(s) + i \in DOMAIN (s \o u)
        /\ (s \o u)[Len(s) + i] = x
    BY <2>1
  <2> QED BY <2>2 DEF Elems
<1>5. ASSUME NoDup(s), NoDup(u), Elems(s) \cap Elems(u) = {},
             NEW i \in DOMAIN (s \o u), NEW j \in DOMAIN (s \o u),
             (s \o u)[i] = (s \o u)[j]
      PROVE  i = j
  <2>1. CASE i \in DOMAIN s /\ j \in DOMAIN s
    BY <2>1, <1>5 DEF NoDup
  <2>2. CASE i \notin DOMAIN s /\ j \notin DOMAIN s
    <3>1. i - Len(s) \in DOMAIN u /\ j - Len(s) \in DOMAIN u
      BY <2>2
    <3>2. u[i - Len(s)] = u[j - Len(s)]
      BY <2>2, <1>5
    <3> QED BY <3>1, <1>5 DEF NoDup
  <2>3. CASE i \in DOMAIN s /\ j \notin DOMAIN s
    BY <2>3, <1>5, SMTT(40) DEF Elems
  <2>4. CASE i \notin DOMAIN s /\ j \in DOMAIN s
    BY <2>4, <1>5 DEF Elems
  <2> QED BY <2>1, <2>2, <2>3, <2>4
<1> QED BY <1>2, <1>3, <1>4, <1>5 DEF NoDup

\* Taking the first task of a list without duplicates.
LEMMA TailLemma ==
  ASSUME NEW S, NEW s \in Seq(S), s # <<>>
  PROVE  /\ Head(s) \in S
         /\ Tail(s) \in Seq(S)
         /\ Elems(s) = {Head(s)} \cup Elems(Tail(s))
         /\ NoDup(s) => NoDup(Tail(s)) /\ Head(s) \notin Elems(Tail(s))
<1>1. Head(s) \in S /\ Tail(s) \in Seq(S) /\ Head(s) = s[1]
      /\ 1 \in DOMAIN s /\ \A i \in DOMAIN Tail(s) : Tail(s)[i] = s[i + 1] /\ i + 1 \in DOMAIN s
  OBVIOUS
<1>2. \A i \in DOMAIN s : i = 1 \/ (i - 1 \in DOMAIN Tail(s) /\ Tail(s)[i - 1] = s[i])
  OBVIOUS
<1>3. Elems(s) = {Head(s)} \cup Elems(Tail(s))
  <2>1. ASSUME NEW x \in Elems(s) PROVE x \in {Head(s)} \cup Elems(Tail(s))
    <3>1. PICK i \in DOMAIN s : x = s[i]
      BY DEF Elems
    <3> QED BY <3>1, <1>1, <1>2, Zenon DEF Elems
  <2>2. {Head(s)} \cup Elems(Tail(s)) \subseteq Elems(s)
    BY DEF Elems
  <2> QED BY <2>1, <2>2
<1>4. ASSUME NoDup(s)
      PROVE  NoDup(Tail(s)) /\ Head(s) \notin Elems(Tail(s))
  <2>1. \A i, j \in DOMAIN Tail(s) : i + 1 = j + 1 => i = j
    OBVIOUS
  <2>2. NoDup(Tail(s))
    BY <1>4 DEF NoDup
  <2>3. \A i \in DOMAIN Tail(s) : i + 1 # 1
    OBVIOUS
  <2>4. Head(s) \notin Elems(Tail(s))
    BY <1>4 DEF NoDup, Elems
  <2> QED BY <2>2, <2>4
<1> QED BY <1>3, <1>4

\* The empty list.
LEMMA EmptyLemma == ASSUME NEW S PROVE << >> \in Seq(S) /\ Elems(<< >>) = {} /\ NoDup(<< >>)
BY DEF Elems, NoDup

-----------------------------------------------------------------------------
(* The inductive invariant.                                                *)

InLists == Elems(tasks) \cup Elems(todo) \cup Elems(kept)

\* No client knows the task any more.
Orphan(t) == owner[t] = NoClient /\ \A c \in Clients : arg[c] # t

\* What the worker holds is alive and unfinished, or about to be freed by it;
\* once auto_release is set the worker is the only one left to know the task.
KnownInv ==
  /\ \A t \in InLists : /\ mem[t] = "alive"
                        /\ state[t] \in {"Queued", "Cancelled"}
                        /\ t \in autoRelease => Orphan(t)
  /\ wpc \in {"func", "release"} => /\ cur \in Tasks
                                    /\ mem[cur] = "alive"
                                    /\ cur \in autoRelease => Orphan(cur)
  /\ wpc = "func" => state[cur] \in {"Running", "Cancelled"}
  /\ wpc = "release" => cur \in autoRelease /\ state[cur] = "Done"

\* Outside the batch there is nothing left of it.
BatchInv == wpc \notin {"iter", "func", "release"} => todo = << >>

\* Only a task that will not be repeated is auto_release; flags belong to
\* allocated tasks; a handle is a live task; a wait that returned saw a settled state.
TaskOK(t) ==
  /\ t \in autoRelease /\ t \in repeated => state[t] \in {"Cancelled", "Done"}
  /\ mem[t] = "none" => t \notin autoRelease /\ t \notin repeated
  /\ owner[t] # NoClient => mem[t] = "alive"
  /\ t \in settled => mem[t] # "none" /\ state[t] \in {"Cancelled", "Done"}

TaskInv == \A t \in Tasks : TaskOK(t)

Destroying == {"destroy", "canceldestroy", "dcancel", "dwait", "free"}

\* A client that destroys a task is alone with it, and frees only a done one.
ClientOK(c) ==
  /\ cpc[c] \in {"idle", "join", "gone"} <=> arg[c] = NoTask
  /\ arg[c] # NoTask => mem[arg[c]] = "alive"
  /\ cpc[c] \in {"wait", "woken"} => cont[c] = "idle"
  /\ cpc[c] \in Destroying =>
       /\ owner[arg[c]] = NoClient
       /\ \A d \in Clients : d # c => arg[d] # arg[c]
       /\ state[arg[c]] \in {"Cancelled", "Done"}
  /\ cpc[c] \in {"dcancel", "dwait", "free"} => state[arg[c]] = "Done"

ClientInv == \A c \in Clients : ClientOK(c)

IInv == TypeOK /\ ListedOnce /\ BatchInv /\ KnownInv /\ TaskInv /\ ClientInv

\* The lists hold tasks.
LEMMA InListsType == TypeOK => InLists \subseteq Tasks
BY DEF TypeOK, WorkerTypeOK, InLists, Elems

\* Both invariants read a few variables only.
LEMMA Untouched ==
  ASSUME UNCHANGED <<state, mem, repeated, autoRelease>>,
         UNCHANGED <<owner, settled, cpc, arg, cont>>
  PROVE  /\ TaskInv => TaskInv'
         /\ ClientInv => ClientInv'
<1>1. TaskInv => TaskInv'
  BY DEF TaskInv, TaskOK
<1>2. ClientInv => ClientInv'
  BY DEF ClientInv, ClientOK
<1> QED BY <1>1, <1>2

\* A client that goes on with the destruction of its task concerns nobody else.
LEMMA OneClientMoves ==
  ASSUME TypeOK, ClientInv, NEW c \in Clients, NEW pc \in Destroying, cpc[c] \in Destroying,
         pc \in {"dcancel", "dwait", "free"} => state[arg[c]] = "Done",
         cpc' = [cpc EXCEPT ![c] = pc], UNCHANGED <<state, mem, owner, arg, cont>>
  PROVE  ClientInv'
<1>1. \A d \in Clients : cpc'[d] = IF d = c THEN pc ELSE cpc[d]
  BY DEF TypeOK, ClientTypeOK
<1>2. ASSUME NEW d \in Clients, d # c PROVE ClientOK(d)'
  <2>1. ClientOK(d)
    BY DEF ClientInv
  <2> QED BY <1>1, <1>2, <2>1 DEF ClientOK
<1>3. ClientOK(c)'
  <2>1. ClientOK(c)
    BY DEF ClientInv
  <2> QED BY <1>1, <2>1 DEF ClientOK, Destroying
<1> QED BY <1>2, <1>3 DEF ClientInv

\* The initial state.
LEMMA InitInv == Init => IInv
<1> SUFFICES ASSUME Init PROVE IInv
  OBVIOUS
<1>1. TypeOK
  BY EmptyLemma, Zenon DEF Init, TypeOK, WorkerTypeOK, TaskTypeOK, ClientTypeOK, TaskStates,
     WorkerPcs, ClientPcs
<1>2. ListedOnce /\ BatchInv
  BY EmptyLemma DEF Init, ListedOnce, BatchInv
<1>3. KnownInv
  BY EmptyLemma DEF Init, KnownInv, InLists
<1>4. TaskInv /\ ClientInv
  BY DEF Init, TaskInv, TaskOK, ClientInv, ClientOK, Destroying
<1> QED BY <1>1, <1>2, <1>3, <1>4 DEF IInv

-----------------------------------------------------------------------------
(* Steps of the clients.                                                   *)

\* A new task enters the list: nobody knew it before.
LEMMA QueueTaskInv ==
  ASSUME IInv, NEW c \in Clients, NEW t \in Tasks, NEW rep \in BOOLEAN, NEW auto \in BOOLEAN,
         ~(rep /\ auto), QueueTask(c, t, rep, auto)
  PROVE  IInv'
<1> USE ConstantsOK DEF IInv
<1>t. /\ InLists \subseteq Tasks /\ mem[t] = "none" /\ t \notin InLists
      /\ tasks \in Seq(Tasks) /\ cpc[c] = "idle"
      /\ wpc \in {"func", "release"} => cur # t
      /\ t \notin autoRelease /\ t \notin repeated /\ t \notin settled
  BY InListsType DEF QueueTask, KnownInv, TypeOK, WorkerTypeOK, TaskInv, TaskOK
<1>e. /\ state' = [state EXCEPT ![t] = "Queued"] /\ mem' = [mem EXCEPT ![t] = "alive"]
      /\ tasks' = Append(tasks, t)
      /\ UNCHANGED <<running, finishTasks, inwait, todo, kept, cur, started, settled, arg, cont>>
  BY DEF QueueTask
<1>f. \E o \in Clients \cup {NoClient} :
        /\ owner' = [owner EXCEPT ![t] = o]
        /\ repeated' \in {repeated, repeated \cup {t}}
        /\ autoRelease' \in {autoRelease, autoRelease \cup {t}}
        /\ t \in autoRelease' => o = NoClient /\ t \notin repeated'
  <2>1. CASE auto
    BY <1>t, Zenon DEF QueueTask
  <2>2. CASE ~auto
    BY <1>t, Zenon DEF QueueTask
  <2> QED BY <2>1, <2>2
<1>s. \/ cpc' = cpc /\ (wpc' = wpc \/ (wpc = "wait" /\ wpc' = "woken"))
      \/ /\ \E d \in Clients : cpc[d] = "wait" /\ cpc' = [cpc EXCEPT ![d] = "woken"]
         /\ wpc' = wpc
  <2>1. SignalIfInwait(cpc)
    BY DEF QueueTask
  <2> QED BY <2>1 DEF SignalIfInwait
<1>l. /\ tasks' \in Seq(Tasks) /\ Elems(tasks') = Elems(tasks) \cup {t} /\ NoDup(tasks')
      /\ InLists' = InLists \cup {t}
      /\ t \notin Elems(todo) \cup Elems(kept)
  BY <1>t, <1>e, AppendLemma DEF InLists, ListedOnce
<1>1. TypeOK'
  <2>1. WorkerTypeOK'
    BY <1>e, <1>s DEF TypeOK, WorkerTypeOK, WorkerPcs
  <2>2. TaskTypeOK'
    BY <1>e, <1>f DEF TypeOK, TaskTypeOK, TaskStates
  <2>3. ClientTypeOK'
    BY <1>e, <1>f, <1>s DEF TypeOK, ClientTypeOK, ClientPcs
  <2> QED BY <2>1, <2>2, <2>3 DEF TypeOK
<1>2. ListedOnce' /\ BatchInv'
  BY <1>e, <1>s, <1>l, <1>t DEF ListedOnce, BatchInv
<1>3. KnownInv'
  BY <1>e, <1>f, <1>s, <1>l, <1>t DEF KnownInv, Orphan, ClientInv, ClientOK, TypeOK, TaskTypeOK,
     TaskInv, TaskOK
<1>4. TaskInv'
  BY <1>e, <1>f, <1>t DEF TaskInv, TaskOK, TypeOK, TaskTypeOK
<1>5. ClientInv'
  BY <1>e, <1>f, <1>s, <1>t DEF ClientInv, ClientOK, Destroying, TypeOK, ClientTypeOK
<1> QED BY <1>1, <1>2, <1>3, <1>4, <1>5

\* ms_task_cancel() leaves the task where it is.
LEMMA CancelInv ==
  ASSUME IInv, NEW c \in Clients, NEW t \in Tasks, Cancel(c, t)
  PROVE  IInv'
<1> USE ConstantsOK DEF IInv
<1>t. /\ InLists \subseteq Tasks /\ owner[t] # NoClient /\ cpc[c] = "idle"
      /\ mem[t] = "alive"
  BY InListsType DEF Cancel, TaskInv, TaskOK
<1>1. CASE state[t] # "Done"
  <2>e. /\ state' = [state EXCEPT ![t] = "Cancelled"]
        /\ autoRelease' = autoRelease
        /\ UNCHANGED <<running, finishTasks, inwait, tasks, todo, kept, cur, wpc>>
        /\ UNCHANGED <<repeated, started, mem>>
        /\ cpc' = Broadcast(cpc)
        /\ UNCHANGED <<owner, settled, arg, cont>>
    BY <1>1 DEF Cancel, CancelPending, workerVars
  <2>l. InLists' = InLists
    BY <2>e DEF InLists
  <2>1. TypeOK'
    BY <2>e, <1>t DEF TypeOK, WorkerTypeOK, TaskTypeOK, ClientTypeOK, TaskStates, ClientPcs,
       Broadcast
  <2>2. ListedOnce' /\ BatchInv'
    BY <2>e DEF ListedOnce, BatchInv
  <2>3. KnownInv'
    BY <2>e, <2>l, <1>1 DEF KnownInv, Orphan
  <2>4. TaskInv'
    <3>1. \A u \in Tasks : state'[u] = IF u = t THEN "Cancelled" ELSE state[u]
      BY <2>e DEF TypeOK, TaskTypeOK
    <3> QED BY <2>e, <3>1, SMTT(60) DEF TaskInv, TaskOK
  <2>5. ClientInv'
    BY <2>e, <1>1 DEF ClientInv, ClientOK, Destroying, Broadcast
  <2> QED BY <2>1, <2>2, <2>3, <2>4, <2>5
<1>2. CASE state[t] = "Done"
  <2>e. /\ UNCHANGED <<running, finishTasks, inwait, tasks, todo, kept, cur, wpc>>
        /\ UNCHANGED <<state, repeated, autoRelease, started, mem>>
        /\ UNCHANGED <<owner, settled, cpc, arg, cont>>
    BY <1>2 DEF Cancel, workerVars
  <2>l. InLists' = InLists
    BY <2>e DEF InLists
  <2>1. TypeOK'
    BY <2>e DEF TypeOK, WorkerTypeOK, TaskTypeOK, ClientTypeOK
  <2>2. ListedOnce' /\ BatchInv'
    BY <2>e DEF ListedOnce, BatchInv
  <2>3. KnownInv'
    BY <2>e, <2>l DEF KnownInv, Orphan
  <2>4. TaskInv'
    BY <2>e DEF TaskInv, TaskOK
  <2>5. ClientInv'
    BY <2>e DEF ClientInv, ClientOK
  <2> QED BY <2>1, <2>2, <2>3, <2>4, <2>5
<1> QED BY <1>1, <1>2

\* ms_task_cancel_and_destroy() leaves the task to the worker, or destroys a done one.
LEMMA CancelAndDestroyInv ==
  ASSUME IInv, NEW c \in Clients, NEW t \in Tasks, CancelAndDestroy(c, t)
  PROVE  IInv'
<1> USE ConstantsOK DEF IInv
<1>t. /\ InLists \subseteq Tasks /\ owner[t] = c /\ cpc[c] = "idle" /\ Unused(t)
      /\ mem[t] = "alive"
  BY InListsType DEF CancelAndDestroy, TaskInv, TaskOK
<1>1. CASE state[t] # "Done"
  <2>e. /\ state' = [state EXCEPT ![t] = "Cancelled"]
        /\ autoRelease' = autoRelease \cup {t}
        /\ UNCHANGED <<running, finishTasks, inwait, tasks, todo, kept, cur, wpc>>
        /\ UNCHANGED <<repeated, started, mem>>
        /\ cpc' = Broadcast(cpc)
        /\ owner' = [owner EXCEPT ![t] = NoClient]
        /\ UNCHANGED <<settled, arg, cont>>
    BY <1>1 DEF CancelAndDestroy, CancelPending, workerVars
  <2>l. InLists' = InLists
    BY <2>e DEF InLists
  <2>1. TypeOK'
    BY <2>e, <1>t DEF TypeOK, WorkerTypeOK, TaskTypeOK, ClientTypeOK, TaskStates, ClientPcs,
       Broadcast
  <2>2. ListedOnce' /\ BatchInv'
    BY <2>e DEF ListedOnce, BatchInv
  <2>3. KnownInv'
    BY <2>e, <2>l, <1>t DEF Unused, KnownInv, Orphan, TypeOK, ClientTypeOK
  <2>4. TaskInv'
    BY <2>e, <1>t DEF TaskInv, TaskOK, TypeOK, TaskTypeOK
  <2>5. ClientInv'
    BY <2>e, <1>1 DEF ClientInv, ClientOK, Destroying, Broadcast
  <2> QED BY <2>1, <2>2, <2>3, <2>4, <2>5
<1>2. CASE state[t] = "Done"
  <2>e. /\ UNCHANGED <<running, finishTasks, inwait, tasks, todo, kept, cur, wpc>>
        /\ autoRelease' = autoRelease \cup {t}
        /\ UNCHANGED <<repeated, started, mem>> /\ state' = state
        /\ cpc' = [cpc EXCEPT ![c] = "destroy"]
        /\ arg' = [arg EXCEPT ![c] = t]
        /\ owner' = [owner EXCEPT ![t] = NoClient]
        /\ UNCHANGED <<settled, cont>>
    BY <1>2 DEF CancelAndDestroy, workerVars
  <2>l. InLists' = InLists
    BY <2>e DEF InLists
  <2>1. TypeOK'
    BY <2>e DEF TypeOK, WorkerTypeOK, TaskTypeOK, ClientTypeOK, ClientPcs
  <2>2. ListedOnce' /\ BatchInv'
    BY <2>e DEF ListedOnce, BatchInv
  <2>3. KnownInv'
    BY <2>e, <2>l, <1>t, <1>2 DEF KnownInv, Orphan
  <2>4. TaskInv'
    <3>1. \A u \in Tasks : owner'[u] # NoClient => owner[u] # NoClient
      BY <2>e DEF TypeOK, ClientTypeOK
    <3> QED BY <2>e, <1>t, <1>2, <3>1, SMTT(60) DEF TaskInv, TaskOK
  <2>5. ClientInv'
    BY <2>e, <1>t, <1>2 DEF Unused, ClientInv, ClientOK, TypeOK, ClientTypeOK
  <2> QED BY <2>1, <2>2, <2>3, <2>4, <2>5
<1> QED BY <1>1, <1>2

\* ms_task_wait_completion().
LEMMA WaitCompletionInv ==
  ASSUME IInv, NEW c \in Clients, NEW t \in Tasks, WaitCompletion(c, t)
  PROVE  IInv'
<1> USE ConstantsOK DEF IInv
<1>t. InLists \subseteq Tasks /\ owner[t] = c /\ cpc[c] = "idle"
  BY InListsType DEF WaitCompletion
<1>1. CASE state[t] \in {"Done", "Cancelled"}
  <2>e. /\ UNCHANGED <<running, finishTasks, inwait, tasks, todo, kept, cur, wpc>>
        /\ UNCHANGED <<state, repeated, autoRelease, started, mem>>
        /\ cpc' = [cpc EXCEPT ![c] = "idle"] /\ arg' = [arg EXCEPT ![c] = NoTask]
        /\ settled' = settled \cup {t}
        /\ UNCHANGED <<owner, cont>>
    BY <1>1 DEF WaitCompletion, WaitTest, workerVars, taskVars
  <2>l. InLists' = InLists
    BY <2>e DEF InLists
  <2>1. TypeOK'
    BY <2>e, <1>t DEF TypeOK, WorkerTypeOK, TaskTypeOK, ClientTypeOK
  <2>2. ListedOnce' /\ BatchInv'
    BY <2>e DEF ListedOnce, BatchInv
  <2>3. KnownInv'
    BY <2>e, <2>l, <1>t DEF KnownInv, Orphan
  <2>4. TaskInv'
    BY <2>e, <1>t, <1>1 DEF TaskInv, TaskOK
  <2>5. ClientInv'
    BY <2>e, <1>t DEF ClientInv, ClientOK
  <2> QED BY <2>1, <2>2, <2>3, <2>4, <2>5
<1>2. CASE state[t] \notin {"Done", "Cancelled"}
  <2>e. /\ UNCHANGED <<running, finishTasks, inwait, tasks, todo, kept, cur, wpc>>
        /\ UNCHANGED <<state, repeated, autoRelease, started, mem>>
        /\ cpc' = [cpc EXCEPT ![c] = "wait"] /\ arg' = [arg EXCEPT ![c] = t]
        /\ cont' = [cont EXCEPT ![c] = "idle"]
        /\ UNCHANGED <<owner, settled>>
    BY <1>2 DEF WaitCompletion, WaitTest, workerVars, taskVars
  <2>l. InLists' = InLists
    BY <2>e DEF InLists
  <2>1. TypeOK'
    BY <2>e DEF TypeOK, WorkerTypeOK, TaskTypeOK, ClientTypeOK, ClientPcs
  <2>2. ListedOnce' /\ BatchInv'
    BY <2>e DEF ListedOnce, BatchInv
  <2>3. KnownInv'
    BY <2>e, <2>l, <1>t DEF KnownInv, Orphan
  <2>4. TaskInv'
    BY <2>e DEF TaskInv, TaskOK
  <2>5. ClientInv'
    BY <2>e, <1>t DEF ClientInv, ClientOK, Destroying, TaskInv, TaskOK, TypeOK, ClientTypeOK
  <2> QED BY <2>1, <2>2, <2>3, <2>4, <2>5
<1> QED BY <1>1, <1>2

\* A waiting thread looks again.
LEMMA WaitRecheckInv ==
  ASSUME IInv, NEW c \in Clients, WaitRecheck(c)
  PROVE  IInv'
<1> USE ConstantsOK DEF IInv
<1>t. /\ InLists \subseteq Tasks /\ arg[c] \in Tasks /\ mem[arg[c]] = "alive"
      /\ cpc[c] = "woken" /\ cont[c] = "idle"
  BY InListsType DEF WaitRecheck, ClientInv, ClientOK, TypeOK, ClientTypeOK
<1>1. CASE state[arg[c]] \in {"Done", "Cancelled"}
  <2>e. /\ UNCHANGED <<running, finishTasks, inwait, tasks, todo, kept, cur, wpc>>
        /\ UNCHANGED <<state, repeated, autoRelease, started, mem>>
        /\ cpc' = [cpc EXCEPT ![c] = "idle"] /\ arg' = [arg EXCEPT ![c] = NoTask]
        /\ settled' = settled \cup {arg[c]}
        /\ UNCHANGED <<owner, cont>>
    BY <1>1, <1>t DEF WaitRecheck, WaitTest, workerVars, taskVars
  <2>l. InLists' = InLists
    BY <2>e DEF InLists
  <2>1. TypeOK'
    BY <2>e, <1>t DEF TypeOK, WorkerTypeOK, TaskTypeOK, ClientTypeOK, ClientPcs
  <2>2. ListedOnce' /\ BatchInv'
    BY <2>e DEF ListedOnce, BatchInv
  <2>3. KnownInv'
    BY <2>e, <2>l, <1>t DEF KnownInv, Orphan
  <2>4. TaskInv'
    BY <2>e, <1>t, <1>1 DEF TaskInv, TaskOK
  <2>5. ClientInv'
    <3>1. \A d \in Clients : cpc'[d] = IF d = c THEN "idle" ELSE cpc[d]
      BY <2>e DEF TypeOK, ClientTypeOK
    <3>2. \A d \in Clients : arg'[d] = IF d = c THEN NoTask ELSE arg[d]
      BY <2>e DEF TypeOK, ClientTypeOK
    <3>3. owner' = owner /\ state' = state /\ mem' = mem /\ cont' = cont
      BY <2>e
    <3>4. \A d \in Clients : cpc[d] \in Destroying => arg[d] # NoTask
      BY DEF ClientInv, ClientOK, Destroying
    <3> SUFFICES ASSUME NEW d \in Clients PROVE ClientOK(d)'
      BY DEF ClientInv
    <3>q. ClientOK(d)
      BY DEF ClientInv
    <3> QED BY <3>1, <3>2, <3>3, <3>4, <3>q, SMTT(60) DEF ClientOK, Destroying
  <2> QED BY <2>1, <2>2, <2>3, <2>4, <2>5
<1>2. CASE state[arg[c]] \notin {"Done", "Cancelled"}
  <2>e. /\ UNCHANGED <<running, finishTasks, inwait, tasks, todo, kept, cur, wpc>>
        /\ UNCHANGED <<state, repeated, autoRelease, started, mem>>
        /\ cpc' = [cpc EXCEPT ![c] = "wait"] /\ arg' = [arg EXCEPT ![c] = arg[c]]
        /\ cont' = [cont EXCEPT ![c] = "idle"]
        /\ UNCHANGED <<owner, settled>>
    BY <1>2, <1>t DEF WaitRecheck, WaitTest, workerVars, taskVars
  <2>l. InLists' = InLists
    BY <2>e DEF InLists
  <2>1. TypeOK'
    BY <2>e DEF TypeOK, WorkerTypeOK, TaskTypeOK, ClientTypeOK, ClientPcs
  <2>2. ListedOnce' /\ BatchInv'
    BY <2>e DEF ListedOnce, BatchInv
  <2>3. KnownInv'
    BY <2>e, <2>l DEF KnownInv, Orphan
  <2>4. TaskInv'
    BY <2>e DEF TaskInv, TaskOK
  <2>5. ClientInv'
    BY <2>e, <1>t DEF ClientInv, ClientOK, Destroying
  <2> QED BY <2>1, <2>2, <2>3, <2>4, <2>5
<1> QED BY <1>1, <1>2

\* ms_task_destroy() is called on a settled task.
LEMMA DestroyInv ==
  ASSUME IInv, NEW c \in Clients, NEW t \in Tasks, ~DestroyAnyTime, Destroy(c, t)
  PROVE  IInv'
<1> USE ConstantsOK DEF IInv
<1>t. InLists \subseteq Tasks /\ owner[t] = c /\ cpc[c] = "idle" /\ Unused(t)
  BY InListsType DEF Destroy
<1>e. /\ UNCHANGED <<running, finishTasks, inwait, tasks, todo, kept, cur, wpc>>
      /\ UNCHANGED <<state, repeated, autoRelease, started, mem>>
      /\ cpc' = [cpc EXCEPT ![c] = "destroy"]
      /\ arg' = [arg EXCEPT ![c] = t]
      /\ owner' = [owner EXCEPT ![t] = NoClient]
      /\ t \in settled
      /\ UNCHANGED <<settled, cont>>
  BY DEF Destroy, workerVars, taskVars
<1>l. InLists' = InLists
  BY <1>e DEF InLists
<1>1. TypeOK'
  BY <1>e DEF TypeOK, WorkerTypeOK, TaskTypeOK, ClientTypeOK, ClientPcs
<1>2. ListedOnce' /\ BatchInv'
  BY <1>e DEF ListedOnce, BatchInv
<1>3. KnownInv'
  BY <1>e, <1>l, <1>t DEF KnownInv, Orphan
<1>4. TaskInv'
  BY <1>e DEF TaskInv, TaskOK
<1>5. ClientInv'
  <2>1. \A d \in Clients : /\ cpc'[d] = IF d = c THEN "destroy" ELSE cpc[d]
                           /\ arg'[d] = IF d = c THEN t ELSE arg[d]
    BY <1>e DEF TypeOK, ClientTypeOK
  <2>2. \A u \in Tasks : owner'[u] = IF u = t THEN NoClient ELSE owner[u]
    BY <1>e DEF TypeOK, ClientTypeOK
  <2>3. mem[t] = "alive" /\ state[t] \in {"Cancelled", "Done"} /\ \A d \in Clients : arg[d] # t
    BY <1>e, <1>t DEF Unused, TaskInv, TaskOK
  <2>4. \A d \in Clients : arg[d] \in Tasks \cup {NoTask}
    BY DEF TypeOK, ClientTypeOK
  <2> SUFFICES ASSUME NEW d \in Clients PROVE ClientOK(d)'
    BY DEF ClientInv
  <2>q. ClientOK(d)
    BY DEF ClientInv
  <2> QED BY <1>e, <1>t, <2>1, <2>2, <2>3, <2>4, <2>q, SMTT(60) DEF ClientOK, Destroying
<1> QED BY <1>1, <1>2, <1>3, <1>4, <1>5

\* ms_task_destroy() reads the state.
LEMMA DestroyCheckInv ==
  ASSUME IInv, NEW c \in Clients, DestroyCheck(c)
  PROVE  IInv'
<1> USE ConstantsOK DEF IInv
<1>t. /\ InLists \subseteq Tasks /\ arg[c] \in Tasks /\ mem[arg[c]] = "alive"
      /\ cpc[c] = "destroy"
  BY InListsType DEF DestroyCheck, ClientInv, ClientOK, TypeOK, ClientTypeOK
<1>e. /\ UNCHANGED <<running, finishTasks, inwait, tasks, todo, kept, cur, wpc>>
      /\ UNCHANGED <<state, repeated, autoRelease, started, mem>>
      /\ \E pc \in {"canceldestroy", "free", "dcancel"} :
           /\ cpc' = [cpc EXCEPT ![c] = pc]
           /\ pc # "canceldestroy" => state[arg[c]] # "Cancelled"
      /\ UNCHANGED <<owner, settled, arg, cont>>
  BY Zenon DEF DestroyCheck, workerVars, taskVars
<1>l. InLists' = InLists
  BY <1>e DEF InLists
<1>1. TypeOK'
  BY <1>e DEF TypeOK, WorkerTypeOK, TaskTypeOK, ClientTypeOK, ClientPcs
<1>2. ListedOnce' /\ BatchInv'
  BY <1>e DEF ListedOnce, BatchInv
<1>3. KnownInv'
  BY <1>e, <1>l, ZenonT(40) DEF KnownInv, Orphan
<1>4. TaskInv'
  BY <1>e DEF TaskInv, TaskOK
<1>5. ClientInv'
  <2>1. state[arg[c]] \in {"Cancelled", "Done"}
    BY <1>t DEF ClientInv, ClientOK, Destroying
  <2> QED BY <1>e, <1>t, <2>1, OneClientMoves DEF Destroying
<1> QED BY <1>1, <1>2, <1>3, <1>4, <1>5

\* The delayed destruction.
LEMMA DestroyDelayedInv ==
  ASSUME IInv, NEW c \in Clients, DestroyDelayed(c)
  PROVE  IInv'
<1> USE ConstantsOK DEF IInv
<1>t. /\ InLists \subseteq Tasks /\ arg[c] \in Tasks /\ mem[arg[c]] = "alive"
      /\ cpc[c] = "canceldestroy"
  BY InListsType DEF DestroyDelayed, ClientInv, ClientOK, TypeOK, ClientTypeOK
<1>1. CASE state[arg[c]] # "Done"
  <2>e. /\ state' = [state EXCEPT ![arg[c]] = "Cancelled"]
        /\ autoRelease' = autoRelease \cup {arg[c]}
        /\ UNCHANGED <<running, finishTasks, inwait, tasks, todo, kept, cur, wpc>>
        /\ UNCHANGED <<repeated, started, mem>>
        /\ cpc' = [Broadcast(cpc) EXCEPT ![c] = "idle"]
        /\ arg' = [arg EXCEPT ![c] = NoTask]
        /\ UNCHANGED <<owner, settled, cont>>
    BY <1>1 DEF DestroyDelayed, CancelPending, workerVars
  <2>l. InLists' = InLists
    BY <2>e DEF InLists
  <2>1. TypeOK'
    BY <2>e, <1>t DEF TypeOK, WorkerTypeOK, TaskTypeOK, ClientTypeOK, TaskStates, ClientPcs,
       Broadcast
  <2>2. ListedOnce' /\ BatchInv'
    BY <2>e DEF ListedOnce, BatchInv
  <2>3. KnownInv'
    <3>1. owner[arg[c]] = NoClient /\ \A d \in Clients : d # c => arg[d] # arg[c]
      BY <1>t DEF ClientInv, ClientOK, Destroying
    <3>2. \A t \in Tasks : Orphan(t) \/ t = arg[c] => Orphan(t)'
      BY <2>e, <3>1 DEF Orphan, TypeOK, ClientTypeOK
    <3>3. \A t \in Tasks : state'[t] = IF t = arg[c] THEN "Cancelled" ELSE state[t]
      BY <2>e DEF TypeOK, TaskTypeOK
    <3> QED BY <2>e, <2>l, <1>t, <3>2, <3>3, <1>1 DEF KnownInv
  <2>4. TaskInv'
    BY <2>e, <1>t DEF TaskInv, TaskOK, TypeOK, TaskTypeOK
  <2>5. ClientInv'
    BY <2>e DEF ClientInv, ClientOK, Destroying, Orphan, TypeOK, ClientTypeOK, Broadcast
  <2> QED BY <2>1, <2>2, <2>3, <2>4, <2>5
<1>2. CASE state[arg[c]] = "Done"
  <2>e. /\ UNCHANGED <<running, finishTasks, inwait, tasks, todo, kept, cur, wpc>>
        /\ autoRelease' = autoRelease \cup {arg[c]}
        /\ UNCHANGED <<repeated, started, mem>> /\ state' = state
        /\ cpc' = [cpc EXCEPT ![c] = "destroy"]
        /\ UNCHANGED <<owner, settled, arg, cont>>
    BY <1>2 DEF DestroyDelayed, workerVars
  <2>l. InLists' = InLists
    BY <2>e DEF InLists
  <2>1. TypeOK'
    BY <2>e, <1>t DEF TypeOK, WorkerTypeOK, TaskTypeOK, ClientTypeOK, ClientPcs
  <2>2. ListedOnce' /\ BatchInv'
    BY <2>e DEF ListedOnce, BatchInv
  <2>3. KnownInv'
    BY <2>e, <2>l, <1>2 DEF KnownInv, Orphan
  <2>4. TaskInv'
    BY <2>e, <1>t, <1>2 DEF TaskInv, TaskOK
  <2>5. ClientInv'
    BY <2>e, <1>t, OneClientMoves DEF Destroying
  <2> QED BY <2>1, <2>2, <2>3, <2>4, <2>5
<1> QED BY <1>1, <1>2

\* ms_task_destroy() cancels: nothing happens to a done task.
LEMMA DestroyCancelInv ==
  ASSUME IInv, NEW c \in Clients, DestroyCancel(c)
  PROVE  IInv'
<1> USE ConstantsOK DEF IInv
<1>t. /\ InLists \subseteq Tasks /\ arg[c] \in Tasks /\ mem[arg[c]] = "alive"
      /\ cpc[c] = "dcancel" /\ state[arg[c]] = "Done"
  BY InListsType DEF DestroyCancel, ClientInv, ClientOK, TypeOK, ClientTypeOK
<1>e. /\ UNCHANGED <<running, finishTasks, inwait, tasks, todo, kept, cur, wpc>>
      /\ UNCHANGED <<state, repeated, autoRelease, started, mem>>
      /\ cpc' = [cpc EXCEPT ![c] = "dwait"]
      /\ UNCHANGED <<owner, settled, arg, cont>>
  BY <1>t DEF DestroyCancel, workerVars
<1>l. InLists' = InLists
  BY <1>e DEF InLists
<1>1. TypeOK'
  BY <1>e DEF TypeOK, WorkerTypeOK, TaskTypeOK, ClientTypeOK, ClientPcs
<1>2. ListedOnce' /\ BatchInv'
  BY <1>e DEF ListedOnce, BatchInv
<1>3. KnownInv'
  BY <1>e, <1>l DEF KnownInv, Orphan
<1>4. TaskInv'
  BY <1>e DEF TaskInv, TaskOK
<1>5. ClientInv'
  BY <1>e, <1>t, OneClientMoves DEF Destroying
<1> QED BY <1>1, <1>2, <1>3, <1>4, <1>5

\* ms_task_destroy() waits: not at all for a done task.
LEMMA DestroyWaitInv ==
  ASSUME IInv, NEW c \in Clients, DestroyWait(c)
  PROVE  IInv'
<1> USE ConstantsOK DEF IInv
<1>t. /\ InLists \subseteq Tasks /\ arg[c] \in Tasks /\ mem[arg[c]] = "alive"
      /\ cpc[c] = "dwait" /\ state[arg[c]] = "Done"
  <2>1. cpc[c] = "dwait" /\ ClientOK(c)
    BY DEF DestroyWait, ClientInv
  <2> QED BY <2>1, InListsType, SMTT(60) DEF ClientOK, TypeOK, ClientTypeOK
<1>e. /\ UNCHANGED <<running, finishTasks, inwait, tasks, todo, kept, cur, wpc>>
      /\ UNCHANGED <<state, repeated, autoRelease, started, mem>>
      /\ cpc' = [cpc EXCEPT ![c] = "free"] /\ arg' = [arg EXCEPT ![c] = arg[c]]
      /\ settled' = settled \cup {arg[c]}
      /\ UNCHANGED <<owner, cont>>
  BY <1>t DEF DestroyWait, WaitTest, workerVars, taskVars
<1>l. InLists' = InLists
  BY <1>e DEF InLists
<1>1. TypeOK'
  BY <1>e, <1>t DEF TypeOK, WorkerTypeOK, TaskTypeOK, ClientTypeOK, ClientPcs
<1>2. ListedOnce' /\ BatchInv'
  BY <1>e DEF ListedOnce, BatchInv
<1>3. KnownInv'
  BY <1>e, <1>l DEF KnownInv, Orphan
<1>4. TaskInv'
  BY <1>e, <1>t DEF TaskInv, TaskOK
<1>5. ClientInv'
  <2>1. arg' = arg
    BY <1>e DEF TypeOK, ClientTypeOK
  <2> QED BY <1>e, <1>t, <2>1, OneClientMoves DEF Destroying
<1> QED BY <1>1, <1>2, <1>3, <1>4, <1>5

\* The task that a client frees is known to nobody else.
LEMMA FreeInv ==
  ASSUME IInv, NEW c \in Clients, Free(c)
  PROVE  IInv'
<1> USE ConstantsOK DEF IInv
<1>t. /\ InLists \subseteq Tasks /\ arg[c] \in Tasks /\ mem[arg[c]] = "alive"
      /\ cpc[c] = "free" /\ state[arg[c]] = "Done"
      /\ arg[c] \notin InLists
      /\ wpc \in {"func", "release"} => cur # arg[c]
  BY InListsType DEF Free, ClientInv, ClientOK, TypeOK, ClientTypeOK, KnownInv, Orphan
<1>e. /\ UNCHANGED <<running, finishTasks, inwait, tasks, todo, kept, cur, wpc>>
      /\ mem' = [mem EXCEPT ![arg[c]] = "freed"]
      /\ UNCHANGED <<state, repeated, autoRelease, started>>
      /\ cpc' = [cpc EXCEPT ![c] = "idle"] /\ arg' = [arg EXCEPT ![c] = NoTask]
      /\ UNCHANGED <<owner, settled, cont>>
  BY DEF Free, workerVars
<1>l. InLists' = InLists
  BY <1>e DEF InLists
<1>1. TypeOK'
  BY <1>e, <1>t DEF TypeOK, WorkerTypeOK, TaskTypeOK, ClientTypeOK, ClientPcs
<1>2. ListedOnce' /\ BatchInv'
  BY <1>e DEF ListedOnce, BatchInv
<1>s. /\ \A u \in Tasks : mem'[u] = IF u = arg[c] THEN "freed" ELSE mem[u]
      /\ \A d \in Clients : /\ cpc'[d] = IF d = c THEN "idle" ELSE cpc[d]
                            /\ arg'[d] = IF d = c THEN NoTask ELSE arg[d]
  BY <1>e DEF TypeOK, TaskTypeOK, ClientTypeOK
<1>a. /\ owner[arg[c]] = NoClient
      /\ \A d \in Clients : d # c => arg[d] # arg[c]
  BY <1>t DEF ClientInv, ClientOK, Destroying
<1>3. KnownInv'
  <2>1. \A u \in Tasks : Orphan(u) => Orphan(u)'
    BY <1>e, <1>s, ConstantsOK DEF Orphan
  <2> QED BY <1>e, <1>l, <1>s, <1>t, <2>1 DEF KnownInv
<1>4. TaskInv'
  <2> SUFFICES ASSUME NEW u \in Tasks PROVE TaskOK(u)'
    BY DEF TaskInv
  <2>q. TaskOK(u)
    BY DEF TaskInv
  <2> QED BY <1>e, <1>t, <1>s, <1>a, <2>q, SMTT(60) DEF TaskOK
<1>5. ClientInv'
  <2>1. \A d \in Clients : /\ arg[d] # NoTask => arg[d] \in Tasks
                           /\ cpc[d] \in Destroying => arg[d] # NoTask
    BY DEF ClientInv, ClientOK, Destroying, TypeOK, ClientTypeOK
  <2> SUFFICES ASSUME NEW d \in Clients PROVE ClientOK(d)'
    BY DEF ClientInv
  <2>q. ClientOK(d)
    BY DEF ClientInv
  <2> QED BY <1>e, <1>t, <1>s, <1>a, <2>1, <2>q, SMTT(60) DEF ClientOK, Destroying
<1> QED BY <1>1, <1>2, <1>3, <1>4, <1>5

\* ms_worker_thread_destroy().
LEMMA WorkerDestroyInv ==
  ASSUME IInv, NEW c \in Clients, NEW finish \in BOOLEAN, WorkerDestroy(c, finish)
  PROVE  IInv'
<1> USE ConstantsOK DEF IInv
<1>t. InLists \subseteq Tasks /\ \A d \in Clients : cpc[d] = "idle"
  BY InListsType DEF WorkerDestroy
<1>e. /\ running' = FALSE /\ finishTasks' = finish
      /\ UNCHANGED <<inwait, tasks, todo, kept, cur>>
      /\ UNCHANGED <<state, repeated, autoRelease, started, mem>>
      /\ UNCHANGED <<owner, settled, arg, cont>>
  BY DEF WorkerDestroy, taskVars
<1>s. /\ wpc' = wpc \/ (wpc = "wait" /\ wpc' = "woken")
      /\ cpc' = [cpc EXCEPT ![c] = "join"]
  <2>1. SignalIfInwait([cpc EXCEPT ![c] = "join"])
    BY DEF WorkerDestroy
  <2>2. \A d \in Clients : [cpc EXCEPT ![c] = "join"][d] # "wait"
    BY <1>t
  <2> QED BY <2>1, <2>2 DEF SignalIfInwait
<1>l. InLists' = InLists
  BY <1>e DEF InLists
<1>1. TypeOK'
  BY <1>e, <1>s, Zenon DEF TypeOK, WorkerTypeOK, TaskTypeOK, ClientTypeOK, WorkerPcs,
     TaskStates, ClientPcs
<1>2. ListedOnce' /\ BatchInv'
  BY <1>e, <1>s DEF ListedOnce, BatchInv
<1>3. KnownInv'
  BY <1>e, <1>s, <1>l DEF KnownInv, Orphan
<1>4. TaskInv'
  BY <1>e DEF TaskInv, TaskOK
<1>5. ClientInv'
  BY <1>e, <1>s, <1>t, SMTT(40) DEF ClientInv, ClientOK, Destroying
<1> QED BY <1>1, <1>2, <1>3, <1>4, <1>5

\* ms_thread_join().
LEMMA WorkerJoinInv ==
  ASSUME IInv, NEW c \in Clients, WorkerJoin(c)
  PROVE  IInv'
<1> USE ConstantsOK DEF IInv
<1>t. InLists \subseteq Tasks /\ cpc[c] = "join"
  BY InListsType DEF WorkerJoin
<1>e. /\ UNCHANGED <<running, finishTasks, inwait, tasks, todo, kept, cur, wpc>>
      /\ UNCHANGED <<state, repeated, autoRelease, started, mem>>
      /\ cpc' = [cpc EXCEPT ![c] = "gone"]
      /\ UNCHANGED <<owner, settled, arg, cont>>
  BY DEF WorkerJoin, workerVars, taskVars
<1>l. InLists' = InLists
  BY <1>e DEF InLists
<1>1. TypeOK'
  BY <1>e DEF TypeOK, WorkerTypeOK, TaskTypeOK, ClientTypeOK, ClientPcs
<1>2. ListedOnce' /\ BatchInv'
  BY <1>e DEF ListedOnce, BatchInv
<1>3. KnownInv'
  BY <1>e, <1>l DEF KnownInv, Orphan
<1>4. TaskInv'
  BY <1>e DEF TaskInv, TaskOK
<1>5. ClientInv'
  <2>1. \A d \in Clients : cpc'[d] = IF d = c THEN "gone" ELSE cpc[d]
    BY <1>e DEF TypeOK, ClientTypeOK
  <2> SUFFICES ASSUME NEW d \in Clients PROVE ClientOK(d)'
    BY DEF ClientInv
  <2>q. ClientOK(d)
    BY DEF ClientInv
  <2> QED BY <1>e, <1>t, <2>1, <2>q, SMTT(60) DEF ClientOK, Destroying
<1> QED BY <1>1, <1>2, <1>3, <1>4, <1>5

-----------------------------------------------------------------------------
(* Steps of the worker.                                                    *)

\* The batch is taken.
LEMMA WorkerTopInv ==
  ASSUME IInv, WorkerTop
  PROVE  IInv'
<1> USE ConstantsOK DEF IInv
<1>t. InLists \subseteq Tasks /\ wpc = "top" /\ << >> \in Seq(Tasks) /\ Elems(<< >>) = {} /\ NoDup(<< >>)
      /\ todo = << >>
  BY InListsType, EmptyLemma DEF WorkerTop, BatchInv
<1>1. CASE tasks # << >>
  <2>e. /\ todo' = tasks /\ tasks' = << >> /\ wpc' = "iter"
        /\ UNCHANGED <<running, finishTasks, inwait, kept, cur>>
        /\ UNCHANGED <<state, repeated, autoRelease, started, mem>>
        /\ UNCHANGED <<owner, settled, cpc, arg, cont>>
    BY <1>1 DEF WorkerTop, taskVars, clientVars
  <2>l. InLists' = InLists
    BY <1>t, <2>e DEF InLists
  <2>1. TypeOK'
    BY <2>e DEF TypeOK, WorkerTypeOK, TaskTypeOK, ClientTypeOK, WorkerPcs
  <2>2. ListedOnce' /\ BatchInv'
    BY <2>e, <1>t DEF ListedOnce, BatchInv
  <2>3. KnownInv'
    BY <2>e, <2>l DEF KnownInv, Orphan
  <2>4. TaskInv'
    BY <2>e, Untouched
  <2>5. ClientInv'
    BY <2>e, Untouched
  <2> QED BY <2>1, <2>2, <2>3, <2>4, <2>5
<1>2. CASE tasks = << >>
  <2>e. /\ wpc' \in {"wait", "exited"} /\ inwait' \in BOOLEAN
        /\ UNCHANGED <<running, finishTasks, tasks, todo, kept, cur>>
        /\ UNCHANGED <<state, repeated, autoRelease, started, mem>>
        /\ UNCHANGED <<owner, settled, cpc, arg, cont>>
    <3>1. CASE running
      BY <1>2, <3>1 DEF WorkerTop, taskVars, clientVars
    <3>2. CASE ~running
      BY <1>2 DEF WorkerTop, TypeOK, WorkerTypeOK, taskVars, clientVars
    <3> QED BY <3>1, <3>2
  <2>l. InLists' = InLists
    BY <2>e DEF InLists
  <2>1. TypeOK'
    BY <2>e DEF TypeOK, WorkerTypeOK, TaskTypeOK, ClientTypeOK, WorkerPcs
  <2>2. ListedOnce' /\ BatchInv'
    BY <2>e, <1>t DEF ListedOnce, BatchInv
  <2>3. KnownInv'
    BY <2>e, <2>l DEF KnownInv, Orphan
  <2>4. TaskInv'
    BY <2>e, Untouched
  <2>5. ClientInv'
    BY <2>e, Untouched
  <2> QED BY <2>1, <2>2, <2>3, <2>4, <2>5
<1> QED BY <1>1, <1>2

\* The first task of the batch: in no other list, alive and unfinished.
LEMMA HeadOfBatch ==
  ASSUME TypeOK, ListedOnce, KnownInv, todo # << >>
  PROVE  /\ Head(todo) \in Tasks /\ Tail(todo) \in Seq(Tasks)
         /\ Elems(todo) = {Head(todo)} \cup Elems(Tail(todo)) /\ NoDup(Tail(todo))
         /\ Head(todo) \notin Elems(Tail(todo)) \cup Elems(tasks) \cup Elems(kept)
         /\ Head(todo) \in InLists /\ InLists \subseteq Tasks
         /\ mem[Head(todo)] = "alive" /\ state[Head(todo)] \in {"Queued", "Cancelled"}
         /\ Head(todo) \in autoRelease => Orphan(Head(todo))
<1>1. todo \in Seq(Tasks) /\ NoDup(todo)
  BY DEF TypeOK, WorkerTypeOK, ListedOnce
<1>2. /\ Head(todo) \in Tasks /\ Tail(todo) \in Seq(Tasks)
      /\ Elems(todo) = {Head(todo)} \cup Elems(Tail(todo)) /\ NoDup(Tail(todo))
      /\ Head(todo) \notin Elems(Tail(todo))
  BY <1>1, TailLemma
<1>3. Head(todo) \notin Elems(tasks) \cup Elems(kept)
  BY <1>2 DEF ListedOnce
<1>4. Head(todo) \in InLists /\ InLists \subseteq Tasks
  BY <1>2, InListsType DEF InLists
<1>5. /\ mem[Head(todo)] = "alive" /\ state[Head(todo)] \in {"Queued", "Cancelled"}
      /\ Head(todo) \in autoRelease => Orphan(Head(todo))
  BY <1>4 DEF KnownInv
<1> QED BY <1>2, <1>3, <1>4, <1>5

\* Once a task has left the lists the worker may mark it done: it frees it
\* next when it is auto_release, and goes on with the batch otherwise.
LEMMA FinishedInv ==
  ASSUME TypeOK, KnownInv, TaskInv, ClientInv, NEW u \in Tasks,
         mem[u] = "alive", u \in autoRelease => Orphan(u),
         u \notin InLists', InLists' \subseteq InLists, InLists \subseteq Tasks,
         state' = [state EXCEPT ![u] = "Done"],
         \/ u \in autoRelease /\ wpc' = "release" /\ cur' = u
         \/ u \notin autoRelease /\ wpc' = "iter" /\ cur' = NoTask,
         UNCHANGED <<repeated, autoRelease, mem>>,
         UNCHANGED <<owner, settled, cpc, arg, cont>>
  PROVE  KnownInv' /\ TaskInv' /\ ClientInv'
<1>1. \A t \in Tasks : state'[t] = IF t = u THEN "Done" ELSE state[t]
  BY DEF TypeOK, TaskTypeOK
<1>2. \A t \in Tasks : Orphan(t) => Orphan(t)'
  BY DEF Orphan
<1>3. KnownInv'
  <2>1. \A t \in InLists' : /\ mem'[t] = "alive" /\ state'[t] \in {"Queued", "Cancelled"}
                            /\ t \in autoRelease' => Orphan(t)'
    BY <1>1, <1>2 DEF KnownInv
  <2>2. wpc' = "release" => /\ cur' \in Tasks /\ mem'[cur'] = "alive"
                            /\ cur' \in autoRelease' /\ state'[cur'] = "Done" /\ Orphan(u)'
    BY <1>1, <1>2
  <2> QED BY <2>1, <2>2 DEF KnownInv
<1>4. TaskInv'
  BY <1>1 DEF TaskInv, TaskOK
<1>5. ClientInv'
  <2>1. \A c \in Clients : arg[c] # NoTask => arg[c] \in Tasks
    BY DEF TypeOK, ClientTypeOK
  <2>2. \A c \in Clients : cpc[c] \in Destroying => arg[c] # NoTask
    BY DEF ClientInv, ClientOK, Destroying
  <2> SUFFICES ASSUME NEW c \in Clients PROVE ClientOK(c)'
    BY DEF ClientInv
  <2>3. ClientOK(c)
    BY DEF ClientInv
  <2> QED BY <1>1, <2>1, <2>2, <2>3, SMTT(60) DEF ClientOK, Destroying
<1> QED BY <1>3, <1>4, <1>5

\* A task starts, or is skipped because the worker exits.
LEMMA WorkerRunTaskInv ==
  ASSUME IInv, WorkerRunTask
  PROVE  IInv'
<1> USE ConstantsOK DEF IInv
<1>t. /\ Head(todo) \in Tasks /\ Tail(todo) \in Seq(Tasks)
      /\ Elems(todo) = {Head(todo)} \cup Elems(Tail(todo)) /\ NoDup(Tail(todo))
      /\ Head(todo) \notin Elems(Tail(todo)) \cup Elems(tasks) \cup Elems(kept)
      /\ Head(todo) \in InLists /\ InLists \subseteq Tasks /\ wpc = "iter"
      /\ mem[Head(todo)] = "alive" /\ state[Head(todo)] = "Queued"
      /\ Head(todo) \in autoRelease => Orphan(Head(todo))
  BY HeadOfBatch DEF WorkerRunTask
<1>1. CASE running \/ finishTasks
  <2>e. /\ todo' = Tail(todo) /\ started' \subseteq started \cup {Head(todo)}
        /\ state' = [state EXCEPT ![Head(todo)] = "Running"]
        /\ wpc' = "func" /\ cur' = Head(todo)
        /\ UNCHANGED <<running, finishTasks, inwait, tasks, kept>>
        /\ UNCHANGED <<repeated, autoRelease, mem>>
        /\ UNCHANGED <<owner, settled, cpc, arg, cont>>
    BY <1>1 DEF WorkerRunTask, clientVars
  <2>l. InLists' = InLists \ {Head(todo)}
    BY <1>t, <2>e DEF InLists
  <2>1. TypeOK'
    BY <2>e, <1>t DEF TypeOK, WorkerTypeOK, TaskTypeOK, ClientTypeOK, WorkerPcs, TaskStates
  <2>2. ListedOnce' /\ BatchInv'
    BY <2>e, <1>t DEF ListedOnce, BatchInv
  <2>s. \A t \in Tasks : state'[t] = IF t = Head(todo) THEN "Running" ELSE state[t]
    BY <2>e DEF TypeOK, TaskTypeOK
  <2>3. KnownInv'
    <3>1. \A t \in Tasks : Orphan(t) => Orphan(t)'
      BY <2>e DEF Orphan
    <3> QED BY <2>e, <2>l, <2>s, <1>t, <3>1 DEF KnownInv
  <2>4. TaskInv'
    BY <2>e, <2>s, <1>t DEF TaskInv, TaskOK
  <2>5. ClientInv'
    <3> SUFFICES ASSUME NEW c \in Clients PROVE ClientOK(c)'
      BY DEF ClientInv
    <3>q. ClientOK(c)
      BY DEF ClientInv
    <3>1. cpc[c] \in Destroying => arg[c] \in Tasks /\ arg[c] # Head(todo)
      BY <3>q, <1>t DEF ClientOK, Destroying, TypeOK, ClientTypeOK
    <3> QED BY <2>e, <2>s, <3>1, <3>q, SMTT(60) DEF ClientOK, Destroying
  <2> QED BY <2>1, <2>2, <2>3, <2>4, <2>5
<1>2. CASE ~(running \/ finishTasks)
  <2>e. /\ todo' = Tail(todo) /\ started' \subseteq started \cup {Head(todo)}
        /\ state' = [state EXCEPT ![Head(todo)] = "Done"]
        /\ \/ Head(todo) \in autoRelease /\ wpc' = "release" /\ cur' = Head(todo)
           \/ Head(todo) \notin autoRelease /\ wpc' = "iter" /\ cur' = NoTask
        /\ UNCHANGED <<running, finishTasks, inwait, tasks, kept>>
        /\ UNCHANGED <<repeated, autoRelease, mem>>
        /\ UNCHANGED <<owner, settled, cpc, arg, cont>>
    <3>1. FinishTask(Head(todo), TRUE)
      BY <1>2, Zenon DEF WorkerRunTask
    <3>2. kept' = kept
      BY <3>1 DEF FinishTask
    <3>3. \/ Head(todo) \in autoRelease /\ wpc' = "release" /\ cur' = Head(todo)
          \/ Head(todo) \notin autoRelease /\ wpc' = "iter" /\ cur' = NoTask
      BY <3>1 DEF FinishTask
    <3> QED BY <3>2, <3>3 DEF WorkerRunTask, clientVars
  <2>l. InLists' = InLists \ {Head(todo)}
    BY <1>t, <2>e DEF InLists
  <2>1. TypeOK'
    BY <2>e, <1>t DEF TypeOK, WorkerTypeOK, TaskTypeOK, ClientTypeOK, WorkerPcs, TaskStates
  <2>2. ListedOnce' /\ BatchInv'
    BY <2>e, <1>t DEF ListedOnce, BatchInv
  <2>3. KnownInv' /\ TaskInv' /\ ClientInv'
    BY <2>e, <2>l, <1>t, FinishedInv
  <2> QED BY <2>1, <2>2, <2>3
<1> QED BY <1>1, <1>2

\* A repeated task is not due and is kept: it is not auto_release.
LEMMA WorkerSkipTaskInv ==
  ASSUME IInv, WorkerSkipTask
  PROVE  IInv'
<1> USE ConstantsOK DEF IInv
<1>t. /\ Head(todo) \in Tasks /\ Tail(todo) \in Seq(Tasks)
      /\ Elems(todo) = {Head(todo)} \cup Elems(Tail(todo)) /\ NoDup(Tail(todo))
      /\ Head(todo) \notin Elems(Tail(todo)) \cup Elems(tasks) \cup Elems(kept)
      /\ Head(todo) \in InLists /\ InLists \subseteq Tasks /\ wpc = "iter"
      /\ mem[Head(todo)] = "alive"
      /\ Head(todo) \notin autoRelease
  <2>1. todo # << >> /\ wpc = "iter" /\ state[Head(todo)] = "Queued" /\ Head(todo) \in repeated
    BY DEF WorkerSkipTask, FirstTurn
  <2> QED BY <2>1, HeadOfBatch, SMTT(60) DEF TaskInv, TaskOK
<1>e. /\ todo' = Tail(todo) /\ kept' = Append(kept, Head(todo))
      /\ wpc' = "iter" /\ cur' = NoTask
      /\ UNCHANGED <<running, finishTasks, inwait, tasks>>
      /\ UNCHANGED <<state, repeated, autoRelease, started, mem>>
      /\ UNCHANGED <<owner, settled, cpc, arg, cont>>
  BY <1>t DEF WorkerSkipTask, FinishTask, taskVars, clientVars
<1>l. /\ kept' \in Seq(Tasks) /\ Elems(kept') = Elems(kept) \cup {Head(todo)} /\ NoDup(kept')
      /\ InLists' = InLists
  <2>1. kept \in Seq(Tasks) /\ NoDup(kept) /\ Head(todo) \notin Elems(kept)
    BY <1>t DEF ListedOnce, TypeOK, WorkerTypeOK
  <2>2. kept' \in Seq(Tasks) /\ Elems(kept') = Elems(kept) \cup {Head(todo)} /\ NoDup(kept')
    BY <2>1, <1>t, <1>e, AppendLemma
  <2> QED BY <1>t, <1>e, <2>2 DEF InLists
<1>1. TypeOK'
  <2>1. WorkerTypeOK'
    BY <1>e, <1>l, <1>t DEF TypeOK, WorkerTypeOK, WorkerPcs
  <2> QED BY <1>e, <2>1 DEF TypeOK, TaskTypeOK, ClientTypeOK
<1>2. ListedOnce' /\ BatchInv'
  BY <1>e, <1>l, <1>t DEF ListedOnce, BatchInv
<1>3. KnownInv'
  BY <1>e, <1>l DEF KnownInv, Orphan
<1>4. TaskInv'
  BY <1>e, Untouched
<1>5. ClientInv'
  BY <1>e, Untouched
<1> QED BY <1>1, <1>2, <1>3, <1>4, <1>5

\* A cancelled task is done.
LEMMA WorkerDropTaskInv ==
  ASSUME IInv, WorkerDropTask
  PROVE  IInv'
<1> USE ConstantsOK DEF IInv
<1>t. /\ Head(todo) \in Tasks /\ Tail(todo) \in Seq(Tasks)
      /\ Elems(todo) = {Head(todo)} \cup Elems(Tail(todo)) /\ NoDup(Tail(todo))
      /\ Head(todo) \notin Elems(Tail(todo)) \cup Elems(tasks) \cup Elems(kept)
      /\ Head(todo) \in InLists /\ InLists \subseteq Tasks /\ wpc = "iter"
      /\ mem[Head(todo)] = "alive" /\ state[Head(todo)] = "Cancelled"
      /\ Head(todo) \in autoRelease => Orphan(Head(todo))
  BY HeadOfBatch DEF WorkerDropTask
<1>f. FinishTask(Head(todo), TRUE)
  BY Zenon DEF WorkerDropTask
<1>e. /\ todo' = Tail(todo) /\ UNCHANGED started
      /\ state' = [state EXCEPT ![Head(todo)] = "Done"]
      /\ \/ Head(todo) \in autoRelease /\ wpc' = "release" /\ cur' = Head(todo)
         \/ Head(todo) \notin autoRelease /\ wpc' = "iter" /\ cur' = NoTask
      /\ UNCHANGED <<running, finishTasks, inwait, tasks, kept>>
      /\ UNCHANGED <<repeated, autoRelease, mem>>
      /\ UNCHANGED <<owner, settled, cpc, arg, cont>>
  <2>1. kept' = kept
    BY <1>f DEF FinishTask
  <2>2. \/ Head(todo) \in autoRelease /\ wpc' = "release" /\ cur' = Head(todo)
        \/ Head(todo) \notin autoRelease /\ wpc' = "iter" /\ cur' = NoTask
    BY <1>f DEF FinishTask
  <2> QED BY <1>t, <2>1, <2>2 DEF WorkerDropTask, clientVars
<1>l. InLists' = InLists \ {Head(todo)}
  BY <1>t, <1>e DEF InLists
<1>1. TypeOK'
  BY <1>e, <1>t DEF TypeOK, WorkerTypeOK, TaskTypeOK, ClientTypeOK, WorkerPcs, TaskStates
<1>2. ListedOnce' /\ BatchInv'
  BY <1>e, <1>t DEF ListedOnce, BatchInv
<1>3. KnownInv' /\ TaskInv' /\ ClientInv'
  BY <1>e, <1>l, <1>t, FinishedInv
<1> QED BY <1>1, <1>2, <1>3

\* A function has returned.
LEMMA WorkerFuncReturnsInv ==
  ASSUME IInv, WorkerFuncReturns
  PROVE  IInv'
<1> USE ConstantsOK DEF IInv
<1>t. /\ cur \in Tasks /\ cur \notin InLists /\ mem[cur] = "alive"
      /\ InLists \subseteq Tasks /\ wpc = "func"
      /\ cur \in autoRelease => Orphan(cur)
  BY InListsType DEF WorkerFuncReturns, KnownInv, ListedOnce, InLists
<1>1. CASE running /\ state[cur] = "Running" /\ cur \in repeated
  <2>e. /\ state' = [state EXCEPT ![cur] = "Queued"] /\ kept' = Append(kept, cur)
        /\ cur \notin autoRelease /\ wpc' = "iter" /\ cur' = NoTask
        /\ UNCHANGED <<running, finishTasks, inwait, tasks, todo>>
        /\ UNCHANGED <<repeated, autoRelease, started, mem>>
        /\ UNCHANGED <<owner, settled, cpc, arg, cont>>
    BY <1>1, <1>t DEF WorkerFuncReturns, FinishTask, clientVars, TaskInv, TaskOK
  <2>l. /\ kept' \in Seq(Tasks) /\ Elems(kept') = Elems(kept) \cup {cur} /\ NoDup(kept')
        /\ InLists' = InLists \cup {cur}
        /\ cur \notin Elems(tasks) \cup Elems(todo)
    <3>1. kept \in Seq(Tasks) /\ NoDup(kept) /\ cur \notin Elems(kept)
      BY <1>t DEF ListedOnce, TypeOK, WorkerTypeOK, InLists
    <3>2. kept' \in Seq(Tasks) /\ Elems(kept') = Elems(kept) \cup {cur} /\ NoDup(kept')
      BY <3>1, <1>t, <2>e, AppendLemma
    <3> QED BY <1>t, <2>e, <3>2 DEF InLists
  <2>1. TypeOK'
    <3>1. WorkerTypeOK'
      BY <2>e, <2>l DEF TypeOK, WorkerTypeOK, WorkerPcs
    <3> QED BY <2>e, <1>t, <3>1 DEF TypeOK, TaskTypeOK, ClientTypeOK, TaskStates
  <2>2. ListedOnce' /\ BatchInv'
    BY <2>e, <2>l DEF ListedOnce, BatchInv
  <2>s. \A t \in Tasks : state'[t] = IF t = cur THEN "Queued" ELSE state[t]
    BY <2>e DEF TypeOK, TaskTypeOK
  <2>3. KnownInv'
    <3>1. \A t \in Tasks : Orphan(t) => Orphan(t)'
      BY <2>e DEF Orphan
    <3> QED BY <2>e, <2>l, <2>s, <1>t, <3>1 DEF KnownInv
  <2>4. TaskInv'
    BY <2>e, <2>s, <1>1 DEF TaskInv, TaskOK
  <2>5. ClientInv'
    <3> SUFFICES ASSUME NEW c \in Clients PROVE ClientOK(c)'
      BY DEF ClientInv
    <3>q. ClientOK(c)
      BY DEF ClientInv
    <3>1. cpc[c] \in Destroying => arg[c] \in Tasks /\ arg[c] # cur
      BY <3>q, <1>1 DEF ClientOK, Destroying, TypeOK, ClientTypeOK
    <3> QED BY <2>e, <2>s, <3>1, <3>q, SMTT(60) DEF ClientOK, Destroying
  <2> QED BY <2>1, <2>2, <2>3, <2>4, <2>5
<1>2. CASE ~(running /\ state[cur] = "Running" /\ cur \in repeated)
  <2>e. /\ state' = [state EXCEPT ![cur] = "Done"]
        /\ \/ cur \in autoRelease /\ wpc' = "release" /\ cur' = cur
           \/ cur \notin autoRelease /\ wpc' = "iter" /\ cur' = NoTask
        /\ UNCHANGED <<running, finishTasks, inwait, tasks, kept>> /\ todo' = todo
        /\ UNCHANGED <<repeated, autoRelease, started, mem>>
        /\ UNCHANGED <<owner, settled, cpc, arg, cont>>
    <3>1. FinishTask(cur, TRUE) /\ state' = [state EXCEPT ![cur] = "Done"]
      BY <1>2, Zenon DEF WorkerFuncReturns
    <3>2. kept' = kept
      BY <3>1 DEF FinishTask
    <3>3. \/ cur \in autoRelease /\ wpc' = "release" /\ cur' = cur
          \/ cur \notin autoRelease /\ wpc' = "iter" /\ cur' = NoTask
      BY <3>1 DEF FinishTask
    <3> QED BY <3>1, <3>2, <3>3 DEF WorkerFuncReturns, clientVars
  <2>l. InLists' = InLists
    BY <2>e DEF InLists
  <2>1. TypeOK'
    BY <2>e, <1>t DEF TypeOK, WorkerTypeOK, TaskTypeOK, ClientTypeOK, WorkerPcs, TaskStates
  <2>2. ListedOnce' /\ BatchInv'
    BY <2>e, <1>t DEF ListedOnce, BatchInv
  <2>3. KnownInv' /\ TaskInv' /\ ClientInv'
    BY <2>e, <2>l, <1>t, FinishedInv
  <2> QED BY <2>1, <2>2, <2>3
<1> QED BY <1>1, <1>2

\* The worker frees a task that nobody else knows.
LEMMA WorkerReleaseInv ==
  ASSUME IInv, WorkerRelease
  PROVE  IInv'
<1> USE ConstantsOK DEF IInv
<1>t. /\ cur \in Tasks /\ cur \notin InLists /\ mem[cur] = "alive"
      /\ InLists \subseteq Tasks /\ wpc = "release"
      /\ state[cur] = "Done" /\ Orphan(cur)
  BY InListsType DEF WorkerRelease, KnownInv
<1>e. /\ mem' = [mem EXCEPT ![cur] = "freed"]
      /\ wpc' = "iter" /\ cur' = NoTask
      /\ UNCHANGED <<running, finishTasks, inwait, tasks, kept>> /\ todo' = todo
      /\ UNCHANGED <<state, repeated, autoRelease, started>>
      /\ UNCHANGED <<owner, settled, cpc, arg, cont>>
  BY <1>t DEF WorkerRelease
<1>l. InLists' = InLists
  BY <1>e DEF InLists
<1>1. TypeOK'
  BY <1>e, <1>t DEF TypeOK, WorkerTypeOK, TaskTypeOK, ClientTypeOK, WorkerPcs
<1>2. ListedOnce' /\ BatchInv'
  BY <1>e DEF ListedOnce, BatchInv
<1>s. \A t \in Tasks : mem'[t] = IF t = cur THEN "freed" ELSE mem[t]
  BY <1>e DEF TypeOK, TaskTypeOK
<1>3. KnownInv'
  <2>1. \A t \in Tasks : Orphan(t) => Orphan(t)'
    BY <1>e DEF Orphan
  <2> QED BY <1>e, <1>l, <1>s, <1>t, <2>1 DEF KnownInv
<1>4. TaskInv'
  <2>1. owner[cur] = NoClient
    BY <1>t DEF Orphan
  <2> SUFFICES ASSUME NEW t \in Tasks PROVE TaskOK(t)'
    BY DEF TaskInv
  <2>2. TaskOK(t)
    BY DEF TaskInv
  <2> QED BY <1>e, <1>s, <2>1, <2>2, SMTT(60) DEF TaskOK
<1>5. ClientInv'
  <2>1. \A c \in Clients : arg[c] # NoTask => arg[c] \in Tasks /\ arg[c] # cur
    BY <1>t DEF Orphan, TypeOK, ClientTypeOK
  <2> SUFFICES ASSUME NEW c \in Clients PROVE ClientOK(c)'
    BY DEF ClientInv
  <2>2. ClientOK(c)
    BY DEF ClientInv
  <2> QED BY <1>e, <1>s, <2>1, <2>2, SMTT(60) DEF ClientOK
<1> QED BY <1>1, <1>2, <1>3, <1>4, <1>5

\* What was queued meanwhile and what remains are merged.
LEMMA WorkerAfterBatchInv ==
  ASSUME IInv, WorkerAfterBatch
  PROVE  IInv'
<1> USE ConstantsOK DEF IInv
<1>t. InLists \subseteq Tasks /\ wpc = "after" /\ << >> \in Seq(Tasks) /\ Elems(<< >>) = {} /\ NoDup(<< >>)
  BY InListsType, EmptyLemma DEF WorkerAfterBatch
<1>e. /\ tasks' = tasks \o kept /\ kept' = << >>
      /\ wpc' \in {"top", "sleep", "wait"} /\ inwait' \in BOOLEAN
      /\ UNCHANGED <<running, finishTasks, todo, cur>>
      /\ UNCHANGED <<state, repeated, autoRelease, started, mem>>
      /\ UNCHANGED <<owner, settled, cpc, arg, cont>>
  BY Zenon DEF WorkerAfterBatch, TypeOK, WorkerTypeOK, taskVars, clientVars
<1>l. /\ tasks' \in Seq(Tasks) /\ Elems(tasks') = Elems(tasks) \cup Elems(kept)
      /\ NoDup(tasks') /\ InLists' = InLists
  <2>1. /\ tasks \in Seq(Tasks) /\ kept \in Seq(Tasks) /\ NoDup(tasks) /\ NoDup(kept)
        /\ Elems(tasks) \cap Elems(kept) = {}
    BY DEF ListedOnce, TypeOK, WorkerTypeOK
  <2>2. /\ tasks' \in Seq(Tasks) /\ Elems(tasks') = Elems(tasks) \cup Elems(kept)
        /\ NoDup(tasks')
    BY <2>1, <1>e, ConcatLemma
  <2> QED BY <1>t, <1>e, <2>2 DEF InLists
<1>1. TypeOK'
  <2>1. WorkerTypeOK'
    BY <1>e, <1>l, <1>t DEF TypeOK, WorkerTypeOK, WorkerPcs
  <2> QED BY <1>e, <2>1 DEF TypeOK, TaskTypeOK, ClientTypeOK
<1>2. ListedOnce' /\ BatchInv'
  BY <1>e, <1>l, <1>t DEF ListedOnce, BatchInv
<1>3. KnownInv'
  BY <1>e, <1>l DEF KnownInv, Orphan
<1>4. TaskInv'
  BY <1>e, Untouched
<1>5. ClientInv'
  BY <1>e, Untouched
<1> QED BY <1>1, <1>2, <1>3, <1>4, <1>5

\* Steps that only move the worker or wake threads.
LEMMA WorkerControlInv ==
  ASSUME IInv, WorkerStart \/ WorkerBatchDone \/ WorkerBroadcast \/ WorkerResume \/ SpuriousWakeup
  PROVE  IInv'
<1> USE ConstantsOK DEF IInv
<1>t. InLists \subseteq Tasks
  BY InListsType
<1>e. /\ UNCHANGED <<running, finishTasks, tasks, todo, kept, cur>>
      /\ UNCHANGED <<state, repeated, autoRelease, started, mem>>
      /\ UNCHANGED <<owner, settled, arg, cont>>
  BY DEF WorkerStart, WorkerBatchDone, WorkerBroadcast, WorkerResume, SpuriousWakeup,
     workerVars, taskVars, clientVars
<1>f. /\ wpc' \in WorkerPcs /\ (wpc' # wpc => wpc' \notin {"iter", "func", "release"} /\ todo = << >>)
      /\ inwait' \in BOOLEAN
  BY Zenon DEF WorkerStart, WorkerBatchDone, WorkerBroadcast, WorkerResume, SpuriousWakeup,
     WorkerPcs, TypeOK, WorkerTypeOK, BatchInv, workerVars
<1>s. \/ cpc' = cpc \/ cpc' = Broadcast(cpc)
      \/ \E d \in Clients : cpc[d] = "wait" /\ cpc' = [cpc EXCEPT ![d] = "woken"]
  BY DEF WorkerStart, WorkerBatchDone, WorkerBroadcast, WorkerResume, SpuriousWakeup,
     clientVars
<1>l. InLists' = InLists
  BY <1>e DEF InLists
<1>1. TypeOK'
  <2>1. WorkerTypeOK'
    BY <1>e, <1>f DEF TypeOK, WorkerTypeOK
  <2>2. TaskTypeOK'
    BY <1>e DEF TypeOK, TaskTypeOK
  <2>3. ClientTypeOK'
    BY <1>e, <1>s DEF TypeOK, ClientTypeOK, ClientPcs, Broadcast
  <2> QED BY <2>1, <2>2, <2>3 DEF TypeOK
<1>2. ListedOnce' /\ BatchInv'
  BY <1>e, <1>f DEF ListedOnce, BatchInv
<1>3. KnownInv'
  BY <1>e, <1>f, <1>l DEF KnownInv, Orphan
<1>4. TaskInv'
  BY <1>e DEF TaskInv, TaskOK
<1>5. ClientInv'
  <2>1. \A c \in Clients : cpc'[c] = cpc[c] \/ (cpc[c] = "wait" /\ cpc'[c] = "woken")
    BY <1>s DEF TypeOK, ClientTypeOK, Broadcast
  <2> SUFFICES ASSUME NEW c \in Clients PROVE ClientOK(c)'
    BY DEF ClientInv
  <2>2. ClientOK(c)
    BY DEF ClientInv
  <2> QED BY <1>e, <2>1, <2>2, SMTT(60) DEF ClientOK, Destroying
<1> QED BY <1>1, <1>2, <1>3, <1>4, <1>5

-----------------------------------------------------------------------------
(* The theorems.                                                           *)

\* Every step keeps the inductive invariant: one case per action.
LEMMA NextInv ==
  ASSUME ~DestroyAnyTime
  PROVE  IInv /\ [Next]_vars => IInv'
<1> SUFFICES ASSUME IInv, [Next]_vars PROVE IInv'
  OBVIOUS
<1>1. CASE WorkerStep \/ SpuriousWakeup
  BY <1>1, WorkerTopInv, WorkerRunTaskInv, WorkerSkipTaskInv, WorkerDropTaskInv,
     WorkerFuncReturnsInv, WorkerReleaseInv, WorkerAfterBatchInv, WorkerControlInv DEF
     WorkerStep
<1>2. ASSUME NEW c \in Clients, ClientCall(c)
      PROVE  IInv'
  <2>1. ASSUME NEW t \in Tasks, AddTask(c, t) \/ AddWaitableTask(c, t) \/ AddRepeatedTask(c, t)
        PROVE  IInv'
    BY <2>1, QueueTaskInv, Zenon DEF AddTask, AddWaitableTask, AddRepeatedTask
  <2>2. ASSUME NEW t \in Tasks, \/ Cancel(c, t) \/ CancelAndDestroy(c, t)
                                \/ WaitCompletion(c, t) \/ Destroy(c, t)
        PROVE  IInv'
    BY <2>2, CancelInv, CancelAndDestroyInv, WaitCompletionInv, DestroyInv
  <2>3. ASSUME NEW finish \in BOOLEAN, WorkerDestroy(c, finish)
        PROVE  IInv'
    BY <2>3, WorkerDestroyInv
  <2> QED BY <1>2, <2>1, <2>2, <2>3 DEF ClientCall
<1>3. ASSUME NEW c \in Clients, ClientStep(c)
      PROVE  IInv'
  BY <1>3, WaitRecheckInv, DestroyCheckInv, DestroyDelayedInv, DestroyCancelInv,
     DestroyWaitInv, FreeInv, WorkerJoinInv DEF ClientStep
<1>4. CASE UNCHANGED vars
  <2> USE <1>4 DEF vars, workerVars, taskVars, clientVars, IInv
  <2>1. TypeOK'
    BY DEF TypeOK, WorkerTypeOK, TaskTypeOK, ClientTypeOK
  <2>2. ListedOnce' /\ BatchInv'
    BY DEF ListedOnce, BatchInv
  <2>3. KnownInv'
    BY DEF KnownInv, InLists, Orphan
  <2>4. TaskInv' /\ ClientInv'
    BY Untouched
  <2> QED BY <2>1, <2>2, <2>3, <2>4
<1> QED BY <1>1, <1>2, <1>3, <1>4 DEF Next

\* The inductive invariant holds in every reachable state.
THEOREM InductiveInvariant ==
  ASSUME ~DestroyAnyTime
  PROVE  Spec => []IInv
BY InitInv, NextInv, PTL DEF Spec

\* Every variable keeps its type.
THEOREM TypeCorrect ==
  ASSUME ~DestroyAnyTime
  PROVE  Spec => []TypeOK
<1>1. IInv => TypeOK
  BY DEF IInv
<1> QED BY <1>1, InductiveInvariant, PTL

\* Neither the worker, nor a client inside a call, nor the owner of a handle
\* ever refers to a freed task.
THEOREM MemorySafe ==
  ASSUME ~DestroyAnyTime
  PROVE  Spec => []NoDangling
<1>1. IInv => NoDangling
  <2> SUFFICES ASSUME IInv PROVE NoDangling
    OBVIOUS
  <2>1. \A t \in Listed : mem[t] = "alive"
    BY DEF IInv, KnownInv, Listed, InLists
  <2>2. wpc = "release" => mem[cur] = "alive"
    BY DEF IInv, KnownInv
  <2>3. /\ \A c \in Clients : arg[c] # NoTask => mem[arg[c]] = "alive"
        /\ \A t \in Tasks : owner[t] # NoClient => mem[t] = "alive"
    BY DEF IInv, TaskInv, TaskOK, ClientInv, ClientOK
  <2> QED BY <2>1, <2>2, <2>3 DEF NoDangling
<1> QED BY <1>1, InductiveInvariant, PTL

\* The worker's lists never hold a task twice.
THEOREM NoDuplicates ==
  ASSUME ~DestroyAnyTime
  PROVE  Spec => []ListedOnce
<1>1. IInv => ListedOnce
  BY DEF IInv
<1> QED BY <1>1, InductiveInvariant, PTL

\* A task that is done stays done: no step of a client or of the worker gives it
\* another state, so its function is never called again.
THEOREM DoneStays ==
  ASSUME ~DestroyAnyTime
  PROVE  Spec => DoneIsFinal
<1> DEFINE Keeps == \A t \in Tasks : state[t] = "Done" => state'[t] = "Done"
<1>1. ASSUME IInv, [Next]_vars PROVE Keeps
  <2> USE <1>1 DEF IInv, TypeOK, TaskTypeOK
  <2>1. ASSUME NEW c \in Clients, NEW t \in Tasks, NEW rep, NEW auto, QueueTask(c, t, rep, auto)
        PROVE  Keeps
    BY <2>1 DEF QueueTask
  <2>2. ASSUME NEW c \in Clients, NEW t \in Tasks,
               Cancel(c, t) \/ CancelAndDestroy(c, t)
        PROVE  Keeps
    BY <2>2 DEF Cancel, CancelAndDestroy, CancelPending
  <2>3. ASSUME NEW c \in Clients, DestroyDelayed(c) \/ DestroyCancel(c)
        PROVE  Keeps
    BY <2>3 DEF DestroyDelayed, DestroyCancel, CancelPending
  <2>4. CASE WorkerRunTask \/ WorkerDropTask
    BY <2>4, Zenon DEF WorkerRunTask, WorkerDropTask
  <2>5. CASE WorkerFuncReturns
    BY <2>5, Zenon DEF WorkerFuncReturns
  <2>6. CASE UNCHANGED state
    BY <2>6
  <2>7. ASSUME NEW c \in Clients, ClientCall(c)
        PROVE  Keeps
    BY <2>1, <2>2, <2>7, Zenon DEF ClientCall, AddTask, AddWaitableTask, AddRepeatedTask,
       WaitCompletion, Destroy, WorkerDestroy, taskVars
  <2>8. ASSUME NEW c \in Clients, ClientStep(c)
        PROVE  Keeps
    BY <2>3, <2>8 DEF ClientStep, WaitRecheck, DestroyCheck, DestroyWait, Free, WorkerJoin,
       taskVars
  <2>9. CASE WorkerStep
    BY <2>4, <2>5, <2>9, Zenon DEF WorkerStep, WorkerStart, WorkerTop, WorkerSkipTask,
       WorkerRelease, WorkerBatchDone, WorkerBroadcast, WorkerAfterBatch, WorkerResume,
       taskVars
  <2>10. CASE SpuriousWakeup \/ UNCHANGED vars
    BY <2>10 DEF SpuriousWakeup, vars, taskVars
  <2> QED BY <2>7, <2>8, <2>9, <2>10 DEF Next
<1>2. IInv /\ [Next]_vars => [Keeps]_vars
  BY <1>1
<1> QED BY <1>2, InductiveInvariant, PTL DEF Spec, DoneIsFinal
===============================================================================
