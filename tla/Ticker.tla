-------------------------------- MODULE Ticker --------------------------------
(***************************************************************************)
(* The ticker of src/base/msticker.c and the graphs of filters it runs     *)
(* (src/base/msfilter.c).                                                  *)
(*                                                                         *)
(* A ticker is a thread.  At every tick it takes its lock, runs the tasks  *)
(* that filters postponed in the previous tick, then calls every filter of *)
(* its graphs, from the sources along the links, each after the filters    *)
(* that feed it; filters that are part of a loop, or after one, are called *)
(* by force at the end of the tick.  The application thread links filters, *)
(* attaches and detaches graphs, and destroys the ticker.                  *)
(*                                                                         *)
(* The pins of the filters are abstracted to the set of possible links, so *)
(* the outputs of a filter, and the sources, are followed in any order.    *)
(* A queue is empty or not.                                                *)
(***************************************************************************)
EXTENDS Naturals, FiniteSets

CONSTANTS
  Filters,
  Sources,       \* filters without inputs (desc->ninputs = 0)
  Pumps,         \* filters called even without data (MS_FILTER_IS_PUMP)
  Posters,       \* filters that postpone tasks (ms_filter_postpone_task)
  Wires,         \* the links the application makes: pairs of filters
  NoFilter,
  TickMod,       \* number of values of the tick counter, 2^32 in the code
  MaxPostponed   \* bound on postponed_task, which detachments leave too high

ASSUME TickerAssumption ==
  /\ Sources \subseteq Filters /\ Pumps \subseteq Filters /\ Posters \subseteq Filters
  /\ Wires \subseteq Filters \X (Filters \ Sources)
  /\ NoFilter \notin Filters
  /\ TickMod \in Nat /\ TickMod > 2
  /\ MaxPostponed \in Nat

VARIABLES
  links,      \* the queues that exist
  data,       \* the queues that hold data
  sched,      \* filters whose ticker field is set (preprocess was called)
  lastTick,   \* f->last_tick
  postponed,  \* f->postponed_task
  exec,       \* execution_list: the sources to run
  tasks,      \* task_list: the filters that have a task in it
  ticks, run, \* the tick counter and the flag of the loop
  tpc,        \* control point of the ticker's thread
  pending,    \* tasks that run_tasks() has still to run
  cur,        \* filter whose task is running
  visit,      \* filters that run_graph() is to look at
  unsched,    \* the list unschedulable of run_graphs()
  force,      \* force_schedule
  done,       \* filters called in this tick
  apc, todo,  \* control point of the application and the filters it goes through
  erased      \* history: the tasks of each filter that detachments erased

filterVars == <<links, data, sched, lastTick, postponed, erased>>
listVars == <<exec, tasks, ticks, run>>
threadVars == <<tpc, pending, cur, visit, unsched, force, done>>
appVars == <<apc, todo>>
vars == <<filterVars, listVars, threadVars, appVars>>

\* The fields have their types; a running task belongs to a filter.
TypeOK ==
  /\ links \subseteq Wires /\ data \subseteq links
  /\ sched \subseteq Filters /\ exec \subseteq Sources /\ tasks \subseteq Filters
  /\ lastTick \in [Filters -> 0..(TickMod - 1)]
  /\ postponed \in [Filters -> Nat] /\ erased \in [Filters -> Nat]
  /\ ticks \in 0..(TickMod - 1) /\ run \in BOOLEAN /\ force \in BOOLEAN
  /\ tpc \in {"top", "tasks", "task", "graph", "unlock", "sleep", "exited"}
  /\ pending \subseteq Filters /\ visit \subseteq Filters
  /\ unsched \subseteq Filters /\ done \subseteq Filters
  /\ cur \in Filters \cup {NoFilter} /\ (tpc = "task" <=> cur # NoFilter)
  /\ apc \in {"idle", "attaching", "detaching", "stopping", "stopped"}
  /\ todo \subseteq Filters

Init ==
  /\ links = {} /\ data = {} /\ sched = {}
  /\ lastTick = [f \in Filters |-> 0] /\ postponed = [f \in Filters |-> 0]
  /\ exec = {} /\ tasks = {} /\ ticks = 1 /\ run = TRUE
  /\ tpc = "top" /\ pending = {} /\ cur = NoFilter
  /\ visit = {} /\ unsched = {} /\ force = FALSE /\ done = {}
  /\ apc = "idle" /\ todo = {} /\ erased = [f \in Filters |-> 0]

Preds(f) == {g \in Filters : <<g, f>> \in links}
Succs(f) == {g \in Filters : <<f, g>> \in links}
Inputs(f) == {l \in links : l[2] = f}
Outputs(f) == {l \in links : l[1] = f}

\* ms_filter_find_neighbours(): the filters connected to f, as the smallest set
\* that holds f and that no link enters or leaves.
Closed(S) == \A l \in links : l[1] \in S <=> l[2] \in S
Neighbours(f) == {g \in Filters : \A S \in SUBSET Filters : f \in S /\ Closed(S) => g \in S}

\* run_tasks() is going through the task list, and the filters whose tasks wait.
InTasks == tpc \in {"tasks", "task"}
Waiting == IF InTasks THEN pending ELSE tasks

\* The ticker's thread holds the lock.
Locked == tpc \in {"top", "tasks", "task", "graph", "unlock"}

-----------------------------------------------------------------------------
(* The application.                                                        *)

\* ms_filter_link() and ms_filter_unlink(), on filters that no ticker runs.
Link(l) ==
  /\ apc = "idle" /\ l \in Wires \ links
  /\ l[1] \notin sched /\ l[2] \notin sched
  /\ links' = links \cup {l}
  /\ UNCHANGED <<data, sched, lastTick, postponed, erased, listVars, threadVars, appVars>>

Unlink(l) ==
  /\ apc = "idle" /\ l \in links
  /\ l[1] \notin sched /\ l[2] \notin sched
  /\ links' = links \ {l} /\ data' = data \ {l}
  /\ UNCHANGED <<sched, lastTick, postponed, erased, listVars, threadVars, appVars>>

\* ms_ticker_attach(): the filters around f are prepared one by one, without
\* the lock, then their sources are added to the execution list.
Attach(f) ==
  /\ apc = "idle" /\ f \notin sched
  /\ Neighbours(f) \cap Sources # {}
  /\ apc' = "attaching" /\ todo' = Neighbours(f)
  /\ UNCHANGED <<filterVars, listVars, threadVars>>

Preprocess(f) ==
  /\ apc = "attaching" /\ f \in todo \ sched
  /\ sched' = sched \cup {f} /\ lastTick' = [lastTick EXCEPT ![f] = 0]
  /\ UNCHANGED <<links, data, postponed, erased, listVars, threadVars, appVars>>

\* Faulty variant: the sources are published before preprocess is called.
PublishEarly ==
  /\ apc = "attaching" /\ ~Locked
  /\ exec' = exec \cup (todo \cap Sources)
  /\ IF todo \subseteq sched THEN apc' = "idle" /\ todo' = {} ELSE UNCHANGED appVars
  /\ UNCHANGED <<tasks, ticks, run, filterVars, threadVars>>

Publish ==
  /\ apc = "attaching" /\ todo \subseteq sched /\ ~Locked
  /\ exec' = exec \cup (todo \cap Sources)
  /\ apc' = "idle" /\ todo' = {}
  /\ UNCHANGED <<tasks, ticks, run, filterVars, threadVars>>

\* ms_ticker_detach(): under the lock the sources leave the execution list; then,
\* without it, each filter loses its tasks and is told (call_postprocess).
Detach(f) ==
  /\ apc = "idle" /\ f \in sched /\ ~Locked
  /\ exec' = exec \ Neighbours(f)
  /\ apc' = "detaching" /\ todo' = Neighbours(f)
  /\ UNCHANGED <<tasks, ticks, run, filterVars, threadVars>>

\* Faulty variant: a filter that is detached keeps its tasks in the list.
RemoveTasksNone(f) == UNCHANGED <<tasks, pending, erased>>

\* remove_tasks_for_filter(), without the lock: the tasks of f leave the list, and
\* postponed_task is not changed.  While run_tasks() goes through the same list and
\* frees it the outcome is undefined: it may also miss the removal.
RemoveTasks(f) ==
  \/ /\ tasks' = tasks \ {f} /\ pending' = pending \ {f}
     /\ erased' = [erased EXCEPT ![f] = @ + (IF f \in Waiting THEN 1 ELSE 0)]
  \/ InTasks /\ UNCHANGED <<tasks, pending, erased>>

Postprocess(f) ==
  /\ apc = "detaching" /\ f \in todo
  /\ IF postponed[f] > 0 THEN RemoveTasks(f) ELSE UNCHANGED <<tasks, pending, erased>>
  /\ sched' = sched \ {f}
  /\ todo' = todo \ {f} /\ apc' = IF todo = {f} THEN "idle" ELSE apc
  /\ UNCHANGED <<links, data, lastTick, postponed, exec, ticks, run,
                 tpc, cur, visit, unsched, force, done>>

\* ms_ticker_destroy(): the thread is told to leave, then joined.
Stop ==
  /\ apc = "idle" /\ sched = {} /\ ~Locked
  /\ run' = FALSE /\ apc' = "stopping"
  /\ UNCHANGED <<todo, exec, tasks, ticks, filterVars, threadVars>>

Join ==
  /\ apc = "stopping" /\ tpc = "exited" /\ apc' = "stopped"
  /\ UNCHANGED <<todo, filterVars, listVars, threadVars>>

-----------------------------------------------------------------------------
(* The ticker's thread: ms_ticker_run().                                   *)

Tick ==
  /\ tpc = "top"
  /\ IF run THEN /\ ticks' = (ticks + 1) % TickMod
                 /\ tpc' = "tasks" /\ pending' = tasks /\ done' = {}
            ELSE tpc' = "exited" /\ UNCHANGED <<ticks, pending, done>>
  /\ UNCHANGED <<exec, tasks, run, cur, visit, unsched, force, filterVars, appVars>>

\* run_tasks(): the tasks one after the other, then the list is emptied.
RunTask(f) ==
  /\ tpc = "tasks" /\ f \in pending
  /\ tpc' = "task" /\ cur' = f /\ pending' = pending \ {f}
  /\ UNCHANGED <<visit, unsched, force, done, filterVars, listVars, appVars>>

\* Faulty variant: the counter of the filter is not decremented.
TaskReturnsNoCount ==
  /\ tpc = "task"
  /\ \E left \in SUBSET Inputs(cur) : data' = data \ left
  /\ tpc' = "tasks" /\ cur' = NoFilter
  /\ UNCHANGED <<links, sched, lastTick, postponed, erased, pending, visit, unsched, force, done,
                 listVars, appVars>>

\* ms_filter_task_process(): the task works on the queues of its filter.
TaskReturns ==
  /\ tpc = "task"
  /\ \E taken \in SUBSET Inputs(cur) : data' = data \ taken
  /\ postponed' = [postponed EXCEPT ![cur] = @ - 1]
  /\ tpc' = "tasks" /\ cur' = NoFilter
  /\ UNCHANGED <<links, sched, lastTick, erased, pending, visit, unsched, force, done,
                 listVars, appVars>>

\* Faulty variant: the list is emptied before all its tasks have run.
TasksDoneEarly ==
  /\ tpc = "tasks"
  /\ tasks' = {} /\ pending' = {}
  /\ tpc' = "graph" /\ visit' = exec /\ unsched' = {} /\ force' = FALSE
  /\ UNCHANGED <<exec, ticks, run, cur, done, filterVars, appVars>>

TasksDone ==
  /\ tpc = "tasks" /\ pending = {}
  /\ tasks' = {}
  /\ tpc' = "graph" /\ visit' = exec /\ unsched' = {} /\ force' = FALSE
  /\ UNCHANGED <<exec, ticks, run, pending, cur, done, filterVars, appVars>>

\* filter_can_process(): the filters before f have run in this tick.
CanProcess(f) == \A g \in Preds(f) : lastTick[g] = ticks

\* Faulty variant: the filter is called once even when data remain.
CallProcessOnce(f) ==
  /\ lastTick' = [lastTick EXCEPT ![f] = ticks]
  /\ done' = done \cup {f}
  /\ \E made \in SUBSET Outputs(f), left \in SUBSET Inputs(f) :
       data' = (data \ (Inputs(f) \ left)) \cup made
  /\ UNCHANGED <<postponed, tasks>>

\* call_process(): a source or a pump is called once; another filter is called
\* as long as it has input, so that none is left, unless postponed_task is not 0.
CallProcess(f) ==
  /\ lastTick' = [lastTick EXCEPT ![f] = ticks]
  /\ done' = done \cup {f}
  /\ \E made \in SUBSET Outputs(f), left \in SUBSET Inputs(f), post \in {0, 1} :
       /\ post = 1 => f \in Posters /\ postponed[f] < MaxPostponed
       /\ left # {} => f \in Pumps \/ postponed[f] + post > 0
       /\ f \notin Sources \cup Pumps /\ data \cap Inputs(f) = {} => made = {} /\ post = 0
       /\ data' = (data \ (Inputs(f) \ left)) \cup made
       /\ postponed' = [postponed EXCEPT ![f] = @ + post]
       /\ tasks' = IF post = 1 THEN tasks \cup {f} ELSE tasks

\* Faulty variants of run_graph(): the inputs of the filter are not looked at;
\* one that has to wait is forgotten.
RunFilterEager(f) ==
  /\ lastTick[f] # ticks /\ CallProcess(f)
  /\ visit' = (visit \ {f}) \cup Succs(f) /\ UNCHANGED unsched
SetAsideForgotten(f) ==
  /\ lastTick[f] # ticks /\ ~CanProcess(f) /\ ~force
  /\ visit' = visit \ {f} /\ UNCHANGED <<unsched, data, lastTick, postponed, tasks, done>>

\* run_graph() on one filter: it is called and the filters after it follow, or it
\* is set aside because not all filters before it have run, or it has run.
RunFilter(f) ==
  /\ lastTick[f] # ticks /\ (CanProcess(f) \/ force) /\ CallProcess(f)
  /\ visit' = (visit \ {f}) \cup Succs(f) /\ UNCHANGED unsched
SetAside(f) ==
  /\ lastTick[f] # ticks /\ ~CanProcess(f) /\ ~force
  /\ visit' = visit \ {f} /\ unsched' = unsched \cup {f}
  /\ UNCHANGED <<data, lastTick, postponed, tasks, done>>
AlreadyRun(f) ==
  /\ lastTick[f] = ticks
  /\ visit' = visit \ {f}
  /\ UNCHANGED <<unsched, data, lastTick, postponed, tasks, done>>

RunGraph(f) ==
  /\ tpc = "graph" /\ f \in visit
  /\ RunFilter(f) \/ SetAside(f) \/ AlreadyRun(f)
  /\ UNCHANGED <<links, sched, erased, exec, ticks, run, tpc, pending, cur, force, appVars>>

\* Faulty variant: the list of filters set aside is not emptied.
RunGraphsEndLoop ==
  /\ tpc = "graph" /\ visit = {}
  /\ IF unsched # {}
     THEN visit' = unsched /\ force' = TRUE /\ UNCHANGED <<unsched, tpc>>
     ELSE tpc' = "unlock" /\ UNCHANGED <<visit, unsched, force>>
  /\ UNCHANGED <<pending, cur, done, filterVars, listVars, appVars>>

\* run_graphs() goes on with the filters set aside, or ends.
RunGraphsEnd ==
  /\ tpc = "graph" /\ visit = {}
  /\ IF unsched # {}
     THEN visit' = unsched /\ unsched' = {} /\ force' = TRUE /\ UNCHANGED tpc
     ELSE tpc' = "unlock" /\ UNCHANGED <<visit, unsched, force>>
  /\ UNCHANGED <<pending, cur, done, filterVars, listVars, appVars>>

\* The lock is released for the time of wait_next_tick().
Unlock ==
  /\ tpc = "unlock" /\ tpc' = "sleep"
  /\ UNCHANGED <<pending, cur, visit, unsched, force, done, filterVars, listVars, appVars>>
Wake ==
  /\ tpc = "sleep" /\ tpc' = "top"
  /\ UNCHANGED <<pending, cur, visit, unsched, force, done, filterVars, listVars, appVars>>

-----------------------------------------------------------------------------
AppStep ==
  \/ \E l \in Wires : Link(l) \/ Unlink(l)
  \/ \E f \in Filters : Attach(f) \/ Preprocess(f) \/ Detach(f) \/ Postprocess(f)
  \/ Publish \/ Stop \/ Join

TickerStep ==
  \/ Tick \/ TaskReturns \/ TasksDone \/ RunGraphsEnd \/ Unlock \/ Wake
  \/ \E f \in Filters : RunTask(f) \/ RunGraph(f)

Next == AppStep \/ TickerStep

\* The ticker's thread is scheduled; the application need not do anything.
Fairness == WF_vars(TickerStep)

Spec == Init /\ [][Next]_vars /\ Fairness

-----------------------------------------------------------------------------
(* Properties.                                                             *)

\* The thread only reaches filters that are prepared: preprocess has been called
\* and postprocess has not.  It rests on attach publishing last and on detach
\* unpublishing first.
OnlyPrepared ==
  /\ exec \subseteq sched
  /\ tpc = "graph" => visit \cup unsched \subseteq sched

\* At the end of a tick every filter behind a source of the execution list has
\* been called in it, loops included.  (When the counter wraps to 0, a graph
\* attached just before misses that tick, as 0 is also what preprocess stores.)
AllCalled ==
  tpc = "unlock" /\ ticks # 0 =>
    exec \subseteq done /\ \A f \in done : Succs(f) \subseteq done

\* No loop among the filters, and none that waits for an input for ever: every
\* set of filters has one that no other of the set feeds, and that is fed by
\* something unless it is a source.
Tame ==
  /\ \A S \in SUBSET Filters \ {{}} : \E f \in S : Preds(f) \cap S = {}
  /\ \A f \in sched : f \in Sources \/ Preds(f) # {}

\* In such a graph no filter is called before those that feed it, not even in the
\* second round of run_graphs(), which forces the filters set aside.
AfterInputs ==
  [][\A f \in Filters :
       Tame /\ ticks # 0 /\ f \in done' \ done => Preds(f) \subseteq done]_vars

\* In such a graph all that is in the queues of the filters called in a tick has
\* been consumed at its end, whatever was produced in it, except by filters that
\* postpone their work or take what they like.
FlowsThrough ==
  tpc = "unlock" /\ ticks # 0 /\ Tame =>
    \A l \in data : l[2] \in done => l[2] \in Posters \cup Pumps

\* postponed_task is the number of tasks of the filter that wait or run, plus those
\* that a detachment erased, which it goes on counting: nothing else separates the
\* counter from the list, whatever the ticker does while a graph is detached.
PostponedCount ==
  \A f \in Filters :
    postponed[f] = (IF f \in Waiting \cup {cur} THEN 1 ELSE 0) + erased[f]

\* A filter that was detached leaves no task for a later tick: what remains of it in
\* the list is gone when run_tasks() returns, so that the filter can be freed then.
\* call_postprocess() relies on a counter that is never too low.
TasksAttached == ~ InTasks => tasks \subseteq sched

\* Once ms_ticker_detach() has returned, "the processing chain will no more be
\* executed": no task of it is running.
TaskPrepared == apc = "idle" /\ cur # NoFilter => cur \in sched

\* A task that a filter has postponed is executed, unless the filter is detached.
TaskExecuted == \A f \in Posters : f \in Waiting ~> (cur = f \/ f \notin sched)

\* run_graphs(), which calls itself on the filters set aside, ends in every
\* topology, so that ticks follow each other.
TickEnds == (tpc = "graph") ~> (tpc = "sleep")
===============================================================================
