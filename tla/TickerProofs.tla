----------------------------- MODULE TickerProofs -----------------------------
(***************************************************************************)
(* Proofs about Ticker, for any filters, links and size of the counter.    *)
(***************************************************************************)
EXTENDS Ticker, TLAPS

\* Zenon first: it is the faster of the two on the many leaves without arithmetic.
USE ZenonT(3), SMTT(30)

\* The filters that are attached and not in the hands of the application.
Attached == sched \ todo

\* Links never cross the border of the attached filters; what is being attached
\* is a set no link leaves, disjoint from the attached filters.
GraphInv ==
  /\ Closed(Attached)
  /\ apc = "attaching" => Closed(todo)
  /\ apc = "detaching" => todo \subseteq sched
  /\ apc \in {"idle", "stopping", "stopped"} => todo = {}

\* What the thread may reach is attached; it holds nothing outside run_graphs().
ReachInv ==
  /\ exec \subseteq Attached
  /\ visit \cup unsched \subseteq Attached
  /\ tpc # "graph" => visit = {} /\ unsched = {}

\* A task that waits or runs is counted in its filter, and only those that postpone
\* tasks count any.
TaskInv ==
  /\ tpc \notin {"tasks", "task"} =>
       pending = {} /\ \A f \in tasks : postponed[f] > 0
  /\ \A f \in pending : postponed[f] > 0
  /\ cur # NoFilter => cur \notin pending /\ postponed[cur] > 0
  /\ \A f \in Filters : postponed[f] > 0 => f \in Posters

IInv == TypeOK /\ GraphInv /\ ReachInv /\ TaskInv

-----------------------------------------------------------------------------
\* The neighbours of f form a set that holds f and that no link leaves, and lie
\* within any such set.
LEMMA NeighboursLemma ==
  ASSUME NEW f \in Filters
  PROVE  /\ f \in Neighbours(f) /\ Neighbours(f) \subseteq Filters
         /\ \A S \in SUBSET Filters : f \in S /\ Closed(S) => Neighbours(f) \subseteq S
  BY DEF Neighbours

LEMMA NeighboursClosed ==
  ASSUME TypeOK, NEW f \in Filters PROVE Closed(Neighbours(f))
<1> SUFFICES ASSUME NEW l \in links PROVE l[1] \in Neighbours(f) <=> l[2] \in Neighbours(f)
  BY DEF Closed
<1>1. l[1] \in Filters /\ l[2] \in Filters
  BY TickerAssumption DEF TypeOK
<1>2. ASSUME NEW S \in SUBSET Filters, Closed(S) PROVE l[1] \in S <=> l[2] \in S
  BY <1>2 DEF Closed
<1> QED
  BY <1>1, <1>2 DEF Neighbours

LEMMA ClosedSets ==
  ASSUME NEW A, NEW B, Closed(A), Closed(B)
  PROVE  Closed(A \cup B) /\ Closed(A \ B)
  BY DEF Closed

LEMMA InitInv == Init => IInv
<1> SUFFICES ASSUME Init PROVE IInv
  OBVIOUS
<1>1. /\ lastTick \in [Filters -> 0..(TickMod - 1)] /\ postponed \in [Filters -> Nat]
      /\ ticks \in 0..(TickMod - 1) /\ erased \in [Filters -> Nat]
  BY TickerAssumption DEF Init
<1>2. TypeOK
  BY <1>1 DEF Init, TypeOK
<1>3. GraphInv /\ ReachInv /\ TaskInv
  BY DEF Init, GraphInv, ReachInv, TaskInv, Attached, Closed
<1> QED
  BY <1>2, <1>3 DEF IInv

-----------------------------------------------------------------------------
(* The application's steps.                                                *)

LEMMA LinkInv == ASSUME IInv, NEW l \in Wires, Link(l) PROVE IInv'
<1>1. TypeOK'
  BY DEF IInv, TypeOK, Link, listVars, threadVars, appVars
<1>2. GraphInv'
  BY DEF IInv, GraphInv, Attached, Closed, Link, listVars, threadVars, appVars
<1>3. ReachInv'
  BY DEF IInv, ReachInv, Attached, Link, listVars, threadVars, appVars
<1>k. TaskInv'
  BY DEF IInv, TaskInv, Link, listVars, threadVars
<1> QED
  BY <1>1, <1>2, <1>3, <1>k DEF IInv

LEMMA UnlinkInv == ASSUME IInv, NEW l \in Wires, Unlink(l) PROVE IInv'
<1>1. TypeOK'
  BY DEF IInv, TypeOK, Unlink, listVars, threadVars, appVars
<1>2. GraphInv'
  BY DEF IInv, GraphInv, Attached, Closed, Unlink, listVars, threadVars, appVars
<1>3. ReachInv'
  BY DEF IInv, ReachInv, Attached, Unlink, listVars, threadVars, appVars
<1>k. TaskInv'
  BY DEF IInv, TaskInv, Unlink, listVars, threadVars
<1> QED
  BY <1>1, <1>2, <1>3, <1>k DEF IInv

LEMMA AttachInv == ASSUME IInv, NEW f \in Filters, Attach(f) PROVE IInv'
<1>1. /\ apc = "idle" /\ todo = {} /\ f \notin sched /\ todo' = Neighbours(f) /\ apc' = "attaching"
      /\ UNCHANGED <<filterVars, listVars, threadVars>>
  BY DEF IInv, GraphInv, Attach
<1>2. Closed(sched) /\ sched \subseteq Filters
  BY <1>1 DEF IInv, TypeOK, GraphInv, Attached
<1>3. Closed(Filters \ sched) /\ f \in Filters \ sched
  <2>1. \A l \in links : l[1] \in Filters /\ l[2] \in Filters
    BY TickerAssumption DEF IInv, TypeOK
  <2> QED
    BY <1>1, <1>2, <2>1 DEF Closed
<1>4. Neighbours(f) \subseteq Filters \ sched
  BY <1>3, NeighboursLemma
<1>5. Closed(Neighbours(f))
  BY NeighboursClosed DEF IInv
<1>6. Attached' = Attached /\ links' = links
  BY <1>1, <1>4 DEF Attached, filterVars
<1>7. TypeOK'
  BY <1>1, <1>4 DEF IInv, TypeOK, filterVars, listVars, threadVars
<1>8. GraphInv'
  BY <1>1, <1>5, <1>6 DEF IInv, GraphInv, Closed
<1>9. ReachInv'
  BY <1>1, <1>6 DEF IInv, ReachInv, listVars, threadVars
<1>k. TaskInv'
  BY <1>1 DEF IInv, TaskInv, filterVars, listVars, threadVars
<1> QED
  BY <1>7, <1>8, <1>9, <1>k DEF IInv

LEMMA PreprocessInv == ASSUME IInv, NEW f \in Filters, Preprocess(f) PROVE IInv'
<1>1. /\ apc = "attaching" /\ f \in todo /\ sched' = sched \cup {f}
      /\ lastTick' = [lastTick EXCEPT ![f] = 0]
      /\ UNCHANGED <<links, data, postponed, erased, listVars, threadVars, appVars>>
  BY DEF Preprocess
<1>2. Attached' = Attached
  BY <1>1 DEF Attached, appVars
<1>3. TypeOK'
  BY <1>1, TickerAssumption DEF IInv, TypeOK, listVars, threadVars, appVars
<1>4. GraphInv'
  BY <1>1, <1>2 DEF IInv, GraphInv, Closed, appVars
<1>5. ReachInv'
  BY <1>1, <1>2 DEF IInv, ReachInv, listVars, threadVars
<1>k. TaskInv'
  BY <1>1 DEF IInv, TaskInv, listVars, threadVars
<1> QED
  BY <1>3, <1>4, <1>5, <1>k DEF IInv

LEMMA PublishInv == ASSUME IInv, Publish PROVE IInv'
<1>1. /\ apc = "attaching" /\ todo \subseteq sched
      /\ exec' = exec \cup (todo \cap Sources) /\ apc' = "idle" /\ todo' = {}
      /\ UNCHANGED <<tasks, ticks, run, filterVars, threadVars>>
  BY DEF Publish
<1>2. Attached' = Attached \cup todo
  BY <1>1 DEF Attached, filterVars
<1>3. Closed(Attached \cup todo)
  BY <1>1, ClosedSets DEF IInv, GraphInv
<1>4. TypeOK'
  BY <1>1 DEF IInv, TypeOK, filterVars, threadVars
<1>5. GraphInv'
  BY <1>1, <1>2, <1>3 DEF GraphInv, Closed, filterVars
<1>6. ReachInv'
  BY <1>1, <1>2 DEF IInv, ReachInv, threadVars
<1>k. TaskInv'
  BY <1>1 DEF IInv, TaskInv, filterVars, threadVars
<1> QED
  BY <1>4, <1>5, <1>6, <1>k DEF IInv

LEMMA DetachInv == ASSUME IInv, NEW f \in Filters, Detach(f) PROVE IInv'
<1>1. /\ apc = "idle" /\ todo = {} /\ f \in sched /\ ~Locked
      /\ exec' = exec \ Neighbours(f) /\ apc' = "detaching" /\ todo' = Neighbours(f)
      /\ UNCHANGED <<tasks, ticks, run, filterVars, threadVars>>
  BY DEF IInv, GraphInv, Detach
<1>2. Closed(sched) /\ sched \subseteq Filters
  BY <1>1 DEF IInv, TypeOK, GraphInv, Attached
<1>3. Neighbours(f) \subseteq sched /\ Closed(Neighbours(f))
  BY <1>1, <1>2, NeighboursLemma, NeighboursClosed DEF IInv
<1>4. Attached' = sched \ Neighbours(f) /\ links' = links
  BY <1>1 DEF Attached, filterVars
<1>5. Closed(sched \ Neighbours(f))
  BY <1>2, <1>3, ClosedSets
<1>6. visit = {} /\ unsched = {}
  BY <1>1 DEF IInv, ReachInv, Locked
<1>7. TypeOK'
  BY <1>1, <1>2, <1>3 DEF IInv, TypeOK, filterVars, threadVars
<1>8. GraphInv'
  BY <1>1, <1>3, <1>4, <1>5 DEF GraphInv, Closed, filterVars
<1>9. ReachInv'
  BY <1>1, <1>4, <1>6 DEF IInv, ReachInv, Attached, threadVars
<1>k. TaskInv'
  BY <1>1 DEF IInv, TaskInv, filterVars, threadVars
<1> QED
  BY <1>7, <1>8, <1>9, <1>k DEF IInv

LEMMA PostprocessInv == ASSUME IInv, NEW f \in Filters, Postprocess(f) PROVE IInv'
<1>1. /\ apc = "detaching" /\ f \in todo /\ sched' = sched \ {f} /\ todo' = todo \ {f}
      /\ apc' = IF todo = {f} THEN "idle" ELSE apc
      /\ tasks' \subseteq tasks /\ pending' \subseteq pending
      /\ UNCHANGED <<links, data, lastTick, postponed, exec, ticks, run,
                     tpc, cur, visit, unsched, force, done>>
  BY DEF Postprocess, RemoveTasks
<1>e. erased' \in [Filters -> Nat]
  BY DEF Postprocess, RemoveTasks, IInv, TypeOK
<1>2. Attached' = Attached /\ todo \subseteq sched
  BY <1>1 DEF Attached, IInv, GraphInv
<1>3. TypeOK'
  BY <1>1, <1>e DEF IInv, TypeOK
<1>4. GraphInv'
  BY <1>1, <1>2 DEF IInv, GraphInv, Closed
<1>5. ReachInv'
  BY <1>1, <1>2 DEF IInv, ReachInv
<1>k. TaskInv'
  BY <1>1 DEF IInv, TaskInv
<1> QED
  BY <1>3, <1>4, <1>5, <1>k DEF IInv

LEMMA StopInv == ASSUME IInv, Stop \/ Join PROVE IInv'
<1>1. /\ UNCHANGED <<todo, exec, tasks, ticks, filterVars, threadVars>>
      /\ apc \in {"idle", "stopping"} /\ apc' \in {"stopping", "stopped"}
      /\ run' \in BOOLEAN
  BY DEF Stop, Join, listVars, IInv, TypeOK
<1>2. TypeOK'
  BY <1>1 DEF IInv, TypeOK, filterVars, threadVars
<1>3. GraphInv' /\ ReachInv'
  BY <1>1 DEF IInv, GraphInv, ReachInv, Attached, Closed, filterVars, threadVars
<1>k. TaskInv'
  BY <1>1 DEF IInv, TaskInv, filterVars, threadVars
<1> QED
  BY <1>2, <1>3, <1>k DEF IInv

-----------------------------------------------------------------------------
(* The ticker's steps.                                                     *)

\* Steps outside run_graphs() leave the graphs and the application alone.
LEMMA QuietStep ==
  ASSUME IInv, TypeOK', TaskInv', UNCHANGED <<links, sched, exec, apc, todo>>,
         visit' = visit, unsched' = unsched, tpc # "graph", tpc' # "graph"
  PROVE  IInv'
  BY DEF IInv, GraphInv, ReachInv, Attached, Closed

LEMMA TickInv == ASSUME IInv, Tick PROVE IInv'
<1>1. ticks' \in 0..(TickMod - 1)
  BY TickerAssumption DEF IInv, TypeOK, Tick
<1>2. TypeOK'
  BY <1>1 DEF IInv, TypeOK, Tick, filterVars, appVars
<1>k. TaskInv'
  BY DEF IInv, TaskInv, TypeOK, Tick, filterVars
<1> QED
  BY <1>2, <1>k, QuietStep DEF Tick, filterVars, appVars

LEMMA RunTaskInv == ASSUME IInv, NEW f \in Filters, RunTask(f) PROVE IInv'
<1>1. TypeOK'
  BY TickerAssumption DEF IInv, TypeOK, RunTask, filterVars, listVars, appVars
<1>k. TaskInv'
  BY DEF IInv, TaskInv, TypeOK, RunTask, filterVars, listVars
<1> QED
  BY <1>1, <1>k, QuietStep DEF RunTask, filterVars, listVars, appVars

LEMMA TaskReturnsInv == ASSUME IInv, TaskReturns PROVE IInv'
<1>1. /\ tpc = "task" /\ tpc' = "tasks" /\ cur' = NoFilter /\ data' \subseteq data
      /\ postponed' = [postponed EXCEPT ![cur] = @ - 1]
      /\ UNCHANGED <<links, sched, lastTick, erased, pending, visit, unsched, force, done,
                     exec, tasks, ticks, run, apc, todo>>
  BY DEF TaskReturns, listVars, appVars
<1>2. cur \in Filters /\ postponed[cur] \in Nat /\ postponed[cur] > 0 /\ cur \notin pending
  BY <1>1 DEF IInv, TypeOK, TaskInv
<1>3. postponed' \in [Filters -> Nat]
  BY <1>1, <1>2 DEF IInv, TypeOK
<1>4. TypeOK'
  BY <1>1, <1>3 DEF IInv, TypeOK
<1>5. \A f \in Filters : postponed'[f] = IF f = cur THEN postponed[f] - 1 ELSE postponed[f]
  BY <1>1 DEF IInv, TypeOK
<1>6. \A f \in Filters : postponed'[f] > 0 => postponed[f] > 0
  BY <1>2, <1>5 DEF IInv, TypeOK
<1>k. TaskInv'
  <2>1. \A f \in pending' : postponed'[f] > 0
    BY <1>1, <1>2, <1>5 DEF IInv, TypeOK, TaskInv
  <2> QED BY <1>1, <1>6, <2>1 DEF IInv, TaskInv
<1> QED
  BY <1>1, <1>4, <1>k, QuietStep

LEMMA UnlockInv == ASSUME IInv, Unlock \/ Wake PROVE IInv'
<1>1. TypeOK'
  BY DEF IInv, TypeOK, Unlock, Wake, filterVars, listVars, appVars
<1>k. TaskInv'
  BY DEF IInv, TaskInv, Unlock, Wake, filterVars, listVars
<1> QED
  BY <1>1, <1>k, QuietStep DEF Unlock, Wake, filterVars, listVars, appVars

LEMMA TasksDoneInv == ASSUME IInv, TasksDone PROVE IInv'
<1>1. TypeOK'
  BY TickerAssumption DEF IInv, TypeOK, TasksDone, filterVars, appVars
<1>2. GraphInv' /\ ReachInv'
  BY DEF IInv, GraphInv, ReachInv, Attached, Closed, TasksDone, filterVars, appVars
<1>k. TaskInv'
  BY DEF IInv, TaskInv, TypeOK, TasksDone, filterVars
<1> QED
  BY <1>1, <1>2, <1>k DEF IInv

LEMMA RunGraphsEndInv == ASSUME IInv, RunGraphsEnd PROVE IInv'
<1>1. TypeOK'
  BY DEF IInv, TypeOK, RunGraphsEnd, filterVars, listVars, appVars
<1>2. GraphInv' /\ ReachInv'
  BY DEF IInv, GraphInv, ReachInv, Attached, Closed, RunGraphsEnd, filterVars, listVars, appVars
<1>k. TaskInv'
  BY DEF IInv, TaskInv, RunGraphsEnd, filterVars, listVars
<1> QED
  BY <1>1, <1>2, <1>k DEF IInv

\* What run_graph() changes.
LEMMA CallProcessType ==
  ASSUME TypeOK, NEW f \in Filters, CallProcess(f), links' = links
  PROVE  /\ data' \subseteq links' /\ lastTick' \in [Filters -> 0..(TickMod - 1)]
         /\ postponed' \in [Filters -> Nat] /\ tasks' \subseteq Filters
         /\ done' \subseteq Filters
         /\ (\A g \in tasks : postponed[g] > 0) => \A g \in tasks' : postponed'[g] > 0
         /\ \A g \in Filters : postponed'[g] > 0 => postponed[g] > 0 \/ g \in Posters
<1>1. PICK made \in SUBSET Outputs(f), left \in SUBSET Inputs(f), post \in {0, 1} :
        /\ data' = (data \ (Inputs(f) \ left)) \cup made
        /\ postponed' = [postponed EXCEPT ![f] = @ + post]
        /\ tasks' = IF post = 1 THEN tasks \cup {f} ELSE tasks
        /\ post = 1 => f \in Posters
  BY DEF CallProcess
<1>2. data' \subseteq links'
  BY <1>1 DEF TypeOK, Outputs
<1>3. postponed' \in [Filters -> Nat]
  BY <1>1 DEF TypeOK
<1>4. tasks' \subseteq Filters
  BY <1>1 DEF TypeOK
<1>5. (\A g \in tasks : postponed[g] > 0) => \A g \in tasks' : postponed'[g] > 0
  BY <1>1 DEF TypeOK
<1>6. \A g \in Filters : postponed'[g] > 0 => postponed[g] > 0 \/ g \in Posters
  BY <1>1 DEF TypeOK
<1> QED
  BY <1>2, <1>3, <1>4, <1>5, <1>6 DEF TypeOK, CallProcess

LEMMA RunGraphInv == ASSUME IInv, NEW f \in Filters, RunGraph(f) PROVE IInv'
<1>1. /\ tpc = "graph" /\ f \in visit
      /\ UNCHANGED <<links, sched, erased, exec, ticks, run, tpc, pending, cur, force, apc,
                     todo>>
  BY DEF RunGraph, appVars
<1>2. /\ data' \subseteq links' /\ lastTick' \in [Filters -> 0..(TickMod - 1)]
      /\ postponed' \in [Filters -> Nat] /\ tasks' \subseteq Filters
      /\ done' \subseteq Filters
      /\ \A g \in tasks' : postponed'[g] > 0
      /\ \A g \in Filters : postponed'[g] > 0 => g \in Posters
  <2>1. CASE CallProcess(f)
    BY <1>1, <2>1, CallProcessType DEF IInv, TaskInv
  <2>2. CASE SetAside(f) \/ AlreadyRun(f)
    BY <1>1, <2>2 DEF SetAside, AlreadyRun, IInv, TypeOK, TaskInv
  <2> QED
    BY <2>1, <2>2 DEF RunGraph, RunFilter
<1>3. visit' \subseteq visit \cup Succs(f) /\ unsched' \subseteq unsched \cup {f}
  BY DEF RunGraph, RunFilter, SetAside, AlreadyRun
<1>4. f \in Attached /\ Succs(f) \subseteq Attached
  <2>1. f \in Attached
    BY <1>1 DEF IInv, ReachInv
  <2>2. ASSUME NEW g \in Succs(f) PROVE g \in Attached
    BY <2>1, <2>2 DEF Succs, IInv, GraphInv, Closed
  <2> QED
    BY <2>1, <2>2
<1>5. visit' \cup unsched' \subseteq Attached /\ Attached' = Attached
  BY <1>1, <1>3, <1>4 DEF IInv, ReachInv, Attached
<1>6. TypeOK'
  <2>1. visit' \subseteq Filters /\ unsched' \subseteq Filters
    BY <1>5 DEF IInv, TypeOK, Attached
  <2> QED
    BY <1>1, <1>2, <2>1 DEF IInv, TypeOK
<1>7. GraphInv' /\ ReachInv'
  BY <1>1, <1>5 DEF IInv, GraphInv, ReachInv, Closed
<1>k. TaskInv'
  BY <1>1, <1>2 DEF IInv, TypeOK, TaskInv
<1> QED
  BY <1>6, <1>7, <1>k DEF IInv

LEMMA NextInv == IInv /\ [Next]_vars => IInv'
<1> SUFFICES ASSUME IInv, [Next]_vars PROVE IInv'
  OBVIOUS
<1>1. CASE AppStep
  BY <1>1, LinkInv, UnlinkInv, AttachInv, PreprocessInv, PublishInv, DetachInv,
     PostprocessInv, StopInv DEF AppStep
<1>2. CASE TickerStep
  BY <1>2, TickInv, RunTaskInv, TaskReturnsInv, TasksDoneInv, RunGraphInv,
     RunGraphsEndInv, UnlockInv DEF TickerStep
<1>3. CASE UNCHANGED vars
  <2>1. TypeOK'
    BY <1>3 DEF vars, filterVars, listVars, threadVars, appVars, IInv, TypeOK
  <2>2. GraphInv' /\ ReachInv' /\ TaskInv'
    BY <1>3 DEF vars, filterVars, listVars, threadVars, appVars, IInv, GraphInv, ReachInv,
                TaskInv, Attached, Closed
  <2> QED
    BY <2>1, <2>2 DEF IInv
<1> QED
  BY <1>1, <1>2, <1>3 DEF Next

-----------------------------------------------------------------------------
(* The theorems.                                                           *)

\* The invariant holds in every behaviour of the ticker.
THEOREM InductiveInvariant == Spec => []IInv
  BY InitInv, NextInv, PTL DEF Spec

\* The fields of the ticker and of the filters keep their types; in particular
\* the counter of postponed tasks never becomes negative.
THEOREM TypeCorrect == Spec => []TypeOK
<1>1. IInv => TypeOK
  BY DEF IInv
<1> QED
  BY <1>1, InductiveInvariant, PTL

\* Whatever the links and whenever graphs are attached and detached, the ticker's
\* thread reaches only filters between their preprocess and their postprocess.
THEOREM PreparedOnly == Spec => []OnlyPrepared
<1>1. IInv => OnlyPrepared
  BY DEF IInv, ReachInv, Attached, OnlyPrepared
<1> QED
  BY <1>1, InductiveInvariant, PTL

-------------------------------------------------------------------------------
(***************************************************************************)
(* Which filters a tick calls, in which order, and which tasks run.        *)
(***************************************************************************)

\* The tasks are counted, and outside run_tasks() belong to attached filters; once
\* the graphs run they are of this tick.
CountInv ==
  /\ PostponedCount /\ TasksAttached
  /\ tpc = "graph" => tasks \subseteq done

\* The attached filters that have been called since they were attached, and those
\* that the current tick is to call or has called.
Called == {f \in Attached : lastTick[f] # 0}
Due == {f \in Attached : lastTick[f] # ticks} \cup done

\* S holds the sources in M, and what follows the filters of M that it holds.
Leads(M, S) == exec \cap M \subseteq S /\ \A g \in S \cap M : Succs(g) \subseteq S

\* A filter has never been called when its graph is published, and the sources of
\* the attached graphs are in the execution list.
FreshInv ==
  /\ apc = "attaching" => \A f \in todo \cap sched : lastTick[f] = 0
  /\ Attached \cap Sources \subseteq exec

\* Between two ticks: a filter was called in the last tick or never, and those that
\* were are exactly what the sources among them lead to.
RestInv ==
  tpc \in {"top", "unlock", "sleep", "exited"} =>
    /\ \A f \in Attached : lastTick[f] \in {0, ticks}
    /\ \A f \in Called : Succs(f) \subseteq Called
    /\ \A S \in SUBSET Filters : Leads(Called, S) => Called \subseteq S

\* Within a tick: what is due is closed under the links, everything is due unless the
\* counter has wrapped, what was ever called is led to by the sources, and what
\* follows the filters called so far is called, to be looked at, or set aside.
RoundInv ==
  tpc \in {"tasks", "task", "graph"} =>
    /\ done \subseteq Attached /\ \A f \in done : lastTick[f] = ticks
    /\ \A f \in Due : Succs(f) \subseteq Due
    /\ ticks # 0 => Attached \subseteq Due
    /\ \A S \in SUBSET Filters : Leads(Due, S) =>
         Called \cup done \cup ((visit \cup unsched) \cap Due) \subseteq S
    /\ tpc # "graph" => done = {}
    /\ tpc = "graph" => /\ exec \cap Due \subseteq done \cup visit \cup unsched
                        /\ \A g \in done : Succs(g) \subseteq done \cup visit \cup unsched

EndInv == tpc = "unlock" => done \subseteq Attached /\ AllCalled

\* Tame, of the attached filters only: it does not change while the lock is held.
TameAttached ==
  /\ \A S \in SUBSET Attached : S # {} => \E f \in S : Preds(f) \cap S = {}
  /\ \A f \in Attached : f \in Sources \/ Preds(f) # {}

\* In such a graph a filter set aside is looked at again as soon as it can process,
\* so that the second round finds that every filter has been called.
TameInv ==
  tpc \in {"graph", "unlock"} /\ ticks # 0 /\ TameAttached =>
    /\ tpc = "graph" /\ ~force => \A f \in unsched \ (done \cup visit) : ~CanProcess(f)
    /\ \A f \in done : Preds(f) \subseteq done
    /\ tpc = "graph" /\ force => Attached \subseteq done
    /\ \A l \in data : l[2] \in done => l[2] \in Posters \cup Pumps

OrderInv == FreshInv /\ RestInv /\ RoundInv /\ EndInv /\ TameInv

JInv == IInv /\ OrderInv /\ CountInv

-----------------------------------------------------------------------------
LEMMA InitOrder == Init => JInv
<1> SUFFICES ASSUME Init PROVE JInv
  OBVIOUS
<1>1. IInv
  BY InitInv
<1>2. Attached = {} /\ Called = {}
  BY DEF Init, Attached, Called
<1>3. FreshInv /\ RoundInv /\ EndInv /\ TameInv
  BY <1>2 DEF Init, FreshInv, RoundInv, EndInv, TameInv
<1>4. RestInv
  BY <1>2 DEF RestInv
<1>5. CountInv
  BY TickerAssumption DEF Init, CountInv, PostponedCount, TasksAttached, Waiting, InTasks
<1> QED
  BY <1>1, <1>3, <1>4, <1>5 DEF JInv, OrderInv

-----------------------------------------------------------------------------
(* The application's steps.                                                *)

\* The neighbours in the graph of the attached filters.
LEMMA AttachedNeighbours ==
  ASSUME IInv
  PROVE  \A f \in Attached : Succs(f) \subseteq Attached /\ Preds(f) \subseteq Attached
  BY DEF IInv, GraphInv, Closed, Succs, Preds

\* A step that leaves the attached filters and the thread alone.
LEMMA AppKeepsOrder ==
  ASSUME IInv, OrderInv, FreshInv', Attached' = Attached,
         UNCHANGED <<exec, ticks, tpc, visit, unsched, force, done>>, data' \subseteq data,
         \A f \in Attached : /\ Succs(f)' = Succs(f) /\ Preds(f)' = Preds(f)
                             /\ lastTick'[f] = lastTick[f]
  PROVE  OrderInv'
<1>1. Called' = Called /\ Called \subseteq Attached
  BY DEF Called
<1>2. RestInv'
  <2>1. \A S : Leads(Called, S)' = Leads(Called, S)
    BY <1>1 DEF Leads
  <2> QED BY <1>1, <2>1 DEF OrderInv, RestInv
<1>3. RoundInv'
  <2> SUFFICES ASSUME tpc \in {"tasks", "task", "graph"} PROVE RoundInv'
    BY DEF RoundInv
  <2>1. Due' = Due /\ Due \subseteq Attached /\ done \subseteq Attached
    BY DEF Due, OrderInv, RoundInv
  <2>2. \A S : Leads(Due, S)' = Leads(Due, S)
    BY <2>1 DEF Leads
  <2> QED BY <1>1, <2>1, <2>2 DEF OrderInv, RoundInv
<1>4. EndInv'
  BY DEF OrderInv, EndInv, AllCalled
<1>5. TameInv'
  <2>1. TameAttached' = TameAttached
    BY DEF TameAttached
  <2>2. tpc \in {"graph", "unlock"} => done \subseteq Attached
    BY DEF OrderInv, RoundInv, EndInv
  <2>3. visit \cup unsched \subseteq Attached
    BY DEF IInv, ReachInv
  <2>4. \A f \in Attached : CanProcess(f)' = CanProcess(f)
    BY AttachedNeighbours DEF CanProcess
  <2> QED BY <2>1, <2>2, <2>3, <2>4 DEF OrderInv, TameInv
<1> QED
  BY <1>2, <1>3, <1>4, <1>5 DEF OrderInv

LEMMA LinkOrder == ASSUME IInv, OrderInv, NEW l \in Wires, Link(l) \/ Unlink(l) PROVE OrderInv'
<1>1. /\ l[1] \notin sched /\ l[2] \notin sched /\ data' \subseteq data
      /\ links' = links \cup {l} \/ links' = links \ {l}
      /\ UNCHANGED <<sched, lastTick, postponed, erased, listVars, threadVars, appVars>>
  BY DEF Link, Unlink
<1>2. Attached' = Attached /\ Attached \subseteq sched
  BY <1>1 DEF Attached, appVars
<1>3. \A f \in sched : Succs(f)' = Succs(f) /\ Preds(f)' = Preds(f)
  <2>1. \A f \in sched, g \in Filters : l # <<f, g>> /\ l # <<g, f>>
    BY <1>1
  <2> QED BY <1>1, <2>1 DEF Succs, Preds
<1>4. FreshInv'
  BY <1>1, <1>2 DEF OrderInv, FreshInv, listVars, appVars
<1> QED
  BY <1>1, <1>2, <1>3, <1>4, AppKeepsOrder DEF listVars, threadVars, appVars

LEMMA AttachOrder == ASSUME IInv, OrderInv, NEW f \in Filters, Attach(f) PROVE OrderInv'
<1>1. /\ apc = "idle" /\ todo = {} /\ f \notin sched /\ todo' = Neighbours(f) /\ apc' = "attaching"
      /\ UNCHANGED <<filterVars, listVars, threadVars>>
  BY DEF IInv, GraphInv, Attach
<1>2. Neighbours(f) \cap sched = {}
  <2>1. Closed(sched) /\ sched \subseteq Filters
    BY <1>1 DEF IInv, TypeOK, GraphInv, Attached
  <2>2. \A l \in links : l[1] \in Filters /\ l[2] \in Filters
    BY TickerAssumption DEF IInv, TypeOK
  <2>3. Closed(Filters \ sched) /\ f \in Filters \ sched
    BY <1>1, <2>1, <2>2 DEF Closed
  <2> QED BY <2>3, NeighboursLemma
<1>3. Attached' = Attached
  BY <1>1, <1>2 DEF Attached, filterVars
<1>4. FreshInv'
  BY <1>1, <1>2, <1>3 DEF OrderInv, FreshInv, filterVars, listVars
<1>5. \A g : Succs(g)' = Succs(g) /\ Preds(g)' = Preds(g)
  BY <1>1 DEF Succs, Preds, filterVars
<1> QED
  BY <1>1, <1>3, <1>4, <1>5, AppKeepsOrder DEF filterVars, listVars, threadVars

LEMMA PreprocessOrder ==
  ASSUME IInv, OrderInv, NEW f \in Filters, Preprocess(f) PROVE OrderInv'
<1>1. /\ apc = "attaching" /\ f \in todo /\ f \notin sched /\ sched' = sched \cup {f}
      /\ lastTick' = [lastTick EXCEPT ![f] = 0]
      /\ UNCHANGED <<links, data, postponed, erased, listVars, threadVars, appVars>>
  BY DEF Preprocess
<1>2. Attached' = Attached /\ f \notin Attached
  BY <1>1 DEF Attached, appVars
<1>3. /\ \A g \in Filters : lastTick'[g] = IF g = f THEN 0 ELSE lastTick[g]
      /\ Attached \subseteq Filters /\ todo \subseteq Filters
  BY <1>1 DEF IInv, TypeOK, Attached
<1>4. FreshInv'
  BY <1>1, <1>2, <1>3 DEF OrderInv, FreshInv, listVars, appVars
<1>5. \A g : Succs(g)' = Succs(g) /\ Preds(g)' = Preds(g)
  BY <1>1 DEF Succs, Preds
<1>6. \A g \in Attached : lastTick'[g] = lastTick[g]
  BY <1>2, <1>3
<1> QED
  BY <1>1, <1>2, <1>4, <1>5, <1>6, AppKeepsOrder DEF listVars, threadVars

LEMMA PostprocessOrder ==
  ASSUME IInv, OrderInv, NEW f \in Filters, Postprocess(f) PROVE OrderInv'
<1>1. /\ apc = "detaching" /\ f \in todo /\ sched' = sched \ {f} /\ todo' = todo \ {f}
      /\ apc' \in {"idle", "detaching"}
      /\ UNCHANGED <<links, data, lastTick, postponed, exec, ticks, run,
                     tpc, cur, visit, unsched, force, done>>
  BY DEF Postprocess, RemoveTasks
<1>2. Attached' = Attached
  BY <1>1 DEF Attached
<1>3. FreshInv'
  BY <1>1, <1>2 DEF OrderInv, FreshInv
<1>4. \A g : Succs(g)' = Succs(g) /\ Preds(g)' = Preds(g)
  BY <1>1 DEF Succs, Preds
<1> QED
  BY <1>1, <1>2, <1>3, <1>4, AppKeepsOrder

LEMMA StopOrder == ASSUME IInv, OrderInv, Stop \/ Join PROVE OrderInv'
<1>1. /\ UNCHANGED <<todo, exec, tasks, ticks, filterVars, threadVars>>
      /\ apc' \in {"stopping", "stopped"}
  BY DEF Stop, Join, listVars
<1>2. Attached' = Attached /\ \A g : Succs(g)' = Succs(g) /\ Preds(g)' = Preds(g)
  BY <1>1 DEF Attached, Succs, Preds, filterVars
<1>3. FreshInv'
  BY <1>1, <1>2 DEF OrderInv, FreshInv
<1> QED
  BY <1>1, <1>2, <1>3, AppKeepsOrder DEF filterVars, threadVars

\* A graph that is published has not been called: what the called ones are does
\* not change.
LEMMA PublishOrder == ASSUME IInv, OrderInv, Publish PROVE OrderInv'
<1>1. /\ apc = "attaching" /\ todo \subseteq sched /\ ~Locked
      /\ exec' = exec \cup (todo \cap Sources) /\ apc' = "idle" /\ todo' = {}
      /\ UNCHANGED <<tasks, ticks, run, filterVars, threadVars>>
  BY DEF Publish
<1>2. Attached' = Attached \cup todo
  BY <1>1 DEF Attached, filterVars
<1>3. \A f \in todo : lastTick[f] = 0
  BY <1>1 DEF OrderInv, FreshInv
<1>4. Called' = Called /\ Called \cap todo = {}
  BY <1>1, <1>2, <1>3 DEF Called, filterVars
<1>5. tpc \in {"sleep", "exited"} /\ tpc' = tpc
  BY <1>1 DEF Locked, IInv, TypeOK, threadVars
<1>6. FreshInv'
  BY <1>1, <1>2 DEF OrderInv, FreshInv
<1>7. RestInv'
  <2>1. \A S : Leads(Called, S)' = Leads(Called, S)
    BY <1>1, <1>4 DEF Leads, Succs, filterVars
  <2>2. \A f : Succs(f)' = Succs(f)
    BY <1>1 DEF Succs, filterVars
  <2> QED BY <1>1, <1>2, <1>3, <1>4, <1>5, <2>1, <2>2 DEF OrderInv, RestInv, filterVars
<1>8. RoundInv' /\ EndInv' /\ TameInv'
  BY <1>5 DEF RoundInv, EndInv, TameInv
<1> QED
  BY <1>6, <1>7, <1>8 DEF OrderInv

\* A graph that is detached takes all its called filters and sources along.
LEMMA DetachOrder == ASSUME IInv, OrderInv, NEW f \in Filters, Detach(f) PROVE OrderInv'
<1> DEFINE N == Neighbours(f)
<1>1. /\ apc = "idle" /\ todo = {} /\ f \in sched /\ ~Locked
      /\ exec' = exec \ N /\ apc' = "detaching" /\ todo' = N
      /\ UNCHANGED <<tasks, ticks, run, filterVars, threadVars>>
  BY DEF IInv, GraphInv, Detach
<1>2. Closed(N) /\ N \subseteq Filters
  BY NeighboursClosed, NeighboursLemma DEF IInv
<1> HIDE DEF N
<1>3. Attached' = Attached \ N
  BY <1>1 DEF Attached, filterVars
<1>4. Called' = Called \ N
  BY <1>1, <1>3 DEF Called, filterVars
<1>5. tpc \in {"sleep", "exited"} /\ tpc' = tpc
  BY <1>1 DEF Locked, IInv, TypeOK, threadVars
<1>6. FreshInv'
  BY <1>1, <1>3 DEF OrderInv, FreshInv
<1>s. \A g : Succs(g)' = Succs(g)
  BY <1>1 DEF Succs, filterVars
<1>n. \A g \in Filters : g \in N => Succs(g) \subseteq N
  BY <1>2 DEF Closed, Succs
<1>m. \A g \in Filters : g \notin N => Succs(g) \cap N = {}
  BY <1>2 DEF Closed, Succs
<1>c. Called \subseteq Filters
  BY DEF Called, Attached, IInv, TypeOK
<1>7. RestInv'
  <2>1. \A g \in Attached' : lastTick'[g] \in {0, ticks'}
    BY <1>1, <1>3, <1>5 DEF OrderInv, RestInv, filterVars
  <2>2. \A g \in Called' : Succs(g)' \subseteq Called'
    BY <1>4, <1>5, <1>s, <1>m, <1>c DEF OrderInv, RestInv
  <2>3. ASSUME NEW S \in SUBSET Filters, Leads(Called, S)'
        PROVE  Called' \subseteq S
    <3>1. exec \cap Called \subseteq S \cup N
      BY <1>1, <1>4, <2>3 DEF Leads
    <3>2. \A g \in (S \cup N) \cap Called : Succs(g) \subseteq S \cup N
      BY <1>4, <1>s, <1>n, <1>c, <2>3 DEF Leads
    <3>3. S \cup N \in SUBSET Filters
      BY <1>2
    <3> QED BY <1>4, <1>5, <3>1, <3>2, <3>3 DEF Leads, OrderInv, RestInv
  <2> QED BY <2>1, <2>2, <2>3 DEF RestInv
<1>8. RoundInv' /\ EndInv' /\ TameInv'
  BY <1>5 DEF RoundInv, EndInv, TameInv
<1> QED
  BY <1>6, <1>7, <1>8 DEF OrderInv

-----------------------------------------------------------------------------
(* The steps of the ticker's thread.                                       *)

\* A step that attaches, calls and links nothing.
LEMMA SameSets ==
  ASSUME OrderInv, UNCHANGED <<links, sched, lastTick, exec, ticks, apc, todo, done>>
  PROVE  /\ FreshInv' /\ Attached' = Attached /\ Called' = Called /\ Due' = Due
         /\ \A S : Leads(Called, S)' = Leads(Called, S)
         /\ \A S : Leads(Due, S)' = Leads(Due, S)
         /\ \A f : Succs(f)' = Succs(f) /\ Preds(f)' = Preds(f) /\ CanProcess(f)' = CanProcess(f)
         /\ TameAttached' = TameAttached
<1>1. Attached' = Attached /\ \A f : Succs(f)' = Succs(f) /\ Preds(f)' = Preds(f)
  BY DEF Attached, Succs, Preds
<1>2. Called' = Called /\ Due' = Due /\ FreshInv'
  BY <1>1 DEF Called, Due, OrderInv, FreshInv
<1>3. \A f : CanProcess(f)' = CanProcess(f)
  BY <1>1 DEF CanProcess
<1>4. TameAttached' = TameAttached
  BY <1>1 DEF TameAttached
<1> QED
  BY <1>1, <1>2, <1>3, <1>4 DEF Leads

LEMMA TickOrder == ASSUME IInv, OrderInv, Tick PROVE OrderInv'
<1>1. tpc = "top" /\ UNCHANGED <<exec, tasks, run, cur, visit, unsched, force, filterVars, appVars>>
  BY DEF Tick
<1>2. CASE ~run
  <2>1. tpc' = "exited" /\ UNCHANGED <<ticks, done>>
    BY <1>2 DEF Tick
  <2>2. /\ FreshInv' /\ Attached' = Attached /\ Called' = Called
        /\ \A S : Leads(Called, S)' = Leads(Called, S)
        /\ \A f : Succs(f)' = Succs(f)
    BY <1>1, <2>1, SameSets DEF filterVars, appVars
  <2>3. RestInv'
    BY <1>1, <2>1, <2>2 DEF OrderInv, RestInv, filterVars
  <2> QED BY <2>1, <2>2, <2>3 DEF OrderInv, RoundInv, EndInv, TameInv
<1>3. CASE run
  <2>1. ticks' = (ticks + 1) % TickMod /\ tpc' = "tasks" /\ done' = {}
    BY <1>3 DEF Tick
  <2>2. ticks' # ticks
    BY <2>1, TickerAssumption DEF IInv, TypeOK
  <2>3. Attached' = Attached /\ \A f : Succs(f)' = Succs(f)
    BY <1>1 DEF Attached, Succs, filterVars, appVars
  <2>4. Called' = Called /\ Called \subseteq Attached
    BY <1>1, <2>3 DEF Called, filterVars
  <2>5. FreshInv'
    BY <1>1, <2>3 DEF OrderInv, FreshInv, filterVars, appVars
  <2>6. Due' = IF ticks' = 0 THEN Called ELSE Attached
    BY <1>1, <2>1, <2>2, <2>3 DEF Due, Called, OrderInv, RestInv, filterVars
  <2>7. \A f \in Due' : Succs(f)' \subseteq Due'
    BY <1>1, <2>3, <2>6, AttachedNeighbours DEF OrderInv, RestInv
  <2>8. ASSUME NEW S \in SUBSET Filters, Leads(Due, S)' PROVE Called \subseteq S
    <3>1. Leads(Called, S)
      BY <1>1, <2>3, <2>4, <2>6, <2>8 DEF Leads
    <3> QED BY <1>1, <3>1 DEF OrderInv, RestInv
  <2>9. visit' = {} /\ unsched' = {}
    BY <1>1 DEF IInv, ReachInv
  <2>10. RoundInv'
    BY <2>1, <2>3, <2>4, <2>6, <2>7, <2>8, <2>9 DEF RoundInv
  <2> QED BY <2>1, <2>5, <2>10 DEF OrderInv, RestInv, EndInv, TameInv
<1> QED
  BY <1>2, <1>3

LEMMA TaskOrder ==
  ASSUME IInv, OrderInv, TaskReturns \/ \E f \in Filters : RunTask(f) PROVE OrderInv'
<1>1. /\ tpc \in {"tasks", "task"} /\ tpc' \in {"tasks", "task"}
      /\ UNCHANGED <<links, sched, lastTick, visit, unsched, force, done, listVars, appVars>>
  BY DEF TaskReturns, RunTask, filterVars
<1>2. /\ FreshInv' /\ Attached' = Attached /\ Called' = Called /\ Due' = Due
      /\ \A S : Leads(Due, S)' = Leads(Due, S)
      /\ \A f : Succs(f)' = Succs(f)
  BY <1>1, SameSets DEF listVars, appVars
<1>3. RoundInv'
  BY <1>1, <1>2 DEF OrderInv, RoundInv, listVars
<1> QED
  BY <1>1, <1>2, <1>3 DEF OrderInv, RestInv, EndInv, TameInv

LEMMA TasksDoneOrder == ASSUME IInv, OrderInv, TasksDone PROVE OrderInv'
<1>1. /\ tpc = "tasks" /\ tpc' = "graph" /\ visit' = exec /\ unsched' = {} /\ force' = FALSE
      /\ UNCHANGED <<exec, ticks, done, filterVars, appVars>>
  BY DEF TasksDone
<1>2. /\ FreshInv' /\ Attached' = Attached /\ Called' = Called /\ Due' = Due
      /\ \A S : Leads(Due, S)' = Leads(Due, S)
      /\ \A f : Succs(f)' = Succs(f)
  BY <1>1, SameSets DEF filterVars, appVars
<1>3. done = {} /\ done' = {}
  BY <1>1 DEF OrderInv, RoundInv
<1>4. RoundInv'
  <2>1. \A S \in SUBSET Filters : Leads(Due, S) => Called \cup (exec \cap Due) \subseteq S
    BY <1>1 DEF OrderInv, RoundInv, Leads
  <2> QED BY <1>1, <1>2, <1>3, <2>1 DEF OrderInv, RoundInv
<1>5. TameInv'
  BY <1>1, <1>3 DEF TameInv
<1> QED
  BY <1>1, <1>2, <1>4, <1>5 DEF OrderInv, RestInv, EndInv

LEMMA UnlockOrder == ASSUME IInv, OrderInv, Unlock \/ Wake PROVE OrderInv'
<1>1. /\ tpc \in {"unlock", "sleep"} /\ tpc' \in {"sleep", "top"}
      /\ UNCHANGED <<done, filterVars, listVars, appVars>>
  BY DEF Unlock, Wake
<1>2. /\ FreshInv' /\ Attached' = Attached /\ Called' = Called
      /\ \A S : Leads(Called, S)' = Leads(Called, S)
      /\ \A f : Succs(f)' = Succs(f)
  BY <1>1, SameSets DEF filterVars, listVars, appVars
<1>3. RestInv'
  BY <1>1, <1>2 DEF OrderInv, RestInv, filterVars, listVars
<1> QED
  BY <1>1, <1>2, <1>3 DEF OrderInv, RoundInv, EndInv, TameInv

\* In a round whose filters to look at are used up, with no loop among the attached
\* filters and every input fed: what has not been called could be called.
LEMMA AllReached ==
  ASSUME IInv, OrderInv, tpc = "graph", visit = {}, ~force, ticks # 0, TameAttached
  PROVE  Attached \subseteq done
<1> SUFFICES ASSUME Attached \ done # {} PROVE FALSE
  OBVIOUS
<1>1. PICK f \in Attached \ done : Preds(f) \cap (Attached \ done) = {}
  BY DEF TameAttached
<1>2. Preds(f) \subseteq done
  BY <1>1, AttachedNeighbours
<1>3. CanProcess(f)
  BY <1>2 DEF CanProcess, OrderInv, RoundInv
<1>4. f \in unsched
  <2>1. CASE f \in Sources
    BY <1>1, <2>1 DEF OrderInv, FreshInv, RoundInv
  <2>2. CASE Preds(f) # {}
    <3>1. PICK g \in done : f \in Succs(g)
      BY <1>1, <1>2, <2>2 DEF Preds, Succs, IInv, TypeOK, Attached
    <3> QED BY <1>1, <3>1 DEF OrderInv, RoundInv
  <2> QED BY <1>1, <2>1, <2>2 DEF TameAttached
<1> QED
  BY <1>1, <1>3, <1>4 DEF OrderInv, TameInv

LEMMA RunGraphsEndOrder == ASSUME IInv, OrderInv, RunGraphsEnd PROVE OrderInv'
<1>1. /\ tpc = "graph" /\ visit = {}
      /\ UNCHANGED <<pending, cur, done, filterVars, listVars, appVars>>
  BY DEF RunGraphsEnd
<1>2. /\ FreshInv' /\ Attached' = Attached /\ Called' = Called /\ Due' = Due
      /\ \A S : Leads(Called, S)' = Leads(Called, S)
      /\ \A S : Leads(Due, S)' = Leads(Due, S)
      /\ \A f : Succs(f)' = Succs(f) /\ Preds(f)' = Preds(f) /\ CanProcess(f)' = CanProcess(f)
      /\ TameAttached' = TameAttached
  BY <1>1, SameSets DEF filterVars, listVars, appVars
<1>3. CASE unsched # {}
  <2>1. visit' = unsched /\ unsched' = {} /\ force' = TRUE /\ tpc' = tpc
    BY <1>3 DEF RunGraphsEnd
  <2>2. RoundInv'
    BY <1>1, <1>2, <2>1 DEF OrderInv, RoundInv, filterVars, listVars
  <2>3. TameInv'
    <3> SUFFICES ASSUME ticks # 0, TameAttached
                 PROVE  /\ \A f \in done : Preds(f) \subseteq done
                        /\ Attached \subseteq done
                        /\ \A l \in data : l[2] \in done => l[2] \in Posters \cup Pumps
      BY <1>1, <1>2, <2>1 DEF TameInv, filterVars, listVars
    <3>1. Attached \subseteq done
      BY <1>1, AllReached DEF OrderInv, TameInv, IInv, TypeOK
    <3> QED BY <1>1, <3>1 DEF OrderInv, TameInv
  <2> QED BY <1>1, <1>2, <2>1, <2>2, <2>3 DEF OrderInv, RestInv, EndInv
<1>4. CASE unsched = {}
  <2>1. tpc' = "unlock" /\ UNCHANGED <<visit, unsched, force>>
    BY <1>4 DEF RunGraphsEnd
  <2>2. /\ exec \cap Due \subseteq done /\ \A g \in done : Succs(g) \subseteq done
        /\ done \subseteq Attached /\ \A g \in done : lastTick[g] = ticks
    BY <1>1, <1>4 DEF OrderInv, RoundInv
  <2>3. Called \subseteq done
    <3>1. Leads(Due, done)
      BY <2>2 DEF Leads
    <3> QED BY <1>1, <3>1 DEF OrderInv, RoundInv, IInv, TypeOK
  <2>4. Called = IF ticks = 0 THEN {} ELSE done
    BY <2>2, <2>3 DEF Called
  <2>5. ASSUME NEW S \in SUBSET Filters, Leads(Called, S), ticks # 0 PROVE Called \subseteq S
    <3>1. exec \cap Due \subseteq S \cap done
      BY <2>2, <2>4, <2>5 DEF Leads
    <3>2. \A g \in S \cap done : Succs(g) \subseteq S \cap done
      BY <2>2, <2>4, <2>5 DEF Leads
    <3>3. Leads(Due, S \cap done)
      BY <3>1, <3>2 DEF Leads
    <3>4. S \cap done \in SUBSET Filters
      OBVIOUS
    <3> QED BY <1>1, <3>3, <3>4 DEF OrderInv, RoundInv
  <2>6. RestInv'
    <3>1. \A f \in Attached : lastTick[f] \in {0, ticks}
      BY <2>2, <2>3 DEF Called
    <3>2. \A f \in Called : Succs(f) \subseteq Called
      BY <2>2, <2>4
    <3>3. \A S \in SUBSET Filters : Leads(Called, S) => Called \subseteq S
      BY <2>4, <2>5
    <3> QED BY <1>1, <1>2, <3>1, <3>2, <3>3 DEF RestInv, filterVars, listVars
  <2>7. EndInv'
    <3>1. ticks # 0 => exec \subseteq done
      BY <1>1, <2>2 DEF OrderInv, RoundInv, IInv, ReachInv
    <3> QED BY <1>1, <1>2, <2>2, <3>1 DEF EndInv, AllCalled, listVars
  <2>8. TameInv'
    BY <1>1, <1>2, <2>1 DEF OrderInv, TameInv, filterVars, listVars
  <2> QED BY <1>2, <2>1, <2>6, <2>7, <2>8 DEF OrderInv, RoundInv
<1> QED
  BY <1>3, <1>4

\* A filter that is looked at and not called.
LEMMA PassOverOrder ==
  ASSUME IInv, OrderInv, NEW f \in Filters, RunGraph(f), SetAside(f) \/ AlreadyRun(f)
  PROVE  OrderInv'
<1>1. /\ tpc = "graph" /\ tpc' = "graph" /\ f \in visit /\ visit' = visit \ {f}
      /\ UNCHANGED <<links, sched, exec, ticks, force, apc, todo, data, lastTick, done>>
  BY DEF RunGraph, SetAside, AlreadyRun, appVars
<1>2. /\ FreshInv' /\ Attached' = Attached /\ Called' = Called /\ Due' = Due
      /\ \A S : Leads(Due, S)' = Leads(Due, S)
      /\ \A g : Succs(g)' = Succs(g) /\ Preds(g)' = Preds(g) /\ CanProcess(g)' = CanProcess(g)
      /\ TameAttached' = TameAttached
  BY <1>1, SameSets
<1>3. \/ unsched' = unsched \cup {f} /\ ~CanProcess(f)
      \/ unsched' = unsched /\ (f \in Due => f \in done)
  BY DEF SetAside, AlreadyRun, Due
<1>f. f \in Attached
  BY <1>1 DEF IInv, ReachInv
<1>4. RoundInv'
  <2>1. visit' \cup unsched' \subseteq visit \cup unsched
    BY <1>1, <1>3
  <2>2. (visit \cup unsched) \cap Due \subseteq done \cup visit' \cup unsched'
    BY <1>1, <1>3
  <2>3. done \subseteq Due
    BY DEF Due
  <2>4. \A S \in SUBSET Filters : Leads(Due, S) =>
          Called \cup done \cup ((visit' \cup unsched') \cap Due) \subseteq S
    BY <1>1, <2>1 DEF OrderInv, RoundInv
  <2>5. exec \cap Due \subseteq done \cup visit' \cup unsched'
    BY <1>1, <2>2 DEF OrderInv, RoundInv
  <2>6. \A g \in done : Succs(g) \subseteq done \cup visit' \cup unsched'
    BY <1>1, <2>2, <2>3 DEF OrderInv, RoundInv
  <2> QED BY <1>1, <1>2, <2>4, <2>5, <2>6 DEF OrderInv, RoundInv
<1>5. TameInv'
  <2> SUFFICES ASSUME ticks # 0, TameAttached, ~force, NEW g \in unsched' \ (done \cup visit')
               PROVE  ~CanProcess(g)
    BY <1>1, <1>2 DEF OrderInv, TameInv
  <2>1. f \in Due
    BY <1>1, <1>f DEF OrderInv, RoundInv
  <2> QED BY <1>1, <1>3, <2>1 DEF OrderInv, TameInv
<1> QED
  BY <1>1, <1>2, <1>4, <1>5 DEF OrderInv, RestInv, EndInv

\* A filter that is called has not been called in this tick, and those that feed it
\* have, unless there is a loop or an input that nothing feeds.
LEMMA CalledInOrder ==
  ASSUME IInv, OrderInv, NEW f \in Filters, RunGraph(f), RunFilter(f)
  PROVE  /\ f \in Attached /\ f \notin done /\ f \in Due
         /\ ticks # 0 /\ TameAttached => ~force /\ Preds(f) \subseteq done
<1>1. tpc = "graph" /\ f \in Attached /\ lastTick[f] # ticks /\ (CanProcess(f) \/ force)
  BY DEF RunGraph, RunFilter, IInv, ReachInv
<1>2. f \notin done /\ f \in Due
  BY <1>1 DEF OrderInv, RoundInv, Due
<1>3. ASSUME ticks # 0, TameAttached PROVE ~force /\ Preds(f) \subseteq done
  <2>1. ~force
    BY <1>1, <1>2, <1>3 DEF OrderInv, TameInv
  <2>2. \A g \in Preds(f) : lastTick[g] = ticks /\ g \in Attached
    BY <1>1, <2>1, AttachedNeighbours DEF CanProcess
  <2>3. Attached \subseteq Due
    BY <1>1, <1>3 DEF OrderInv, RoundInv
  <2> QED BY <2>1, <2>2, <2>3 DEF Due
<1> QED
  BY <1>1, <1>2, <1>3

LEMMA RunFilterOrder ==
  ASSUME IInv, OrderInv, NEW f \in Filters, RunGraph(f), RunFilter(f) PROVE OrderInv'
<1>1. /\ tpc = "graph" /\ tpc' = "graph" /\ f \in visit
      /\ visit' = (visit \ {f}) \cup Succs(f) /\ done' = done \cup {f}
      /\ lastTick' = [lastTick EXCEPT ![f] = ticks]
      /\ UNCHANGED <<links, sched, exec, ticks, force, apc, todo, unsched>>
  BY DEF RunGraph, RunFilter, CallProcess, appVars
<1>2. /\ f \in Attached /\ f \notin done /\ f \in Due
      /\ ticks # 0 /\ TameAttached => ~force /\ Preds(f) \subseteq done
  BY CalledInOrder
<1>3. /\ Attached' = Attached /\ Attached \subseteq Filters
      /\ \A g : Succs(g)' = Succs(g) /\ Preds(g)' = Preds(g)
  BY <1>1 DEF Attached, Succs, Preds, IInv, TypeOK
<1>4. \A g \in Filters : lastTick'[g] = IF g = f THEN ticks ELSE lastTick[g]
  BY <1>1 DEF IInv, TypeOK
<1>5. Due' = Due
  BY <1>1, <1>2, <1>3, <1>4 DEF Due
<1>6. Called' \subseteq Called \cup {f}
  BY <1>3, <1>4 DEF Called
<1>7. FreshInv'
  <2>1. apc = "attaching" => f \notin todo
    BY <1>2 DEF Attached
  <2>2. sched \subseteq Filters
    BY DEF IInv, TypeOK
  <2> QED BY <1>1, <1>3, <1>4, <2>1, <2>2 DEF OrderInv, FreshInv
<1>8. RoundInv'
  <2>1. done' \subseteq Attached' /\ \A g \in done' : lastTick'[g] = ticks'
    BY <1>1, <1>2, <1>3, <1>4 DEF OrderInv, RoundInv
  <2>2. \A g \in Due : Succs(g) \subseteq Due
    BY <1>1 DEF OrderInv, RoundInv
  <2>3. ticks # 0 => Attached \subseteq Due
    BY <1>1 DEF OrderInv, RoundInv
  <2>4. ASSUME NEW S \in SUBSET Filters, Leads(Due, S)'
        PROVE  Called' \cup done' \cup ((visit' \cup unsched') \cap Due) \subseteq S
    <3>1. Leads(Due, S)
      BY <1>1, <1>3, <1>5, <2>4 DEF Leads
    <3>2. Called \cup done \cup ((visit \cup unsched) \cap Due) \subseteq S
      BY <1>1, <3>1 DEF OrderInv, RoundInv
    <3>3. f \in S
      BY <1>1, <1>2, <3>2
    <3>4. Succs(f) \subseteq S
      BY <1>2, <3>1, <3>3 DEF Leads
    <3> QED BY <1>1, <1>6, <3>2, <3>3, <3>4
  <2>5. exec \cap Due \subseteq done' \cup visit' \cup unsched'
    BY <1>1 DEF OrderInv, RoundInv
  <2>6. \A g \in done' : Succs(g) \subseteq done' \cup visit' \cup unsched'
    BY <1>1 DEF OrderInv, RoundInv
  <2> QED BY <1>1, <1>3, <1>5, <2>1, <2>2, <2>3, <2>4, <2>5, <2>6 DEF RoundInv
<1>9. TameInv'
  <2>1. TameAttached' = TameAttached
    BY <1>3 DEF TameAttached
  <2> SUFFICES ASSUME ticks # 0, TameAttached
               PROVE  /\ \A g \in unsched \ (done' \cup visit') : ~CanProcess(g)'
                      /\ \A g \in done' : Preds(g) \subseteq done'
                      /\ \A l \in data' : l[2] \in done' => l[2] \in Posters \cup Pumps
    BY <1>1, <1>2, <1>3, <2>1 DEF TameInv
  <2>2. ASSUME NEW g \in unsched \ (done' \cup visit') PROVE ~CanProcess(g)'
    <3>1. ~CanProcess(g)
      BY <1>1, <1>2, <2>2 DEF OrderInv, TameInv
    <3>2. g \in Filters
      BY DEF IInv, TypeOK
    <3>3. PICK h \in Preds(g) : lastTick[h] # ticks
      BY <3>1 DEF CanProcess
    <3>4. h # f /\ h \in Filters
      BY <1>1, <2>2, <3>2, <3>3 DEF Succs, Preds
    <3> QED BY <1>1, <1>3, <1>4, <3>3, <3>4 DEF CanProcess
  <2>3. \A g \in done : Preds(g) \subseteq done
    BY <1>1 DEF OrderInv, TameInv
  <2>4. \A g \in done' : Preds(g) \subseteq done'
    BY <1>1, <1>2, <2>3
  <2>5. ASSUME NEW l \in data', l[2] \in done' PROVE l[2] \in Posters \cup Pumps
    <3>1. PICK made \in SUBSET Outputs(f), left \in SUBSET Inputs(f), post \in {0, 1} :
            /\ post = 1 => f \in Posters
            /\ left # {} => f \in Pumps \/ postponed[f] + post > 0
            /\ data' = (data \ (Inputs(f) \ left)) \cup made
      BY DEF RunFilter, CallProcess
    <3>2. l \notin made
      <4> SUFFICES ASSUME l \in Outputs(f) PROVE FALSE
        BY <3>1
      <4>1. l = <<f, l[2]>> /\ l \in links
        BY TickerAssumption DEF Outputs, IInv, TypeOK
      <4>2. f \in Preds(l[2])
        BY <4>1 DEF Preds
      <4> QED BY <1>1, <1>2, <2>3, <2>5, <4>2
    <3>3. l \in data /\ l \in links /\ (l \in Inputs(f) => l \in left)
      BY <3>1, <3>2 DEF IInv, TypeOK
    <3>4. CASE l[2] = f
      <4>1. f \in Pumps \/ postponed[f] + post > 0
        BY <3>1, <3>3, <3>4 DEF Inputs
      <4>2. postponed[f] + post > 0 => postponed[f] > 0 \/ post = 1
        BY <3>1 DEF IInv, TypeOK
      <4> QED
        BY <3>1, <3>4, <4>1, <4>2 DEF IInv, TaskInv
    <3>5. CASE l[2] \in done
      BY <1>1, <3>3, <3>5 DEF OrderInv, TameInv
    <3> QED BY <1>1, <2>5, <3>4, <3>5
  <2> QED BY <2>2, <2>4, <2>5
<1> QED
  BY <1>1, <1>7, <1>8, <1>9 DEF OrderInv, RestInv, EndInv

-----------------------------------------------------------------------------
(* The tasks.                                                              *)

\* A step that leaves the tasks alone and detaches no filter.
LEMMA CountKept ==
  ASSUME CountInv, UNCHANGED <<postponed, erased, tasks, pending, tpc, cur, done>>,
         sched \subseteq sched'
  PROVE  CountInv'
<1>1. PostponedCount' = PostponedCount
  BY DEF PostponedCount, Waiting, InTasks
<1>2. TasksAttached'
  BY DEF CountInv, TasksAttached, InTasks
<1> QED
  BY <1>1, <1>2 DEF CountInv

\* A filter is detached: what it has in the list is removed and remembered.
LEMMA PostprocessCount ==
  ASSUME IInv, CountInv, NEW f \in Filters, Postprocess(f) PROVE CountInv'
<1>1. /\ sched' = sched \ {f} /\ UNCHANGED <<postponed, tpc, cur, done>>
      /\ tasks' \subseteq tasks
      /\ IF postponed[f] > 0 THEN RemoveTasks(f) ELSE UNCHANGED <<tasks, pending, erased>>
  BY DEF Postprocess, RemoveTasks
<1>2. tpc = "graph" => tasks' \subseteq done
  BY <1>1 DEF CountInv
<1>3. TasksAttached'
  <2> SUFFICES ASSUME ~ InTasks PROVE tasks' \subseteq sched \ {f}
    BY <1>1 DEF TasksAttached, InTasks
  <2>1. tasks \subseteq sched /\ \A g \in tasks : postponed[g] > 0
    BY DEF CountInv, TasksAttached, InTasks, IInv, TaskInv
  <2>2. f \notin tasks'
    BY <1>1, <2>1 DEF RemoveTasks
  <2> QED BY <1>1, <2>1, <2>2
<1>4. PostponedCount'
  <2>1. CASE UNCHANGED <<tasks, pending, erased>>
    BY <1>1, <2>1 DEF CountInv, PostponedCount, Waiting, InTasks
  <2>2. CASE /\ tasks' = tasks \ {f} /\ pending' = pending \ {f}
             /\ erased' = [erased EXCEPT ![f] = @ + (IF f \in Waiting THEN 1 ELSE 0)]
    <3>1. Waiting' = Waiting \ {f}
      BY <1>1, <2>2 DEF Waiting, InTasks
    <3>2. cur \notin Waiting \/ cur = NoFilter
      BY DEF IInv, TaskInv, TypeOK, Waiting, InTasks
    <3> SUFFICES ASSUME NEW g \in Filters
                 PROVE  postponed[g] = (IF g \in Waiting' \cup {cur} THEN 1 ELSE 0) + erased'[g]
      BY <1>1 DEF PostponedCount
    <3>3. /\ postponed[g] = (IF g \in Waiting \cup {cur} THEN 1 ELSE 0) + erased[g]
          /\ erased[g] \in Nat /\ g # NoFilter
      BY TickerAssumption DEF CountInv, PostponedCount, IInv, TypeOK
    <3>4. CASE g = f /\ f \in Waiting
      <4>1. erased'[g] = erased[g] + 1
        BY <2>2, <3>4 DEF IInv, TypeOK
      <4>2. g \notin Waiting' \cup {cur} /\ g \in Waiting \cup {cur}
        BY <3>1, <3>2, <3>3, <3>4
      <4> QED BY <3>3, <4>1, <4>2
    <3>5. CASE ~ (g = f /\ f \in Waiting)
      <4>1. erased'[g] = erased[g]
        <5>1. CASE g = f
          <6>1. erased'[g] = erased[g] + 0
            BY <2>2, <3>5, <5>1 DEF IInv, TypeOK
          <6> QED BY <3>3, <6>1
        <5>2. CASE g # f
          BY <2>2, <5>2 DEF IInv, TypeOK
        <5> QED BY <5>1, <5>2
      <4>2. g \in Waiting' \cup {cur} <=> g \in Waiting \cup {cur}
        BY <3>1, <3>5
      <4> QED BY <3>3, <4>1, <4>2
    <3> QED BY <3>4, <3>5
  <2> QED BY <1>1, <2>1, <2>2 DEF RemoveTasks
<1> QED
  BY <1>1, <1>2, <1>3, <1>4 DEF CountInv

LEMMA AppCount == ASSUME IInv, CountInv, AppStep PROVE CountInv'
<1>1. CASE \/ \E l \in Wires : Link(l) \/ Unlink(l)
           \/ \E f \in Filters : Attach(f) \/ Preprocess(f) \/ Detach(f)
           \/ Publish \/ Stop \/ Join
  <2>1. sched \subseteq sched' /\ UNCHANGED <<postponed, erased, tasks, threadVars>>
    BY <1>1 DEF Link, Unlink, Attach, Preprocess, Detach, Publish, Stop, Join, filterVars, listVars
  <2> QED BY <2>1, CountKept DEF threadVars
<1> QED
  BY <1>1, PostprocessCount DEF AppStep

LEMMA TickerCount == ASSUME IInv, OrderInv, CountInv, TickerStep PROVE CountInv'
<1>0. \A f \in Filters : f # NoFilter
  BY TickerAssumption
<1>1. CASE Tick
  <2>1. /\ tpc = "top" /\ UNCHANGED <<tasks, cur, filterVars>>
        /\ (tpc' = "tasks" /\ pending' = tasks) \/ tpc' = "exited"
    BY <1>1 DEF Tick
  <2>2. Waiting = tasks /\ Waiting' = tasks
    BY <2>1 DEF Waiting, InTasks
  <2> QED
    BY <2>1, <2>2 DEF CountInv, PostponedCount, TasksAttached, InTasks, filterVars
<1>2. ASSUME NEW f \in Filters, RunTask(f) PROVE CountInv'
  <2>1. /\ tpc = "tasks" /\ f \in pending /\ tpc' = "task" /\ cur' = f
        /\ pending' = pending \ {f} /\ UNCHANGED filterVars
    BY <1>2 DEF RunTask
  <2>2. cur = NoFilter
    BY <2>1 DEF IInv, TypeOK
  <2>3. \A g \in Filters : g \in Waiting' \cup {cur'} <=> g \in Waiting \cup {cur}
    BY <1>0, <2>1, <2>2 DEF Waiting, InTasks
  <2> QED
    BY <2>1, <2>3 DEF CountInv, PostponedCount, TasksAttached, InTasks, filterVars
<1>3. CASE TaskReturns
  <2>1. /\ tpc = "task" /\ tpc' = "tasks" /\ cur' = NoFilter
        /\ postponed' = [postponed EXCEPT ![cur] = @ - 1]
        /\ UNCHANGED <<pending, erased>>
    BY <1>3 DEF TaskReturns
  <2>2. cur \in Filters /\ cur \notin pending /\ Waiting = pending /\ Waiting' = pending
    BY <2>1 DEF IInv, TypeOK, TaskInv, Waiting, InTasks
  <2>3. ASSUME NEW g \in Filters
        PROVE  postponed'[g] = (IF g \in Waiting' \cup {cur'} THEN 1 ELSE 0) + erased'[g]
    <3>1. /\ postponed[g] = (IF g \in Waiting \cup {cur} THEN 1 ELSE 0) + erased[g]
          /\ erased[g] \in Nat /\ g # NoFilter
      BY <1>0 DEF CountInv, PostponedCount, IInv, TypeOK
    <3>2. postponed'[g] = IF g = cur THEN postponed[g] - 1 ELSE postponed[g]
      BY <2>1 DEF IInv, TypeOK
    <3> QED BY <2>1, <2>2, <3>1, <3>2
  <2> QED BY <2>1, <2>3 DEF CountInv, PostponedCount, TasksAttached, InTasks
<1>4. CASE TasksDone
  <2>1. /\ tpc = "tasks" /\ pending = {} /\ tpc' = "graph" /\ tasks' = {}
        /\ UNCHANGED <<cur, filterVars>>
    BY <1>4 DEF TasksDone
  <2>2. Waiting = {} /\ Waiting' = {}
    BY <2>1 DEF Waiting, InTasks
  <2> QED
    BY <2>1, <2>2 DEF CountInv, PostponedCount, TasksAttached, filterVars
<1>5. CASE RunGraphsEnd \/ Unlock \/ Wake
  <2>1. /\ tpc \in {"graph", "unlock", "sleep"} /\ tpc' \in {"graph", "unlock", "sleep", "top"}
        /\ tpc' = "graph" => tpc = "graph"
        /\ UNCHANGED <<tasks, cur, done, filterVars>>
    BY <1>5 DEF RunGraphsEnd, Unlock, Wake, listVars
  <2>2. Waiting = tasks /\ Waiting' = tasks
    BY <2>1 DEF Waiting, InTasks
  <2> QED
    BY <2>1, <2>2 DEF CountInv, PostponedCount, TasksAttached, InTasks, filterVars
<1>6. ASSUME NEW f \in Filters, RunGraph(f), SetAside(f) \/ AlreadyRun(f) PROVE CountInv'
  <2>1. UNCHANGED <<postponed, erased, tasks, pending, tpc, cur, done, sched>>
    BY <1>6 DEF RunGraph, SetAside, AlreadyRun
  <2> QED BY <2>1, CountKept
<1>7. ASSUME NEW f \in Filters, RunGraph(f), RunFilter(f) PROVE CountInv'
  <2>1. /\ tpc = "graph" /\ tpc' = "graph" /\ done' = done \cup {f}
        /\ UNCHANGED <<sched, erased, cur>>
    BY <1>7 DEF RunGraph, RunFilter, CallProcess
  <2>2. PICK post \in {0, 1} :
          /\ postponed' = [postponed EXCEPT ![f] = @ + post]
          /\ tasks' = IF post = 1 THEN tasks \cup {f} ELSE tasks
    BY <1>7 DEF RunFilter, CallProcess
  <2>3. f \notin tasks /\ f \in sched
    BY <1>7, <2>1, CalledInOrder DEF CountInv, Attached
  <2>4. Waiting = tasks /\ Waiting' = tasks' /\ cur = NoFilter
    BY <2>1 DEF Waiting, InTasks, IInv, TypeOK
  <2>5. ASSUME NEW g \in Filters
        PROVE  postponed'[g] = (IF g \in Waiting' \cup {cur'} THEN 1 ELSE 0) + erased'[g]
    <3>1. /\ postponed[g] = (IF g \in Waiting \cup {cur} THEN 1 ELSE 0) + erased[g]
          /\ erased[g] \in Nat /\ g # NoFilter
      BY <1>0 DEF CountInv, PostponedCount, IInv, TypeOK
    <3>2. postponed'[g] = IF g = f THEN postponed[g] + post ELSE postponed[g]
      BY <2>2 DEF IInv, TypeOK
    <3> QED BY <2>1, <2>2, <2>3, <2>4, <3>1, <3>2
  <2>6. tasks' \subseteq done' /\ TasksAttached'
    BY <2>1, <2>2, <2>3 DEF CountInv, TasksAttached, InTasks
  <2> QED BY <2>5, <2>6 DEF CountInv, PostponedCount
<1> QED
  BY <1>1, <1>2, <1>3, <1>4, <1>5, <1>6, <1>7 DEF TickerStep, RunGraph

-----------------------------------------------------------------------------
LEMMA StutterOrder == ASSUME IInv, OrderInv, CountInv, UNCHANGED vars PROVE OrderInv' /\ CountInv'
<1>1. UNCHANGED <<filterVars, listVars, threadVars, appVars>>
  BY DEF vars
<1>2. /\ FreshInv' /\ Attached' = Attached
      /\ \A f : Succs(f)' = Succs(f) /\ Preds(f)' = Preds(f)
  BY <1>1, SameSets DEF filterVars, listVars, threadVars, appVars
<1>3. OrderInv'
  BY <1>1, <1>2, AppKeepsOrder DEF filterVars, listVars, threadVars
<1>4. CountInv'
  BY <1>1, <1>2, CountKept DEF filterVars, listVars, threadVars
<1> QED
  BY <1>3, <1>4

LEMMA NextOrder == JInv /\ [Next]_vars => JInv'
<1> SUFFICES ASSUME JInv, [Next]_vars PROVE JInv'
  OBVIOUS
<1> USE DEF JInv
<1>1. IInv'
  BY NextInv
<1>2. CASE AppStep
  <2>1. OrderInv'
    BY <1>2, LinkOrder, AttachOrder, PreprocessOrder, PublishOrder, DetachOrder,
       PostprocessOrder, StopOrder DEF AppStep
  <2> QED BY <1>1, <1>2, <2>1, AppCount
<1>3. CASE TickerStep
  <2>1. ASSUME NEW f \in Filters, RunGraph(f) PROVE OrderInv'
    BY <2>1, RunFilterOrder, PassOverOrder DEF RunGraph
  <2>2. OrderInv'
    BY <1>3, <2>1, TickOrder, TaskOrder, TasksDoneOrder, RunGraphsEndOrder, UnlockOrder
       DEF TickerStep
  <2> QED BY <1>1, <1>3, <2>2, TickerCount
<1>4. CASE UNCHANGED vars
  BY <1>1, <1>4, StutterOrder
<1> QED
  BY <1>2, <1>3, <1>4 DEF Next

\* A graph that is tame as a whole is so where it is attached.
LEMMA TameThere == ASSUME IInv, Tame PROVE TameAttached
<1>1. Attached \subseteq sched /\ Attached \subseteq Filters
  BY DEF Attached, IInv, TypeOK
<1> QED
  BY <1>1 DEF Tame, TameAttached

-----------------------------------------------------------------------------
(* The theorems.                                                           *)

\* The invariant of the order of the calls and of the tasks holds in every behaviour.
THEOREM OrderInvariant == Spec => []JInv
  BY InitOrder, NextOrder, PTL DEF Spec

\* Whatever the links, loops included, and whenever graphs are attached and detached
\* in between, a tick calls every filter behind a source of the execution list.
THEOREM EveryFilterCalled == Spec => []AllCalled
<1>1. JInv => AllCalled
  BY DEF JInv, OrderInv, EndInv, AllCalled
<1> QED
  BY <1>1, OrderInvariant, PTL

\* In a graph without loops where every input is fed, call_process() is never called
\* on a filter before it was called on those that feed it.
THEOREM CalledAfterInputs == Spec => AfterInputs
<1> DEFINE A == \A f \in Filters :
                  Tame /\ ticks # 0 /\ f \in done' \ done => Preds(f) \subseteq done
<1>1. JInv /\ [Next]_vars => [A]_vars
  <2> SUFFICES ASSUME JInv, Next, NEW f \in Filters, Tame, ticks # 0, f \in done' \ done
               PROVE  Preds(f) \subseteq done
    OBVIOUS
  <2> USE DEF JInv
  <2>1. CASE AppStep
    BY <2>1 DEF AppStep, Link, Unlink, Attach, Preprocess, Publish, Detach, Postprocess,
                Stop, Join, threadVars
  <2>2. CASE \E g \in Filters : RunGraph(g)
    <3>1. PICK g \in Filters : RunGraph(g)
      BY <2>2
    <3>2. RunFilter(g) /\ f = g
      BY <3>1 DEF RunGraph, RunFilter, CallProcess, SetAside, AlreadyRun
    <3> QED BY <3>1, <3>2, CalledInOrder, TameThere
  <2>3. CASE \/ Tick \/ TaskReturns \/ TasksDone \/ RunGraphsEnd \/ Unlock \/ Wake
             \/ \E g \in Filters : RunTask(g)
    BY <2>3 DEF Tick, TaskReturns, TasksDone, RunGraphsEnd, Unlock, Wake, RunTask
  <2> QED BY <2>1, <2>2, <2>3 DEF Next, TickerStep
<1>2. Spec => [][A]_vars
  BY <1>1, OrderInvariant, PTL DEF Spec
<1> QED
  BY <1>2 DEF AfterInputs

\* In such a graph a tick leaves no data in front of the filters it called, except
\* where a filter postponed its work or takes what it likes.
THEOREM DataFlowsThrough == Spec => []FlowsThrough
<1>1. JInv => FlowsThrough
  BY TameThere DEF JInv, OrderInv, TameInv, FlowsThrough
<1> QED
  BY <1>1, OrderInvariant, PTL

\* Whatever is attached and detached, and whenever, postponed_task is the number of
\* tasks of the filter that wait or run plus those that detachments erased.
THEOREM TasksCounted == Spec => []PostponedCount
<1>1. JInv => PostponedCount
  BY DEF JInv, CountInv
<1> QED
  BY <1>1, OrderInvariant, PTL

\* Whatever is attached and detached, and whenever, no filter that is detached has a
\* task in the list once run_tasks() has returned.
THEOREM TasksOfAttached == Spec => []TasksAttached
<1>1. JInv => TasksAttached
  BY DEF JInv, CountInv
<1> QED
  BY <1>1, OrderInvariant, PTL
=============================================================================
