------------------------------ MODULE EventQueue ------------------------------
(***************************************************************************)
(* The event queue of src/base/eventqueue.c.  Filters notify events from   *)
(* the threads of the tickers (ms_filter_notify); the application thread   *)
(* pumps the queue (ms_event_queue_pump), which calls the callbacks of the *)
(* filter.  A callback is application code: it may destroy filters, its    *)
(* own included, and it may pump again, because stopping a stream does     *)
(* (audio_stream_stop, video_stream_stop).                                 *)
(*                                                                         *)
(* Events are numbers in the order of emission.  A filter that runs        *)
(* belongs to a ticker, whose lock ms_ticker_detach() takes: a filter is   *)
(* detached only between two notifications, and destroyed only when it is  *)
(* detached.                                                               *)
(***************************************************************************)
EXTENDS Naturals, Sequences, FiniteSets

CONSTANTS
  Filters, NoFilter,
  Tickers,       \* the threads that notify
  MaxSize,       \* MS_EVENT_QUEUE_MAX_SIZE
  NCallbacks,    \* asynchronous callbacks registered on every filter
  MaxEvents,     \* bound: number of notifications in a behaviour
  MaxDepth       \* bound: depth of nested pumps (1: callbacks do not pump)

ASSUME EventQueueAssumption ==
  /\ NoFilter \notin Filters
  /\ MaxSize \in Nat /\ MaxEvents \in Nat /\ MaxDepth \in Nat
  /\ NCallbacks \in Nat \ {0} /\ IsFiniteSet(Tickers)

VARIABLES
  q,          \* the events in the queue: records [filter, num]
  notifier,   \* q->current_notifier
  life,       \* "attached", "detached" or "destroyed", for each filter
  tpc, tf,    \* control point of each ticker and the filter it notifies for
  stack,      \* activations of ms_event_queue_pump(), the innermost last
  emitted,    \* number of events notified
  seen,       \* number of the last event given to each callback of each filter
  history     \* what has happened: "nested", a callback pumped; "missed", an event of
              \* a live filter was not given to all its callbacks

vars == <<q, notifier, life, tpc, tf, stack, emitted, seen, history>>

\* cb = 0: the loop of ms_event_queue_pump(); cb = i: the i-th callback runs.
Frame == [filter : Filters \cup {NoFilter}, num : Nat, cb : 0..NCallbacks]
InPump == [filter |-> NoFilter, num |-> 0, cb |-> 0]

\* The fields of the queue and the control points have their types, and no
\* current notifier is left behind when no pump runs (read_event).
TypeOK ==
  /\ q \in Seq([filter : Filters, num : Nat])
  /\ notifier \in Filters \cup {NoFilter}
  /\ life \in [Filters -> {"attached", "detached", "destroyed"}]
  /\ tpc \in [Tickers -> {"idle", "check", "put"}]
  /\ tf \in [Tickers -> Filters \cup {NoFilter}]
  /\ stack \in Seq(Frame) /\ Len(stack) <= MaxDepth
  /\ emitted \in Nat /\ seen \in [Filters \X (1..NCallbacks) -> Nat]
  /\ history \subseteq {"nested", "missed"}
  /\ stack = <<>> => notifier = NoFilter

Init ==
  /\ q = <<>> /\ notifier = NoFilter
  /\ life = [f \in Filters |-> "detached"]
  /\ tpc = [k \in Tickers |-> "idle"] /\ tf = [k \in Tickers |-> NoFilter]
  /\ stack = <<>> /\ emitted = 0
  /\ seen = [x \in Filters \X (1..NCallbacks) |-> 0] /\ history = {}

-----------------------------------------------------------------------------
(* The tickers' threads: ms_filter_notify() and write_event().             *)

\* The synchronous callbacks have run; the event goes to the queue.
Notify(k, f) ==
  /\ tpc[k] = "idle" /\ life[f] = "attached" /\ emitted < MaxEvents
  /\ \A j \in Tickers : tf[j] # f        \* a filter runs in one thread
  /\ tpc' = [tpc EXCEPT ![k] = "check"] /\ tf' = [tf EXCEPT ![k] = f]
  /\ UNCHANGED <<q, notifier, life, stack, emitted, seen, history>>

\* Faulty variant: the limit is not looked at.
CheckRoomNever(k) ==
  /\ tpc[k] = "check"
  /\ tpc' = [tpc EXCEPT ![k] = "put"] /\ UNCHANGED tf
  /\ UNCHANGED <<q, notifier, life, stack, emitted, seen, history>>

\* The size is read without the mutex; a full queue discards the event.
CheckRoom(k) ==
  /\ tpc[k] = "check"
  /\ IF Len(q) > MaxSize
     THEN tpc' = [tpc EXCEPT ![k] = "idle"] /\ tf' = [tf EXCEPT ![k] = NoFilter]
     ELSE tpc' = [tpc EXCEPT ![k] = "put"] /\ UNCHANGED tf
  /\ UNCHANGED <<q, notifier, life, stack, emitted, seen, history>>

\* Faulty variant: the event is put in front.
PutEventFirst(k) ==
  /\ tpc[k] = "put"
  /\ emitted' = emitted + 1
  /\ q' = <<[filter |-> tf[k], num |-> emitted + 1]>> \o q
  /\ tpc' = [tpc EXCEPT ![k] = "idle"] /\ tf' = [tf EXCEPT ![k] = NoFilter]
  /\ UNCHANGED <<notifier, life, stack, seen, history>>

PutEvent(k) ==
  /\ tpc[k] = "put"
  /\ emitted' = emitted + 1
  /\ q' = Append(q, [filter |-> tf[k], num |-> emitted + 1])
  /\ tpc' = [tpc EXCEPT ![k] = "idle"] /\ tf' = [tf EXCEPT ![k] = NoFilter]
  /\ UNCHANGED <<notifier, life, stack, seen, history>>

-----------------------------------------------------------------------------
(* The application thread.                                                 *)

Top == stack[Len(stack)]
ReplaceTop(fr) == [stack EXCEPT ![Len(stack)] = fr]
Pop == SubSeq(stack, 1, Len(stack) - 1)

\* Application code runs: outside any pump or inside a callback.
UserCode == stack # <<>> => Top.cb > 0

\* ms_ticker_attach() and ms_ticker_detach(), which waits for the ticker.
Attach(f) ==
  /\ UserCode /\ life[f] = "detached"
  /\ life' = [life EXCEPT ![f] = "attached"]
  /\ UNCHANGED <<q, notifier, tpc, tf, stack, emitted, seen, history>>

Detach(f) ==
  /\ UserCode /\ life[f] = "attached"
  /\ \A k \in Tickers : tf[k] # f
  /\ life' = [life EXCEPT ![f] = "detached"]
  /\ UNCHANGED <<q, notifier, tpc, tf, stack, emitted, seen, history>>

\* ms_event_queue_clean() keeps the events of the other filters, in their order:
\* keep enumerates their places.
Kept(f) == {i \in 1..Len(q) : q[i].filter # f}
Clean(f) ==
  \E keep \in [1..Cardinality(Kept(f)) -> Kept(f)] :
    /\ \A i, j \in DOMAIN keep : i < j => keep[i] < keep[j]
    /\ q' = [i \in 1..Cardinality(Kept(f)) |-> q[keep[i]]]

\* Faulty variants: the pending events are left in the queue; the filter whose
\* callbacks are running is not marked.
DestroyNoClean(f) ==
  /\ UserCode /\ life[f] = "detached"
  /\ life' = [life EXCEPT ![f] = "destroyed"]
  /\ notifier' = IF notifier = f THEN NoFilter ELSE notifier
  /\ UNCHANGED <<q, tpc, tf, stack, emitted, seen, history>>
DestroyNoMark(f) ==
  /\ UserCode /\ life[f] = "detached"
  /\ life' = [life EXCEPT ![f] = "destroyed"]
  /\ Clean(f)
  /\ UNCHANGED <<notifier, tpc, tf, stack, emitted, seen, history>>

\* ms_filter_destroy() with ms_event_queue_clean().
Destroy(f) ==
  /\ UserCode /\ life[f] = "detached"
  /\ life' = [life EXCEPT ![f] = "destroyed"]
  /\ Clean(f)
  /\ notifier' = IF notifier = f THEN NoFilter ELSE notifier
  /\ UNCHANGED <<tpc, tf, stack, emitted, seen, history>>

\* ms_event_queue_skip().
Skip ==
  /\ UserCode /\ q # <<>> /\ q' = <<>>
  /\ UNCHANGED <<notifier, life, tpc, tf, stack, emitted, seen, history>>

\* ms_event_queue_pump() is called.
Pump ==
  /\ UserCode /\ q # <<>> /\ Len(stack) < MaxDepth
  /\ stack' = Append(stack, InPump)
  /\ history' = IF stack = <<>> THEN history ELSE history \cup {"nested"}
  /\ UNCHANGED <<q, notifier, life, tpc, tf, emitted, seen>>

\* Faulty variant: the event is read and stays in the queue.
ReadEventPeek ==
  /\ stack # <<>> /\ Top.cb = 0
  /\ IF q = <<>>
     THEN stack' = Pop /\ UNCHANGED <<notifier, seen>>
     ELSE /\ notifier' = Head(q).filter
          /\ seen' = [seen EXCEPT ![<<Head(q).filter, 1>>] = Head(q).num]
          /\ stack' = ReplaceTop([filter |-> Head(q).filter, num |-> Head(q).num,
                                  cb |-> 1])
  /\ UNCHANGED <<q, life, tpc, tf, emitted, history>>

\* read_event() takes the first event and enters the first callback, or the
\* queue is empty and the pump returns.
ReadEvent ==
  /\ stack # <<>> /\ Top.cb = 0
  /\ IF q = <<>>
     THEN stack' = Pop /\ UNCHANGED <<q, notifier, seen>>
     ELSE /\ q' = Tail(q)
          /\ notifier' = Head(q).filter
          /\ seen' = [seen EXCEPT ![<<Head(q).filter, 1>>] = Head(q).num]
          /\ stack' = ReplaceTop([filter |-> Head(q).filter, num |-> Head(q).num,
                                  cb |-> 1])
  /\ UNCHANGED <<life, tpc, tf, emitted, history>>

\* Whether callbacks of a live filter are left out when this one returns.
Missed ==
  IF Top.cb < NCallbacks /\ life[Top.filter] # "destroyed" THEN {"missed"} ELSE {}

\* Faulty variant: one callback per event.
CallbackReturnsFirstOnly ==
  /\ stack # <<>> /\ Top.cb > 0
  /\ notifier' = NoFilter /\ stack' = ReplaceTop(InPump)
  /\ history' = history \cup Missed
  /\ UNCHANGED <<q, life, tpc, tf, emitted, seen>>

\* A callback returns to ms_filter_invoke_callbacks(), which goes on unless the
\* current notifier was reset; read_event() resets it after the last one.
CallbackReturns ==
  /\ stack # <<>> /\ Top.cb > 0
  /\ IF notifier # NoFilter /\ Top.cb < NCallbacks
     THEN /\ stack' = ReplaceTop([Top EXCEPT !.cb = @ + 1])
          /\ seen' = [seen EXCEPT ![<<Top.filter, Top.cb + 1>>] = Top.num]
          /\ UNCHANGED <<notifier, history>>
     ELSE /\ notifier' = NoFilter /\ stack' = ReplaceTop(InPump)
          /\ UNCHANGED seen
          /\ history' = history \cup Missed
  /\ UNCHANGED <<q, life, tpc, tf, emitted>>

-----------------------------------------------------------------------------
TickerStep(k) == CheckRoom(k) \/ PutEvent(k) \/ \E f \in Filters : Notify(k, f)
AppStep == \/ \E f \in Filters : Attach(f) \/ Detach(f) \/ Destroy(f)
           \/ Skip \/ Pump \/ ReadEvent \/ CallbackReturns

Next == AppStep \/ \E k \in Tickers : TickerStep(k)

\* The application pumps regularly and its callbacks return; the tickers run.
Fairness == /\ WF_vars(Pump) /\ WF_vars(ReadEvent) /\ WF_vars(CallbackReturns)
            /\ \A k \in Tickers : WF_vars(CheckRoom(k)) /\ WF_vars(PutEvent(k))

Spec == Init /\ [][Next]_vars /\ Fairness

-----------------------------------------------------------------------------
(* Properties.                                                             *)

\* ms_event_queue_clean() leaves no event of a destroyed filter behind, and no
\* ticker is about to write one: read_event() never reads a dangling filter.
NoDanglingEvent ==
  /\ \A i \in 1..Len(q) : life[q[i].filter] # "destroyed"
  /\ \A k \in Tickers : tf[k] # NoFilter => life[tf[k]] = "attached"

\* When a callback returns, ms_filter_invoke_callbacks() follows the list of the
\* filter only if that filter still exists, whatever the callback and the pumps
\* nested in it destroyed: while the current notifier is set, the filter whose
\* callback is innermost is that notifier and is alive.
NotifierAlive ==
  notifier # NoFilter => /\ stack # <<>> /\ life[notifier] # "destroyed"
                         /\ Top.cb > 0 => Top.filter = notifier

\* The size test of write_event() is made outside the mutex and with ">": every
\* thread may add one event beyond the limit, and no more.
Writing == {k \in Tickers : tpc[k] = "put"}
Bounded == Len(q) + Cardinality(Writing) <= MaxSize + Cardinality(Tickers)

\* A callback gets the events of a filter in the order of emission, nested pumps
\* included: once an inner pump has delivered newer events, the outer one gives
\* the older event to no further callback.
InOrder ==
  [][\A x \in Filters \X (1..NCallbacks) : seen'[x] >= seen[x]]_vars

\* ms_filter_invoke_callbacks() stops only when "the filter was destroyed by a
\* callback invocation": otherwise every callback gets every event that is read.
\* That is so as long as no callback pumps the queue again; a nested pump resets
\* current_notifier and ends the outer loop too.
AllCallbacksRun == "nested" \notin history => "missed" \notin history

\* An event does not stay in the queue for ever.
Drained ==
  \A n \in 1..MaxEvents :
    (\E i \in DOMAIN q : q[i].num = n) ~> ~(\E i \in DOMAIN q : q[i].num = n)
===============================================================================
