# A verification of mediastreamer2

TLA+ specifications of the parts of mediastreamer2 whose correctness depends on
interleavings, on lost or late messages or on long sequences of calls; TLC
configurations that check them on small instances; and TLAPS proofs of the most
important invariants for instances of any size.

Paths below are relative to the repository.  `PROJECT.json` maps every
definition to the lines it models and lists components, runs, mutants, hazards,
findings and theorems.

1. [The system](#1-the-system)
2. [Modules](#2-modules)
3. [Runs](#3-runs)
4. [Fairness](#4-fairness)
5. [Proofs](#5-proofs)
6. [Disagreements between the code and what it says](#6-disagreements-between-the-code-and-what-it-says)
7. [What is not modelled](#7-what-is-not-modelled)

## 1. The system

mediastreamer2 is a media engine.  An application builds *graphs of filters*
(capture, encode, RTP send, ...) and attaches them to *tickers*, threads that
call every filter every 10 ms.  Filters tell the application what happens
through the *event queue*, and hand long work to *worker threads* or postpone
it to the next tick.  Over that engine, the `voip` layer builds streams,
establishes connectivity with ICE, controls rates and mixes conferences.

| Component | State | Operations | What is hard | Correct when |
|---|---|---|---|---|
| Worker thread (`src/base/msasync.c`) | task list, batch, flags of the worker; state, repeat, auto_release of tasks | queue, repeat, cancel, cancel and destroy, wait, destroy, destroy worker; the thread's loop | the mutex is released around the task's function and when tasks are freed; one condition variable for two purposes | tasks run once and in order, memory is freed once and after its last use, waits return, the worker ends |
| Event queue (`src/base/eventqueue.c`) | FIFO of events, current notifier | notify, pump, skip, clean; callbacks | callbacks destroy filters and pump again; several tickers write | no event or callback list of a destroyed filter is read; bounded; in order |
| Ticker (`src/base/msticker.c`) | execution list, task list, tick counter | attach, detach, destroy; tick: tasks, graphs, wait | attach and detach work outside the lock; loops, joined graphs, forced scheduling | only prepared filters are called, each after its inputs, every tick ends |
| Filters and links (`src/base/msfilter.c`) | links, queues, last_tick, postponed_task | link, unlink, neighbours, preprocess, process, postprocess, postpone | counters and lists updated in different places | data do not stay in a graph; tasks run once and only while attached |
| ICE check list (`src/voip/ice.c`) | pairs and their states, triggered checks, valid list, transactions, nominations, role | pairing, ordinary and triggered checks, retransmission, request, response and error handlers, nomination, conclusion | two agents, lost, late, duplicated and reordered datagrams, role conflicts, late nominations | both agents conclude, with the same pair, and keep it |
| ICE session (`src/voip/ice.c`) | check lists, session state, pending event, gathering | gather, add and remove check lists, restart, losing pairs | events share one slot | the session's state is that of its check lists |
| STUN and TURN (`src/voip/stun.c`, `src/voip/turn_tcp.cpp`) | transaction ids, TURN allocation, permissions; TCP threads | encode, decode, refresh; connect, send, receive, close | threads around a socket, refresh timers | a response answers a request; no packet after close |
| File player (`src/audiofilters/msfileplayer.c`, `asyncrw.c`) | state, position, loop; buffer, pending tasks and seeks | open, start, stop, pause, seek, close; tick; fill and seek jobs | a worker with its own mutex that may be late, under a ticker that does not wait | data are those of the file, in order, around seeks; its end is noticed, and only then |
| File recorder (`src/audiofilters/msfilerec.c`, `asyncrw.c`) | state, size, limit; buffer | open, start, stop, close; tick; write jobs | the limit closes the file from the ticker | all that was given is in the file |
| Inter-ticker communication (`src/otherfilters/itc.c`) | shared queue, reference counter | process of sink and source, connect, release | two tickers; counter compared outside the lock | freed once |
| Queues and flow control (`src/base/msqueue.c`, `src/audiofilters/flowcontrol.c`) | sizes, targets, timers | put, read, control | rounding, first interval | drops what was asked and no more |
| Rate control (`src/voip/bitratecontrol.c`, `bitratedriver.c`, `qosanalyzer.c`, `bandwidthcontroller.c`) | controller state, reports | process RTCP, execute actions | long sequences of reports | reacts to congestion from every state |
| Conferences, mixers, routers | members, pins, active speaker, RTP numbering | plug, unplug, process | members come and go while the ticker runs | continuous sequence numbers, valid speaker |
| Streams, encryption, players, recorders | options, states | start, stop, pause | order of construction and teardown | teardown after use |
| Codecs, conversion, devices, factory, offer/answer, Baudot, UPnP | data formats, registries | convert, look up, I/O | data, not control | outside the reach of this method, or later |

How they interact: the event queue is written by the threads of the tickers and
read by the application (`EventQueue` models both sides and the lock that
`ms_ticker_detach()` takes); the worker thread serves the player and the recorder, which
are specified over its abstract specification `SerialWorker`;
the ticker calls the filters that all the others are made of; the ICE agents
talk to each other over the network.

## 2. Modules

Every `MC*` module instantiates a specification for TLC; every `*Proofs` module
holds its theorems.  Definitions introduced as *faulty variant* are not part of
the specification: each one is a plausible bug of an action, put in its place to
see that a property catches it.

### WorkerThread

Models `src/base/msasync.c`, all of it.  One variable per field of
`MSWorkerThread` (`running`, `finishTasks`, `inwait`, `tasks`) and `MSTask`
(`state`, `repeated`, `autoRelease`), a control point `wpc` for the worker and
`cpc[c]` for each client, and history: `mem` (life of the memory), `owner` (who
holds a handle), `settled` (on which tasks a wait has returned), `started`.

A critical section of a client is one step.  The worker's loop
(`ms_worker_thread_run`) is cut where the mutex is released: around the task's
function (`"func"`), when an auto_release task is destroyed (`"release"`),
around the broadcast (`"bcast"`), in the sleep between turns of repeated tasks
(`"sleep"`) and in the condition wait (`"wait"`).  `WorkerHolds` says when the
worker has the mutex and excludes the clients.  `ms_task_destroy()` and
`ms_task_wait_completion()` lock several times and are several steps.
`SpuriousWakeup` is what a condition variable may do.  Whether a repeated task is
due is free, except at its first turn.

`DestroyAnyTime` says when clients call `ms_task_destroy()`: `FALSE`, after a
wait on the task has returned, as all callers in the repository do; `TRUE`, at any
time, as the header allows.

### EventQueue

Models `src/base/eventqueue.c`.  The threads of the tickers write events in two
steps because the size is tested outside the mutex (`CheckRoom`, `PutEvent`).
The application attaches, detaches and destroys filters, skips and pumps.
`ms_event_queue_pump()` is re-entrant: `stack` holds its activations, each in its
loop or in the i-th callback of an event.  `UserCode` says that application code,
outside a pump or in a callback, may do anything the interface offers.  `seen`
and `history` record what callbacks got, which events live filters missed, and
whether a callback has pumped.

### Ticker

Models `src/base/msticker.c` with the parts of `src/base/msfilter.c` that it
uses.  Pins are abstracted to `Wires`, the links that may be made; a queue is
empty or not (`data`).  `visit` is what the recursion of `run_graph()` has still
to look at: as the order of pins is abstract, it is a set, taken in any order.
`ms_ticker_attach()` prepares each filter (`Preprocess`) and only then publishes
the sources under the lock (`Publish`); `ms_ticker_detach()` unpublishes under the
lock and then goes through `Postprocess` without it, at any moment of the thread's
loop.  `RemoveTasks` edits the list that `run_tasks()` may be walking and freeing: a
data race, modelled as a removal that the walk sees or misses.  What a double free
would do to the memory is not modelled.  `pending` is what the walk has still to do,
`Waiting` the tasks that are to be executed, and the history `erased` counts those
that detachments removed.  The tick counter has `TickMod` values so that it wraps.

### IceChecks

Models the connectivity checks of `src/voip/ice.c` for two agents with one check
list each.  `cl[a]` is a record with the fields of `IceCheckList` and, as functions
and sets over pairs, those of `IceCandidatePair`.  A pair is <<local, remote>>
address.  `net` is the set of messages ever sent and only grows: a message may be
received never, late, out of order or again.  The network itself is constant:
`Seen` is the source address a receiver sees (address translators), `Reach` what
is delivered, `HostOf` where what is sent to an address arrives.

`Process(a)` is one whole call of `ice_check_list_process()`: the timer of a
retransmission may expire, `ta` may have elapsed (a triggered or an ordinary
check is sent), the nomination delay may have expired, and the conclusion follows.
`Receive(a, m)` is one whole call of `ice_handle_stun_packet()`: role conflict,
learning of peer reflexive candidates, triggered check, nomination, or the
handling of a response or an error, and again the conclusion.  The removal of
pairs from a list while it is walked (`ice.c:3987-4002`) is kept with its early
stop (`RemoveFromList`, `RemoveFromSorted`).  The loops over lists that matter for the
order are recursive functions of the number of turns (`QueueNominations`, `Without`,
`ConcludeAll`).

Three assumptions say which constants make sense.  `IceAssumption`: two agents, finitely
many addresses of different priorities, different tie-breakers (the code draws them at
random, 64 bits each).  `NetworkAssumption`: an address belongs to one host and one
component, and what a receiver sees as the source leads back to the sender.
`SetupAssumption`: the agents have no base in common, the candidates an agent was told
of are those of its peer, and both use the same components.

`IceLive` adds `read`, the messages received at least once, to state that a network
delivers.

### SerialWorker

What `WorkerThread` promises to the code that queues one-shot tasks: they are
executed one at a time, each once, in the order of queuing; a task may be withdrawn
before it starts; when the worker is destroyed the pending ones are executed or
dropped.  `WorkerThread` implements it (`ImplementsSerial`) under the mapping
`Serial`: the pending jobs are the one-shot tasks still queued in the batch followed
by those of the list (`Among` picks them), and the active one is the task whose function
runs.  Batches, repeated tasks, sleeps and memory are stuttering steps.  `WSafety` is
what the worker may do and `WFairness` that it goes on; `WSpec` is both.

### FilePlayer

Models `src/audiofilters/msfileplayer.c` with the reader of
`src/audiofilters/asyncrw.c`, on the worker that `SerialWorker` describes: the
actions of the worker are conjuncts of its job's steps (`W!Start`, `W!Finish`) and of
the requests (`W!Submit`).  Three threads: the application's calls, the ticker's
`player_process()` and the worker.  A byte of the file is its offset, so that the
buffer shows where its data came from.  A read of the file is outside the reader's
mutex (`StartFill`, `FillAfterSeek`) and the block is stored under it (`PutBlock`);
reads and seeks may fail.  `PlayFrame` is a tick that gets data, `EndOfFile` its
second half after a short read, when the reader was unlocked and the filter is still
locked.  `PlayerClose`, `CloseDestroy` and `CloseJoin` are `player_close()`: the lock is
held in the first only.  Frames have any size: it comes from the wav header, which
is not checked.  History: `next`, the offset the listener expects, `asked`, the size of
the last frame since the last seek, and whether the last read or seek failed.

### FileRecorder

Models `src/audiofilters/msfilerec.c` with the writer of `asyncrw.c`, again on
`SerialWorker`.  A byte is the number of the recording and its place in it, so that
the file shows what was overwritten.  `RecProcess` is the ticker with one message;
when that exceeds the maximum size the ticker goes on into `_rec_close()`, with the
filter lock.  `_rec_close()` is cut where other threads matter: the look at the
buffer (`CloseAvail`), the last job (`CloseLast`), the stop of the worker
(`CloseStop`) and the end (`CloseJoin`), which writes the wav header at offset 0.
`RecOpen` creates a file or reopens the last one, at its end when a wav header gives
a length and at its start otherwise; `RecOpenFails` is a file that cannot be opened.
`RecStart` looks at the state only, as the code does, so a recorder may run without a
file; a message then ends the program, so `RecProcess` needs one.  `isOpen` is what
the caller knows, the field `is_open` of `MSMediaRecorder`.  Messages have any
length; the history `excess` counts the bytes by which they were larger than a block.

### RateControl

Models the audio rate control: the state machine of `src/voip/bitratecontrol.c`, the
simple analyzer of `src/voip/qosanalyzer.c` and the audio driver of
`src/voip/bitratedriver.c`.  The only event is the arrival of an RTCP report, whose
loss, delay and jitter are the network's choice.  `ReportWithoutStats` is a report
that the loss rate estimator passes over, after the index of the history was
incremented.  The encoder is external, one of `Encoders`: it has a ptime to start with
and a largest one, beyond which it refuses a ptime or silently clamps it, it may adapt
its ptime by itself, and have a bitrate that can be set or not, with a lower bound.
`PtimeStep` is the field `min_ptime` of the driver (20 ms), `MinPtime` the constant of
the same name (10 ms).  That a bitrate grows when 40 % is added is assumed of the least
one that an encoder accepts; the bounds that the encoders apply (`msopus.c:372`) are
well above.

## 3. Runs

| Run | Instance | Shows |
|---|---|---|
| `worker_threads` | 2 tasks, 2 clients | `NoDangling`: no thread refers to a freed task; `SignalReachesWorker`: the signal of the queue function cannot be taken by a waiting client; `CleanExit`: nothing is left when the thread ends; `ImplementsSerial`: one-shot tasks are executed as `SerialWorker` says; `WaiterReturns`, `Reclaimed`, `WorkerExits`: waits return, tasks left to the worker are freed, the worker ends |
| `worker_destroy_any_time` | 1 task, 1 client | violation of `NoDangling` when tasks are destroyed as the header allows |
| `events_nested` | 2 filters with 2 callbacks, 2 tickers, queue limit 1, 4 events, pumps nested once | `NoDanglingEvent`, `NotifierAlive`: nothing of a destroyed filter is read; `Bounded`; `InOrder`; `AllCallbacksRun`: without nested pumps all callbacks of a live filter run; `Drained` |
| `ticker` | 1 source, 2 filters in a chain, fed twice or in a loop, one of which is a pump that postpones tasks | `OnlyPrepared`: the thread reaches prepared filters only; `AllCalled`, `AfterInputs`, `FlowsThrough`: each filter is called in each tick, after its inputs, and leaves no data behind; `PostponedCount`: the counter of tasks differs from the list by what detachments erased and by nothing else; `TasksAttached`: no task of a detached filter outlives `run_tasks()`; `TaskExecuted`: a postponed task is executed unless its filter is detached; `TickEnds` |
| `ticker_detach_task` | a chain detached with tasks | violation of `TaskPrepared` |
| `ice_agreement` | open networks: one address against two, with or without a timer that expires; two components of one foundation | `Agreement`: both agents select the same pairs; `NominatedByController`; `SelectionStable`: a completed list keeps its selection |
| `ice_convergence` | two hosts in order, with swapped roles and in both role conflicts; an agent behind a translator against a relayed candidate | `TypeOK`; `InProgressHasTransaction`: a check in progress can be retransmitted or given up; `RolesSettle`, `ConflictRepaired`: the agents come to different roles and keep them; `Completes` |
| `ice_conflict_stuck` | the translator with both agents controlled | violation of `ConflictRepaired` |
| `file_player` | a file of a few blocks with a header, frames of up to three quarters of a block, seeks, loops with and without pause | `Continuous`: what is played follows what was played or the last seek; `EofIsReal`: the end of the file is not notified because the worker is late, except with two frames in a row larger than a block together; `PositionTrue`: the reported position is that of the data; `ReaderAlive`: nobody uses a destroyed reader; `PlayEnds` |
| `file_recorder` | blocks of 2 bytes, messages of 1, 2 and 5, two recordings of one file, with and without limit | `NothingLost`: once closed, the file has the bytes given, in order, except at its end as many as messages exceeded a block; `WriterKept`: a recording on an open file is not being closed, and no job outlives the writer; `CloseReturns`: closing, which waits for the worker with the filter lock held, returns |
| `recorder_resume` | the same | violation of `WriterThere` |
| `rate_control` | 3 loss rates, 2 delays, 6 encoders with ptimes of 20 to 50 ms, bitrates 10 to 15 | `TypeOK`: counters, ptime and bitrate in range; `ReducedUnderLoss`: lasting losses reduce the stream as far as the encoder allows; `Recovers`: on a network that stays good the bitrate comes back |

`CHECK_DEADLOCK FALSE` is set where the system may stop: the worker has exited and
every client has left, the bound on events is used up, or the ticker is destroyed.

### Bounds, and why they are enough

- *Worker.*  Two tasks and two clients make every pair of operations meet at every
  control point of the worker, and a batch be merged with what was queued meanwhile.
  Nothing bounds the number of turns of the loop.
- *Events.*  `MaxSize = 1` with two tickers reaches a full queue with both threads
  past the test.  `MaxEvents = 4` fills it and leaves events to be written while
  a nested pump runs; `MaxDepth = 2` is one pump in a callback of another.  Two
  callbacks per filter are the least for which one can be left out.
- *Ticker.*  A source and two filters that feed each other give chains, a filter
  fed twice and a loop.  `TickMod = 3` makes the counter wrap; more values only
  separate wraps further.  `MaxPostponed = 2` lets a filter postpone a task with one
  erased before; without it the counter grows with every detachment.
- *ICE.*  Each agent has a budget of transactions (`checks`) and of expired
  timers (`timeouts`), given per network in `OpenSetups` and `NetSetups`; a budget
  of two transactions for an agent with one pair lets each pair be checked, then
  checked again for the nomination or a triggered check.
  `MaxRetransmissions = 1` (7 in the code) makes a second expiry end a check;
  `MaxNominationRetransmissions = 0` makes the first one give up a nomination.
  A process that would exceed its budget is not taken; processes that send
  nothing are always possible, so no state is stuck because of a bound.

- *Player.*  `MaxJobs` bounds the jobs that the application's seeks leave waiting, so
  that several seeks and a block being read overlap; the file is longer than a block
  and not a multiple of it, and a target of a seek is beyond its end.  Frames of 1, 2
  and 3 bytes for blocks of 4 include pairs of more than a block: without that case
  named, `EofIsReal` is violated.
- *Recorder.*  Messages that do not fill a block, fill one, and are more than two:
  with `excess` left out of it `NothingLost` is violated.
  `MaxTakes` recordings and `MaxBytes` bytes in each; no limit, or one of more than a block, which a
  message meets in its middle.
- *Rate control.*  A loss below and two above the limit, one of them more than the
  50 % that is the most to give up; delays that double; `UpInterval = 2` (10 in the
  code); `MaxPtime = 50` (100), which steps of 20 ms from 20 and 25 ms do not meet.

No symmetry is used.

## 4. Fairness

- *Worker*: weak fairness of the worker's steps (the operating system schedules
  the thread), strong fairness of running a task (time passes, so a repeated task
  looked at again and again is due in the end), strong fairness of the steps of a
  call that has begun (a client that competes for the mutex gets it in the end).
  Clients are never forced to call anything.
- *Events*: weak fairness of pumping, reading and of the return of callbacks (the
  application iterates), and of the two steps that write an event.
- *Ticker*: weak fairness of the thread's steps.  The application is never forced to
  do anything.
- *Player and recorder*: weak fairness of the worker, of the ticker of the player and
  of a call of close that has begun.  The application is never forced to call
  anything, and `PlayEnds` supposes that it does not seek for ever.
- *Rate control*: reports go on arriving.  What they say is a hypothesis of each
  property.
- *ICE*: an agent processes again and again while that would change something, and
  receives what is unread.  No timer is forced to expire, no message to be
  received twice.  The fairness of processing is written with a state predicate
  (`CanProcess`) in the place of `ENABLED`.  Only `IceLive` has fairness: safety is
  also checked with a network that may lose everything.

## 5. Proofs

TLAPS checks the following for every value of the constants that satisfies the
named assumptions.  Most theorems state a property that a run checks too; the
others are type invariants, `NoDuplicates`, `DoneStays`, the inductive invariants
themselves and `ExecutesSerially`, the safety part of a refinement that a run checks
whole.

**WorkerThreadProofs** (`ConstantsOK`, and `~DestroyAnyTime` as a hypothesis):
`TypeCorrect`, `MemorySafe` (`NoDangling`), `NoDuplicates` (`ListedOnce`: a task is at
one place of the lists) and `DoneStays` (`DoneIsFinal`: a task that is done stays so),
for any sets of tasks and clients.
`NoDangling` is not inductive: that a client may free a task rests on the task
being in none of the worker's lists, which rests on the states of listed tasks.
`IInv` adds: `KnownInv` (listed tasks are alive and queued or cancelled; once
auto_release is set no client knows the task), `BatchInv` (outside the batch
nothing is left of it), `TaskInv` (flags belong to allocated tasks, a wait that
returned saw a settled state) and `ClientInv` (a client that destroys a task is
alone with it and frees a done one only).  Lemmas say what append, head, tail and
concatenation do to the set of elements and to the absence of duplicates.

**WorkerExitProofs** (the same assumptions): `SignalNotLost` (`SignalReachesWorker`) and
`NothingLeft` (`CleanExit`), on top of `IInv`.  The strengthening `LInv` says where an
allocated task is: `PlaceInv` (a task that is not done is with the worker; the
worker frees it if it is auto_release, otherwise a client holds its handle or is destroying
it), `StopInv` (no client uses a worker that was told to stop), `KeptInv` and `ExitInv`
(what is left of a batch is merged before the next; the worker ends with an empty list) and
`WaitInv` (no client sleeps right after the broadcast at the end of a batch, and from then
on one goes to sleep only for a task of the list).  A sleeping worker has an empty list, so
no client sleeps with it; an ended one has no task and no client has any, so none is left.

`ExecutesSerially` states that `WorkerThread` implements `SerialWorker!WSafety`, for any
tasks and clients: one-shot tasks run one at a time, each once, in the order of queuing,
whatever repeated tasks, cancellations and batches come in between.  The initial states map
to initial states, and each action is matched in a lemma of its own:

| Worker | SerialWorker |
|---|---|
| queuing a one-shot task (`QueueStep`) | `Submit` |
| cancelling one that is queued (`CancelStep`) | `Withdraw` |
| the turn of a one-shot task (`RunStep`) | `Start`, or `Discard` after a destroy that drops |
| its function returns (`ReturnStep`) | `Finish` |
| `ms_worker_thread_destroy()` (`CallStep`) | `Close` |
| everything else | a stuttering step |

Moving the queue into a batch and back (`BatchStep`) is invisible because only repeated
tasks are kept for another turn (`KeptRepeats`, inductive on top of `IInv`); a cancellation
removes one place of the pending jobs because a task is listed once (`ListedOnce`).  What
`Among` picks is defined by recursion: `AmongPicks` equates it with the last of a
finite sequence of partial results, and the lemmas on concatenation, head and removal follow
by induction over its length.  The induction has a set in the place of the predicate
(`LeastNat`, `Induction`), as in `IceChecksProofs`.

**EventQueueProofs** (`EventQueueAssumption`): `TypeCorrect`, `EventsAlive`
(`NoDanglingEvent`), `CallbacksAlive` (`NotifierAlive`), `QueueBounded`
(`Bounded`), for any numbers of filters, tickers and callbacks, any limit and any
depth of nesting.  The strengthening is `NotifierInv`: while the current notifier
is set, it is alive and it is the filter of the innermost callback, or of the
callback below a pump that has not read an event yet.  `Bounded` needs
cardinalities: a thread that passes the test adds one to the threads about to
write, and `Len(q)` was at most the limit.
`EventsInOrder` (`InOrder`) adds `NumberInv`: the numbers in the queue increase and are
above all that was read, and the filter being notified has seen nothing newer than the
event in the frame that notifies it.  `EveryCallback` (`AllCallbacksRun`) adds `AloneInv`:
as long as no callback pumps there is one activation, and its filter is the current
notifier unless it was destroyed.

**TickerProofs** (`TickerAssumption`): `TypeCorrect` and `PreparedOnly`
(`OnlyPrepared`), for every graph and every order of attachments.  The
strengthening is that the attached filters are closed under links
(`GraphInv`), that what the thread may reach is attached (`ReachInv`), and that
every task is counted in its filter (`TaskInv`), so that the counter does not
become negative.

On top of it `OrderInvariant` proves `JInv`, which is about what a tick calls, and gives
`EveryFilterCalled` (`AllCalled`), `CalledAfterInputs` (`AfterInputs`), `DataFlowsThrough`
(`FlowsThrough`), `TasksCounted` (`PostponedCount`) and `TasksOfAttached`
(`TasksAttached`), with detachments at any moment.  `CountInv` is about the tasks: the two
properties, and that the tasks in the list while the graphs run are of this tick, so that
a filter that is called has none.  A detachment finds the tasks to remove because the
counter is not 0 when there is one (`TaskInv`).
`RestInv` says what `last_tick` tells between two ticks, `RoundInv` what is called, to be
looked at or set aside within one; both need reachability, which is stated without
recursion: a set that holds the sources and what follows its members (`Leads`) holds
what was called.  It is needed because of the wrap of the counter, when only some of the
filters are due.  `TameInv` is about graphs without loops: a filter set aside in the first
round is one that cannot process yet, and of a set of such filters one has all its
inputs called, so that none is left when the second round forces them.

**FilePlayerProofs** (`SizesAssumption`): `TypeCorrect`, `ContinuousPlay`
(`Continuous`), `ReaderSafe` (`ReaderAlive`) and `EofHonest` (`EofIsReal`), for every
size of file, header, block and frames and any number of seeks.  `Continuous` says
nothing while a seek is pending, nor of the block that is on its way from the file,
so it is not inductive.  `Inv` adds `Life` (which of reader, worker and closing call
exist together), `Counts` (`ntasks` and `moving` are no less than the jobs and the seeks among
them, so that 0 means that none is left; seeks are counted by their places), `Place` (with no seek pending the
buffer, the block on its way and the position in the file follow each other without a
gap) and `Filled` (with no job left, the buffer and the last frame taken from it make a
block, or the file was read to its end, unless a read failed).  `EofIsReal` rests on
`Filled`: a short read before the end needs two frames of more than a block together.
`PositionHonest` (`PositionTrue`) adds `PauseInv`: the position is ahead of the data by no
more than the part of one pause that was played, the rest of which is still counted
in `pauseTime`.

**FileRecorderProofs** (`SizesAssumption`): `TypeCorrect`,
`WriterSafe` (`WriterKept`) and `RecordingComplete` (`NothingLost`), for every block size,
message size and limit.  `Inv` adds `Life`, `Room` (the jobs that are pending are
enough to write all but less than a block of the buffer, and all of it once the last
one was queued, apart from `excess` bytes) and `Data` (the bytes given are those in the file, then in the block
being written, then in the buffer, in order, unless a write failed).  `Room` is why one
last job is enough in `ms_async_writer_destroy()` when no message is larger than a block.

**RateControlProofs** (`RatesAssumption`): `TypeCorrect` (`TypeOK`), for any losses, delays,
interval between probes, bitrates and encoders, whatever ptime they start with.  That
the counters stay within the thresholds needs `CountersInv` (a counter is below its
threshold in the states that increment it).  The ptime rests on the test of
`apply_ptime()`: a step down from one between 20 and 30 ms is refused there.

**IceChecksProofs** (the three assumptions of `IceChecks`): `TypeCorrect` (`TypeOK`),
`TransactionKnown` (`InProgressHasTransaction`), `ControllerDecides`
(`NominatedByController`), `RolesStaySettled` (`RolesSettle`), `SelectionKept`
(`SelectionStable`) and `PairsAgree` (`Agreement`), for any candidates, components,
priorities, address translators and losses, and any number of checks and messages.
`IceInv` is the conjunction of:

- `ListInv`: both check lists are `Good`, that is of the right types, over the pairs
  that the agent may form; a check in progress has a live transaction (`Attempts`);
  a valid pair is one whose check went through and whose answer came back the same way,
  and a completed list has selected a nominated pair of each component (`Outcome`);
- `NetInv`: each message ever sent is a request of an agent on one of its pairs, which
  carries USE-CANDIDATE only if the agent uses that pair, a response to such a request,
  or an error;
- `RoleInv`: a request sent in a role that its sender has given up belongs to a conflict
  that is settled, with the agent of the greater tie-breaker controlling.  This is why a
  late request does not start the conflict again;
- `OriginInv`: what is nominated, or is to be once its check succeeds, is in use at
  one of the ends;
- `ConflictInv`: while both agents are controlling, the one that will give way has got no
  response, so it has nominated nothing that it would take into its new role;
- `NominatedByController` itself.

`Agreement` follows: what the agents selected is nominated (`Outcome`), hence the image of
a pair that the controlling agent uses (`OriginInv`, as the other uses none); there is one such
pair per component by hypothesis, and each agent selected one per component.  A step of
an agent is treated as in the code: a lemma for each function, which says what it
leaves of `Good` and what it adds to the marks of the list, then the packet or timer
handler, then the invariant.  The loops need induction over the number of turns; it is
proved once from the least element of a set of naturals, in a form where a set takes the
place of the predicate (`LeastNat`, `Induction`, `Recursion`).

Model-checked only: the liveness properties (outside the reach of the prover), which
include `ReducedUnderLoss` and `Recovers` of the rate control; the fairness part of
`ImplementsSerial` (it needs `ENABLED`; its safety part is `ExecutesSerially`); and the
violations of section 6.

## 6. Disagreements between the code and what it says

Each one is a run that TLC must find violated, except those called remarks, which the
properties exclude by name.

- `worker_destroy_any_time`: `ms_task_destroy()` is said to cancel "if necessary"
  and to wait "for completion before destroying the task"
  (`include/mediastreamer2/msasync.h:93`).  It sets `MSTaskCancelled` and then waits
  for `MSTaskDone` or `MSTaskCancelled` (`msasync.c:54`), so it does not wait at
  all and frees a task that the worker still has.  `ms_task_wait_completion()` by
  itself also returns for a cancelled task whose function runs, while
  `msasync.h:88` says that it waits for `MSTaskDone`.
- `ticker_detach_task`: once a chain is detached it "will no more be executed"
  (`include/mediastreamer2/msticker.h:187`).  `ms_ticker_detach()` releases the lock
  before it removes the tasks and postprocesses the filters, and waits for none
  (`msticker.c:223`): a task of the chain may run when it has returned.  `TasksAttached`
  says how long that lasts.
- `recorder_resume`: `ms_media_recorder_start()` answers "TRUE if recording has been
  successfuly started" (`include/mediastreamer2/msmediarecorder.h:113`) and refuses only
  when "No file has been opened" (`src/voip/msmediarecorder.c:236`).  When the maximum size
  has closed the file from the ticker, `rec_stop()` sets the state to Paused
  (`msfilerec.c:184`), `rec_start()` accepts, and the recorder runs without a writer.
- `ice_conflict_stuck`: the error response to a role conflict is said to copy the
  transaction identifier of the request (`ice.c:1900`); it has a random one, and the
  peer ignores it.  Conflicts are then repaired only by the requests of the peer.
- Remark: `ice_remove_waiting_and_frozen_pairs_from_list()` stops when it erases the
  first or the last element of the list (`ice.c:3998`).  The pairs left in a
  completed list are not checked any more, so no property is at stake.
- Remark: when the tick counter wraps to 0, the value that preprocess stores in
  `last_tick`, a graph attached just before is not called in that tick.
  `AllCalled` and `FlowsThrough` exclude it.
- Remark: a pump nested in a callback leaves `current_notifier` NULL, and the outer
  loop takes that for the destruction of the filter (`eventqueue.c:220`): the remaining
  callbacks miss the event.  `AllCallbacksRun` excludes it.
- Remark: `remove_tasks_for_filter()` erases tasks without decrementing
  `postponed_task` (`msticker.c:314`), "number of postponed tasks"
  (`include/mediastreamer2/msfilter.h:208`).  Attached again, the filter is called once
  per tick even when data remain (`msticker.c:255`).  `PostponedCount` counts the
  erased tasks apart.
- Remark: the recorder leaves no room for the wav header, which overwrites the first
  44 bytes of a new recording when it is closed (`msfilerec.c:218`) and counts them in
  the length it states.  `NothingLost` leaves out the bytes under the header.
- Remark: a message larger than a block, as those of 60 ms, queues one job, which takes
  one block (`asyncrw.c:166`, `197`), and closing queues one more: the rest of what has
  accumulated is freed unwritten, although the size in the header counts it.
  `NothingLost` counts these bytes apart.
- Remark: two frames in a row that together exceed a block can be answered with a short
  read before the end of the file, since the first asks for no block when one is in the
  buffer (`asyncrw.c:102`).  10 ms of 16 bit stereo at 96 kHz are 3840 bytes, and the rate,
  channels and sample size of a wav header are not checked (`msfileplayer.c:160`).
  `EofIsReal` names the case.
- Remark: an encoder that clamps its ptime without an error (`msspeex.c:303`) makes
  `inc_ptime()` succeed for ever, and its bitrate is not reduced, although "if max ptime
  is reached, then try to reduce the codec bitrate if possible" (`bitratedriver.c:134`).
  `ReducedUnderLoss` names it.
- Remark: from a ptime between 20 and 30 ms `dec_ptime()` is refused, as below 10 ms, and
  that ends the slow ramp up, in Init, with a bitrate that may still be reduced
  (`bitratedriver.c:161`).  `Recovers` names it.
- Remark: the rate controller goes back to Init when the bitrate has reached its
  nominal value, whatever the ptime (`bitratecontrol.c:104`), and from there never
  probes again: the ptime keeps its value.  After a report that was passed over, the
  next one is compared with an older one (`qosanalyzer.c:170`), and the controller may
  stay in Probing.  `Recovers` names both.

## 7. What is not modelled

`PROJECT.json` gives the reason for each component.  In the parts that are
modelled: the lateness computation, the replaceable time functions and the clock
synchronizer of the ticker; filter methods and statistics; registration of
callbacks and the synchronous mode of notification; in ICE, losing pairs, forced
relay, TURN channels, keepalives, the legacy integrity modes and requests that
arrive before the candidates were paired; pcap files of the player; the stateful
analyzer and the drivers of video of the rate control, and encoders that round the
ptime they are given.

- *The ICE session*: several check lists, gathering and restart.  Gathering is a
  dialogue with external servers and a restart a new exchange of signalling; what
  the session adds to a check list is bookkeeping on one thread.
- *Flow control, bandwidth and quality control, mixers, routers*: they decide on
  energies, estimates and regressions in floating point, which TLA+ does not have;
  without them the control that is left is a table.
- *Inter-ticker communication*: one step of two threads is at stake, the test of the
  reference counter after the unlock (`itc.c:50`), and is listed as a hazard.
- *Streams, conferences, media players and recorders*: they build and take apart
  graphs by calls that `Ticker` allows in any order.
- *Encryption, TURN over TCP, devices, UPnP*: around libraries, sockets and drivers.

Most of the repository is codecs, conversions, data formats and platform drivers, so
the modelled lines are a small part of it.
Filters are abstract: what a filter computes is data and left out, what matters is
that it consumes, produces, postpones and notifies.  Codecs, conversions and drivers
are wrappers around libraries or devices.
