------------------------------ MODULE FilePlayer ------------------------------
(***************************************************************************)
(* The file player filter (src/audiofilters/msfileplayer.c) and the        *)
(* asynchronous reader it plays from (MSAsyncReader of                     *)
(* src/audiofilters/asyncrw.c), which reads the file by blocks in a worker *)
(* thread.  The worker is used through what it promises, SerialWorker,     *)
(* which WorkerThread implements.                                          *)
(*                                                                         *)
(* Three threads: the control thread calls the player's methods, the       *)
(* ticker calls player_process() and the worker executes the reader's      *)
(* jobs.  The filter lock serializes the first two and the reader's mutex  *)
(* protects the buffer; a section under a lock is one step, except that    *)
(* the ticker unlocks the reader between a short read and the seek that    *)
(* follows it.                                                             *)
(*                                                                         *)
(* A byte of the file is its offset, so that the buffer shows where its    *)
(* data came from.  The field eof of the reader is written and never read; *)
(* it is left out, with pcap files and the counters that are only logged.  *)
(***************************************************************************)
EXTENDS Integers, Sequences

CONSTANTS
  FileSize,   \* number of bytes of the file, header included
  HeaderSize, \* hsize, where the audio starts
  BlockSize,  \* blocksize, a memory page in the code
  Frames,     \* the sizes in bytes of what a tick asks for
  Targets,    \* the positions in bytes that the application seeks to
  Pauses,     \* values of loop_after, in ticks; negative: play once
  MaxJobs     \* bound on the jobs waiting in the worker

\* Nothing bounds what a tick asks for, with the rate, the channels and the sample
\* size of a header that is not checked: 1920 bytes for 10 ms of 16 bit stereo at
\* 48 kHz, 3840 at 96 kHz, and a page is 4096 bytes.
ASSUME SizesAssumption ==
  /\ FileSize \in Nat /\ HeaderSize \in Nat /\ BlockSize \in Nat
  /\ Frames \subseteq Nat \ {0} /\ Frames # {}
  /\ Targets \subseteq Nat /\ Pauses \subseteq Int /\ MaxJobs \in Nat

VARIABLES
  pending, active, closing, \* the worker of the reader, see SerialWorker
  wpc,       \* what the worker does of its job: "idle", "fill" or "put"
  got,       \* the block read from the file and not yet in the buffer
  fpos,      \* the position in the file
  buf,       \* buf, the bytes ready to be played
  ntasks,    \* ntasks_pending
  moving,    \* moving, the seeks not yet executed
  seekoff,   \* seekoff, where the next seek goes
  reader,    \* the reader exists
  state,     \* state of the player
  loopAfter, \* loop_after
  pauseTime, \* pause_time
  pos,       \* current_pos_bytes
  tpc,       \* the ticker: "idle", or "eof" with the filter lock held
  cpc,       \* the control thread: "idle", or where it is in player_close()
  next,      \* history: the offset the listener expects next
  asked,     \* history: the size of the last frame since the last seek
  failed,    \* history: the last block could not be read
  misplaced  \* history: the last seek in the file failed

workerVars == <<pending, active, closing>>
readerVars == <<wpc, got, fpos, buf, ntasks, moving, seekoff, reader>>
playerVars == <<state, loopAfter, pauseTime, pos, tpc, cpc>>
historyVars == <<next, asked, failed, misplaced>>
vars == <<workerVars, readerVars, playerVars, historyVars>>

W == INSTANCE SerialWorker WITH Jobs <- {"fill", "seek"}, Idle <- "none"

\* The offsets from a to b - 1, in order.
Bytes(a, b) == [i \in 1 .. (IF a < b THEN b - a ELSE 0) |-> a + i - 1]

Least(a, b) == IF a < b THEN a ELSE b

TypeOK ==
  /\ pending \in Seq({"fill", "seek"}) /\ active \in {"none", "fill", "seek"}
  /\ closing \in {"no", "drop"} /\ wpc \in {"idle", "fill", "put"}
  /\ got \in Seq(Nat) /\ fpos \in Nat /\ buf \in Seq(Nat)
  /\ ntasks \in Nat /\ moving \in Nat /\ seekoff \in Nat /\ reader \in BOOLEAN
  /\ state \in {"Closed", "Paused", "Playing"}
  /\ loopAfter \in Pauses /\ pauseTime \in Int /\ pos \in Nat
  /\ tpc \in {"idle", "eof"} /\ cpc \in {"idle", "destroy", "join"}
  /\ next \in Nat /\ asked \in Nat /\ failed \in BOOLEAN /\ misplaced \in BOOLEAN

\* player_init()
Init ==
  /\ W!WInit /\ wpc = "idle" /\ got = << >> /\ fpos = 0 /\ buf = << >>
  /\ ntasks = 0 /\ moving = 0 /\ seekoff = 0 /\ reader = FALSE
  /\ state = "Closed" /\ loopAfter \in {p \in Pauses : p < 0} /\ pauseTime = 0
  /\ pos = 0 /\ tpc = "idle" /\ cpc = "idle"
  /\ next = 0 /\ asked = 0 /\ failed = FALSE /\ misplaced = FALSE

-------------------------------------------------------------------------------
(* The reader, called with the filter lock held.                           *)

\* Faulty variant: the request of a seek counts one more pending task than it queues.
RequestSeekTwice(off) ==
  /\ W!Submit("seek")
  /\ ntasks' = ntasks + 2 /\ moving' = moving + 1 /\ seekoff' = off
  /\ next' = off /\ asked' = 0

\* ms_async_reader_seek()
RequestSeek(off) ==
  /\ W!Submit("seek")
  /\ ntasks' = ntasks + 1 /\ moving' = moving + 1 /\ seekoff' = off
  /\ next' = off /\ asked' = 0

\* Faulty variant: a read does not wait for the block that was asked for.
WouldBlockMovingOnly(n) == moving > 0

\* ms_async_reader_read() answers -BCTBX_EWOULDBLOCK.
WouldBlock(n) == moving > 0 \/ (Len(buf) < n /\ ntasks > 0)

\* ms_async_reader_read() gives the n bytes asked for, or what it has of them.
TakeBytes(n) ==
  LET taken == Least(n, Len(buf))
  IN  /\ IF ntasks = 0 /\ Len(buf) < BlockSize
         THEN W!Submit("fill") /\ ntasks' = ntasks + 1
         ELSE UNCHANGED <<workerVars, ntasks>>
      /\ buf' = SubSeq(buf, taken + 1, Len(buf))
      /\ next' = next + taken /\ asked' = n

-------------------------------------------------------------------------------
(* The worker thread.                                                      *)

\* A block is read at the position of the file; the read may fail.
ReadBlock(from) ==
  \/ /\ got' = Bytes(from, Least(from + BlockSize, FileSize))
     /\ fpos' = from + Len(got') /\ failed' = FALSE
  \/ got' = << >> /\ fpos' = from /\ failed' = TRUE

\* async_reader_fill() is called and reads the file, without the mutex.
StartFill ==
  /\ W!Start /\ active' = "fill" /\ ReadBlock(fpos) /\ wpc' = "put"
  /\ UNCHANGED <<buf, ntasks, moving, seekoff, reader, playerVars, next, asked,
                 misplaced>>

\* Faulty variant: the buffer is not flushed by a seek.
StartSeekNoFlush ==
  /\ W!Start /\ active' = "seek"
  /\ \/ fpos' = seekoff /\ misplaced' = FALSE
     \/ fpos' = fpos /\ misplaced' = TRUE
  /\ moving' = moving - 1 /\ wpc' = "fill"
  /\ UNCHANGED <<got, buf, ntasks, seekoff, reader, playerVars, next, asked, failed>>

\* async_reader_seek() up to the end of its locked section.
StartSeek ==
  /\ W!Start /\ active' = "seek"
  /\ \/ fpos' = seekoff /\ misplaced' = FALSE
     \/ fpos' = fpos /\ misplaced' = TRUE
  /\ moving' = moving - 1 /\ buf' = << >> /\ wpc' = "fill"
  /\ UNCHANGED <<got, ntasks, seekoff, reader, playerVars, next, asked, failed>>

\* async_reader_seek() calls async_reader_fill(), which reads the file.
FillAfterSeek ==
  /\ wpc = "fill" /\ ReadBlock(fpos) /\ wpc' = "put"
  /\ UNCHANGED <<workerVars, buf, ntasks, moving, seekoff, reader, playerVars,
                 next, asked, misplaced>>

\* async_reader_fill() under the mutex, then the job returns.
PutBlock ==
  /\ wpc = "put" /\ W!Finish
  /\ buf' = buf \o got /\ got' = << >>
  /\ ntasks' = ntasks - 1 /\ wpc' = "idle"
  /\ UNCHANGED <<fpos, moving, seekoff, reader, playerVars, historyVars>>

\* The worker is being destroyed and a job is dropped.
DropJob == W!Discard /\ UNCHANGED <<readerVars, playerVars, historyVars>>

-------------------------------------------------------------------------------
(* The ticker: player_process().                                           *)

\* The silence between two rounds of the file.
PlaySilence(n) ==
  /\ state = "Playing" /\ tpc = "idle" /\ pauseTime > 0
  /\ pauseTime' = pauseTime - 1 /\ pos' = pos + n
  /\ UNCHANGED <<workerVars, readerVars, state, loopAfter, tpc, cpc, historyVars>>

\* A frame is played.  When less than n bytes are there the rest is silence.
PlayFrame(n) ==
  /\ state = "Playing" /\ tpc = "idle" /\ pauseTime <= 0
  /\ ~ WouldBlock(n)
  /\ TakeBytes(n)
  /\ pos' = IF buf = << >> THEN pos ELSE pos + n
  /\ tpc' = IF Len(buf) < n THEN "eof" ELSE "idle"
  /\ UNCHANGED <<wpc, got, fpos, moving, seekoff, reader, state, loopAfter,
                 pauseTime, cpc, failed, misplaced>>

\* Faulty variant: the position is not reset at the end of the file.
EndOfFileKeepPos ==
  /\ tpc = "eof" /\ RequestSeek(HeaderSize) /\ UNCHANGED pos /\ tpc' = "idle"
  /\ IF loopAfter < 0 THEN state' = "Paused" /\ UNCHANGED pauseTime
                      ELSE pauseTime' = loopAfter /\ UNCHANGED state
  /\ UNCHANGED <<wpc, got, fpos, buf, reader, loopAfter, cpc, failed, misplaced>>

\* A short read is the end of the file: back to the start, and MS_PLAYER_EOF.
EndOfFile ==
  /\ tpc = "eof" /\ RequestSeek(HeaderSize) /\ pos' = 0 /\ tpc' = "idle"
  /\ IF loopAfter < 0 THEN state' = "Paused" /\ UNCHANGED pauseTime
                      ELSE pauseTime' = loopAfter /\ UNCHANGED state
  /\ UNCHANGED <<wpc, got, fpos, buf, reader, loopAfter, cpc, failed, misplaced>>

-------------------------------------------------------------------------------
(* The control thread.                                                     *)

\* player_open() of a file, after the player was closed: the header is read and
\* the reader created, with a first block asked for.
PlayerOpen ==
  /\ cpc = "idle" /\ ~ reader
  /\ reader' = TRUE /\ state' = "Paused" /\ pos' = 0
  /\ pending' = <<"fill">> /\ active' = "none" /\ closing' = "no"
  /\ wpc' = "idle" /\ got' = << >> /\ fpos' = HeaderSize /\ buf' = << >>
  /\ ntasks' = 1 /\ moving' = 0 /\ seekoff' = 0
  /\ next' = HeaderSize /\ asked' = 0 /\ failed' = FALSE /\ misplaced' = FALSE
  /\ UNCHANGED <<loopAfter, pauseTime, tpc, cpc>>

\* player_start(), without the filter lock
PlayerStart ==
  /\ cpc = "idle" /\ state = "Paused" /\ state' = "Playing"
  /\ UNCHANGED <<workerVars, readerVars, loopAfter, pauseTime, pos, tpc, cpc,
                 historyVars>>

\* Faulty variant: the player is closed without waiting for the ticker to leave the filter.
StopLockedUnlocked ==
  /\ state # "Closed" /\ state' = "Paused"
  /\ RequestSeek(HeaderSize) /\ pos' = 0

\* What player_stop() does under the filter lock.
StopLocked ==
  /\ tpc = "idle" /\ state # "Closed" /\ state' = "Paused"
  /\ RequestSeek(HeaderSize) /\ pos' = 0

\* player_stop()
PlayerStop ==
  /\ cpc = "idle" /\ Len(pending) < MaxJobs /\ StopLocked
  /\ UNCHANGED <<wpc, got, fpos, buf, reader, loopAfter, pauseTime, tpc, cpc,
                 failed, misplaced>>

\* player_pause()
PlayerPause ==
  /\ cpc = "idle" /\ tpc = "idle" /\ state = "Playing" /\ state' = "Paused"
  /\ UNCHANGED <<workerVars, readerVars, loopAfter, pauseTime, pos, tpc, cpc,
                 historyVars>>

\* player_loop(), without the filter lock
PlayerLoop ==
  /\ cpc = "idle" /\ loopAfter' \in Pauses
  /\ UNCHANGED <<workerVars, readerVars, state, pauseTime, pos, tpc, cpc,
                 historyVars>>

\* player_seek_position()
PlayerSeek ==
  /\ cpc = "idle" /\ tpc = "idle" /\ reader /\ Len(pending) < MaxJobs
  /\ \E p \in Targets : pos' = p /\ RequestSeek(HeaderSize + p)
  /\ UNCHANGED <<wpc, got, fpos, buf, reader, state, loopAfter, pauseTime, tpc,
                 cpc, failed, misplaced>>

\* player_close(): the player is stopped, under the lock,
PlayerClose ==
  /\ cpc = "idle" /\ reader /\ StopLocked /\ cpc' = "destroy"
  /\ UNCHANGED <<wpc, got, fpos, buf, reader, loopAfter, pauseTime, tpc,
                 failed, misplaced>>

\* ms_async_reader_destroy() stops the worker, without the lock,
CloseDestroy ==
  /\ cpc = "destroy" /\ W!Close(FALSE) /\ cpc' = "join"
  /\ UNCHANGED <<readerVars, state, loopAfter, pauseTime, pos, tpc, historyVars>>

\* and waits for it; then the reader is freed and the file closed.
CloseJoin ==
  /\ cpc = "join" /\ active = "none" /\ pending = << >>
  /\ reader' = FALSE /\ buf' = << >> /\ state' = "Closed" /\ cpc' = "idle"
  /\ UNCHANGED <<workerVars, wpc, got, fpos, ntasks, moving, seekoff, loopAfter,
                 pauseTime, pos, tpc, historyVars>>

-------------------------------------------------------------------------------
Worker == StartFill \/ StartSeek \/ FillAfterSeek \/ PutBlock \/ DropJob

Tick == (\E n \in Frames : PlaySilence(n) \/ PlayFrame(n)) \/ EndOfFile

Control == \/ PlayerOpen \/ PlayerStart \/ PlayerStop \/ PlayerPause \/ PlayerLoop
           \/ PlayerSeek \/ PlayerClose

Closing == CloseDestroy \/ CloseJoin

Next == Worker \/ Tick \/ Control \/ Closing

\* The worker and the ticker go on, and a call of player_close() that has begun
\* is executed to its end; nothing obliges the application to call anything.
Fairness == WF_vars(Worker) /\ WF_vars(Tick) /\ WF_vars(Closing)

Spec == Init /\ [][Next]_vars /\ Fairness
-------------------------------------------------------------------------------
(* Properties                                                              *)

\* What is ready to be played is what the listener expects: it starts where the
\* last frame ended, or where the last seek goes, and has no gap, although the
\* blocks are read without the mutex, while seeks are requested.  A seek that
\* failed in the file spoils this, until the next one.
Continuous ==
  moving = 0 /\ ~ misplaced => \A i \in DOMAIN buf : buf[i] = next + i - 1

\* MS_PLAYER_EOF is notified when everything was played, never because the
\* worker was late.  A read error is taken for the end of the file; and so is, with
\* two frames in a row of more than a block together, a reader that was not asked
\* for a block by the first one and has not enough left for the second.
EofIsReal ==
  [][tpc = "idle" /\ tpc' = "eof" /\ ~ misplaced
       => next' >= FileSize \/ failed \/ asked + asked' > BlockSize]_vars

\* The position that the player reports is the one of the data it plays, ahead
\* of it at most by the silence of one pause between two rounds.
PositionTrue ==
  reader /\ tpc = "idle" =>
    \E p \in Pauses \cup {0}, n \in Frames : HeaderSize + pos - next \in 0..(p * n)

\* Nobody uses a reader that was destroyed: when player_close() destroys it, the
\* ticker does not play and is not between its short read and its seek, and
\* when it is freed the worker executes no job.
ReaderAlive ==
  /\ state = "Playing" \/ tpc = "eof" => reader /\ closing = "no"
  /\ active # "none" \/ pending # << >> => reader

\* A player that plays gets to the end of its file, or is stopped: no job is
\* lost that would leave it refusing to give data for ever.  The application
\* must not seek again and again.
PlayEnds ==
  <>[][~ PlayerSeek]_vars
    => (state = "Playing" ~> (tpc = "eof" \/ state # "Playing"))

===============================================================================
