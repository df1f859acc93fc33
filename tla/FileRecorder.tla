----------------------------- MODULE FileRecorder -----------------------------
(***************************************************************************)
(* The file recorder filter (src/audiofilters/msfilerec.c) and the         *)
(* asynchronous writer it records with (MSAsyncWriter of                   *)
(* src/audiofilters/asyncrw.c), which writes the file by blocks in a       *)
(* worker thread, used through what it promises, SerialWorker.             *)
(*                                                                         *)
(* Three threads: the control thread calls the recorder's methods, the     *)
(* ticker calls rec_process() and the worker executes the writer's jobs.   *)
(* The filter lock serializes the first two; whoever closes the file keeps *)
(* it until the worker has ended.                                          *)
(*                                                                         *)
(* A byte is <<take, i>>: the i-th byte recorded since the take-th opening *)
(* of the file.  The swap of bytes and the format are left out.            *)
(***************************************************************************)
EXTENDS Integers, Sequences

CONSTANTS
  BlockSize,  \* blocksize, a memory page in the code
  HeaderSize, \* size of the wav header, 44 in the code
  Lengths,    \* lengths in bytes of the messages to record
  Limits,     \* values of max_size, 0 for no limit
  MaxTakes,   \* bound on the number of times a file is opened
  MaxBytes    \* bound on the bytes recorded after an opening

\* A message may be larger than a block: 1920 bytes for 10 ms of 16 bit stereo at
\* 48 kHz, but 11520 for a packet of 60 ms, and a page is 4096 bytes.
ASSUME SizesAssumption ==
  /\ BlockSize \in Nat \ {0} /\ HeaderSize \in Nat
  /\ Lengths \subseteq Nat \ {0} /\ Limits \subseteq Nat
  /\ MaxTakes \in Nat /\ MaxBytes \in Nat

VARIABLES
  pending, active, closing, \* the worker of the writer, see SerialWorker
  buf,     \* buf, the bytes not yet taken by the worker
  wbuf,    \* wbuf, the bytes taken and not yet written
  file,    \* contents of the file
  fpos,    \* position in the file
  header,  \* the data length that the file's wav header states, or None
  isWav,   \* is_wav
  fp,      \* the file is open and the writer exists
  state,   \* state of the recorder
  size,    \* size
  maxSize, \* max_size
  lock,    \* who holds the filter lock from one step to another
  cpc,     \* progress of _rec_close()
  isOpen,  \* what the control thread knows: it has opened a file and not closed it
  take,    \* history: how many times the file was opened
  start,   \* history: where in the file this take starts
  given,   \* history: the bytes recorded in this take
  excess,  \* history: those by which its messages were larger than a block
  failed   \* history: a write failed in this take

workerVars == <<pending, active, closing>>
writerVars == <<buf, wbuf, file, fpos>>
recVars == <<header, isWav, fp, state, size, maxSize, lock, cpc, isOpen>>
historyVars == <<take, start, given, excess, failed>>
vars == <<workerVars, writerVars, recVars, historyVars>>

W == INSTANCE SerialWorker WITH Jobs <- {"write"}, Idle <- "none"

None == -1

\* What the header is written over.
HeaderByte == <<0, 0>>

Cells == Nat \X Nat

TypeOK ==
  /\ pending \in Seq({"write"}) /\ active \in {"none", "write"}
  /\ closing \in {"no", "finish"}
  /\ buf \in Seq(Cells) /\ wbuf \in Seq(Cells) /\ file \in Seq(Cells) /\ fpos \in Nat
  /\ header \in Nat \cup {None} /\ isWav \in BOOLEAN /\ fp \in BOOLEAN
  /\ state \in {"Closed", "Paused", "Running"} /\ size \in Nat /\ maxSize \in Limits
  /\ lock \in {"none", "control", "ticker"}
  /\ cpc \in {"idle", "avail", "last", "stop", "join"}
  /\ isOpen \in BOOLEAN
  /\ take \in Nat /\ start \in Nat /\ given \in Nat /\ excess \in Nat
  /\ failed \in BOOLEAN

\* rec_init()
Init ==
  /\ W!WInit /\ buf = << >> /\ wbuf = << >> /\ file = << >> /\ fpos = 0
  /\ header = None /\ isWav \in BOOLEAN /\ fp = FALSE /\ state = "Closed"
  /\ size = 0 /\ maxSize \in Limits /\ lock = "none" /\ cpc = "idle" /\ isOpen = FALSE
  /\ take = 0 /\ start = 0 /\ given = 0 /\ excess = 0 /\ failed = FALSE

-------------------------------------------------------------------------------
(* The writer.                                                             *)

\* The n bytes of this take that follow those already given.
NewBytes(n) == [i \in 1..n |-> <<take, given + i>>]

\* ms_async_writer_write(): one more job whenever a block is there, and one only,
\* however large the message is.
WriterWrite(n) ==
  /\ buf' = buf \o NewBytes(n) /\ given' = given + n
  /\ excess' = excess + (IF n > BlockSize THEN n - BlockSize ELSE 0)
  /\ IF Len(buf') >= BlockSize THEN W!Submit("write") ELSE UNCHANGED workerVars

\* The contents of a file after data is written at the offset at.
Overwrite(data, at) ==
  [i \in 1 .. (IF at + Len(data) > Len(file) THEN at + Len(data) ELSE Len(file)) |->
     IF i > at /\ i <= at + Len(data) THEN data[i - at] ELSE file[i]]

\* Faulty variant: the job waits for the tick to be over.
TakeBlockAfterTick ==
  LET n == IF Len(buf) < BlockSize THEN Len(buf) ELSE BlockSize
  IN  /\ lock # "ticker" /\ W!Start
      /\ wbuf' = SubSeq(buf, 1, n) /\ buf' = SubSeq(buf, n + 1, Len(buf))
      /\ UNCHANGED <<file, fpos, recVars, historyVars>>

\* async_writer_write() under the mutex: at most a block is taken.
TakeBlock ==
  LET n == IF Len(buf) < BlockSize THEN Len(buf) ELSE BlockSize
  IN  /\ W!Start
      /\ wbuf' = SubSeq(buf, 1, n) /\ buf' = SubSeq(buf, n + 1, Len(buf))
      /\ UNCHANGED <<file, fpos, recVars, historyVars>>

\* The rest of async_writer_write(): the file is written, or that fails.
WriteBlock ==
  /\ W!Finish /\ wbuf' = << >>
  /\ \/ /\ file' = Overwrite(wbuf, fpos) /\ fpos' = fpos + Len(wbuf)
        /\ UNCHANGED failed
     \/ /\ wbuf # << >> /\ failed' = TRUE /\ UNCHANGED <<file, fpos>>
  /\ UNCHANGED <<buf, recVars, take, start, given, excess>>

-------------------------------------------------------------------------------
(* _rec_close(), by whoever holds the lock.                                *)

\* Faulty variant: the bytes that do not fill a block are forgotten.
CloseAvailNoLast ==
  /\ cpc = "avail" /\ cpc' = "stop"
  /\ UNCHANGED <<workerVars, writerVars, header, isWav, fp, state, size, maxSize,
                 lock, isOpen, historyVars>>

\* It looks, without the writer's mutex, whether bytes are left,
CloseAvail ==
  /\ cpc = "avail" /\ cpc' = IF buf # << >> THEN "last" ELSE "stop"
  /\ UNCHANGED <<workerVars, writerVars, header, isWav, fp, state, size, maxSize,
                 lock, isOpen, historyVars>>

\* asks for a last write of less than a block,
CloseLast ==
  /\ cpc = "last" /\ W!Submit("write") /\ cpc' = "stop"
  /\ UNCHANGED <<writerVars, header, isWav, fp, state, size, maxSize, lock, isOpen,
                 historyVars>>

\* lets the worker end what it has to do,
CloseStop ==
  /\ cpc = "stop" /\ W!Close(TRUE) /\ cpc' = "join"
  /\ UNCHANGED <<writerVars, header, isWav, fp, state, size, maxSize, lock, isOpen,
                 historyVars>>

\* waits for it, frees the writer and what is left in buf, and writes the header at
\* the start of the file.
CloseJoin ==
  /\ cpc = "join" /\ active = "none" /\ pending = << >>
  /\ buf' = << >> /\ fp' = FALSE /\ cpc' = "idle" /\ lock' = "none"
  /\ IF isWav
     THEN /\ file' = Overwrite([i \in 1..HeaderSize |-> HeaderByte], 0)
          /\ header' = size /\ fpos' = HeaderSize
     ELSE UNCHANGED <<file, header, fpos>>
  /\ UNCHANGED <<workerVars, wbuf, isWav, state, size, maxSize, isOpen, historyVars>>

-------------------------------------------------------------------------------
(* The ticker: rec_process() for one message.  Without a writer it crashes *)
(* there.                                                                  *)

\* Whether the message exceeds the maximum size, and what is counted of it.
TooLarge(n) == maxSize # 0 /\ size + n > maxSize

Counted(n) == IF TooLarge(n) THEN maxSize - size ELSE n

\* Faulty variant: the recorder that has reached its maximum size goes on running.
RecProcessRunning(n) ==
  /\ lock = "none" /\ state = "Running" /\ fp /\ given + n <= MaxBytes
  /\ WriterWrite(n)
  /\ size' = size + Counted(n)
  /\ IF TooLarge(n) THEN lock' = "ticker" /\ cpc' = "avail" /\ UNCHANGED state
                    ELSE UNCHANGED <<state, lock, cpc>>
  /\ UNCHANGED <<wbuf, file, fpos, header, isWav, fp, maxSize, isOpen, take, start,
                 failed>>

RecProcess(n) ==
  /\ lock = "none" /\ state = "Running" /\ fp /\ given + n <= MaxBytes
  /\ WriterWrite(n)
  /\ size' = size + Counted(n)
  /\ IF TooLarge(n) THEN state' = "Closed" /\ lock' = "ticker" /\ cpc' = "avail"
                    ELSE UNCHANGED <<state, lock, cpc>>
  /\ UNCHANGED <<wbuf, file, fpos, header, isWav, fp, maxSize, isOpen, take, start,
                 failed>>

-------------------------------------------------------------------------------
(* The control thread.                                                     *)

\* The size that rec_open() starts from: what the header of an existing wav file
\* states, 0 for another existing file or a new one.
SizeAtOpen(isNew) == IF isNew \/ header = None THEN 0 ELSE header

\* rec_open() of a new file, or of the one that was just recorded, to append to
\* it.  The end of the file is looked for only when it has data.  A recorder that
\* is open is closed first, as by RecClose.
RecOpen(isNew) ==
  /\ lock = "none" /\ ~ fp /\ take < MaxTakes
  /\ size' = SizeAtOpen(isNew)
  /\ file' = IF isNew THEN << >> ELSE file
  /\ header' = IF isNew THEN None ELSE header
  /\ fpos' = IF size' > 0 THEN Len(file) ELSE 0
  /\ fp' = TRUE /\ state' = "Paused" /\ isOpen' = TRUE
  /\ pending' = << >> /\ active' = "none" /\ closing' = "no"
  /\ take' = take + 1 /\ start' = fpos' /\ given' = 0 /\ excess' = 0
  /\ failed' = FALSE
  /\ UNCHANGED <<buf, wbuf, isWav, maxSize, lock, cpc>>

\* rec_open() of a file that cannot be opened.
RecOpenFails(isNew) ==
  /\ lock = "none" /\ ~ fp /\ size' = SizeAtOpen(isNew) /\ isOpen' = FALSE
  /\ UNCHANGED <<workerVars, writerVars, header, isWav, fp, state, maxSize, lock,
                 cpc, historyVars>>

\* rec_start() looks at the state only.
RecStart ==
  /\ lock = "none" /\ state = "Paused" /\ state' = "Running"
  /\ UNCHANGED <<workerVars, writerVars, header, isWav, fp, size, maxSize, lock,
                 cpc, isOpen, historyVars>>

\* rec_stop(), whatever the state
RecStop ==
  /\ lock = "none" /\ state' = "Paused"
  /\ UNCHANGED <<workerVars, writerVars, header, isWav, fp, size, maxSize, lock,
                 cpc, isOpen, historyVars>>

\* rec_close()
RecClose ==
  /\ lock = "none" /\ state' = "Closed" /\ isOpen' = FALSE
  /\ IF fp THEN lock' = "control" /\ cpc' = "avail" ELSE UNCHANGED <<lock, cpc>>
  /\ UNCHANGED <<workerVars, writerVars, header, isWav, fp, size, maxSize,
                 historyVars>>

\* rec_set_max_size(), without the lock
RecSetMaxSize ==
  /\ lock # "control" /\ maxSize' \in Limits
  /\ UNCHANGED <<workerVars, writerVars, header, isWav, fp, state, size, lock, cpc,
                 isOpen, historyVars>>

-------------------------------------------------------------------------------
Worker == TakeBlock \/ WriteBlock

Closing == CloseAvail \/ CloseLast \/ CloseStop \/ CloseJoin

Control == \/ \E isNew \in BOOLEAN : RecOpen(isNew) \/ RecOpenFails(isNew)
           \/ RecStart \/ RecStop \/ RecClose \/ RecSetMaxSize

Next == Worker \/ Closing \/ Control \/ \E n \in Lengths : RecProcess(n)

\* The worker goes on, and a call that closes the file is executed to its end.
Fairness == WF_vars(Worker) /\ WF_vars(Closing)

Spec == Init /\ [][Next]_vars /\ Fairness
-------------------------------------------------------------------------------
(* Properties                                                              *)

\* When a recording is closed, every byte that was given to the recorder is in
\* the file, at its place, whatever the worker had written when the close began;
\* except as many of the last ones as the messages had more than a block each, for
\* which no job was asked; except that the header of a wav file covers the first
\* bytes of a new file; and unless the file refused a write.
NothingLost ==
  cpc = "idle" /\ ~ fp /\ ~ failed =>
    \A i \in 1..(given - excess) :
      /\ start + i \in DOMAIN file
      /\ (isWav /\ start + i <= HeaderSize) \/ file[start + i] = <<take, i>>

\* Nobody takes the writer from a recording: a recorder that runs on an open file
\* is not being closed, neither by the limit of size in the ticker nor by the
\* control thread, and when the writer is freed the worker has no job.
WriterKept ==
  /\ state = "Running" /\ fp => closing = "no" /\ lock = "none"
  /\ active # "none" \/ pending # << >> => fp

\* Whoever closes the file gets out of it and releases the filter lock, although
\* it waits for the worker with the lock held.
CloseReturns == lock # "none" ~> lock = "none"

\* The control thread that has opened a file, and not closed it, may start and
\* pause the recording as it likes, as ms_media_recorder_start() does, which refuses
\* only when "No file has been opened": a recorder that runs then has a writer for
\* rec_process() to use.
WriterThere == isOpen /\ state = "Running" => fp

===============================================================================
