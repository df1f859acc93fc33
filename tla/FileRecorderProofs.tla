-------------------------- MODULE FileRecorderProofs --------------------------
(***************************************************************************)
(* Proofs about FileRecorder, for every size of block, of header and of    *)
(* messages, any limits, and any number of openings and bytes.             *)
(*                                                                         *)
(* The inductive invariant is Inv.  Life relates the progress of           *)
(* _rec_close(), the filter lock, the state of the worker and of the       *)
(* recorder.  Room says that the jobs in the worker are enough for the     *)
(* bytes in the buffer, up to the last block while the file is open, and   *)
(* for all of them once the last job has been asked for, except for what   *)
(* the messages had more than a block.  Data says where the bytes given    *)
(* are: first in the file, then in wbuf, then in buf.                      *)
(***************************************************************************)
EXTENDS FileRecorder, TLAPS

\* Zenon first: it is the faster of the two on the many leaves without arithmetic.
USE ZenonT(3), SMTT(30)

Life ==
  /\ lock = "none" <=> cpc = "idle"
  /\ cpc # "idle" => fp /\ state = "Closed"
  /\ fp => (closing = "finish" <=> cpc = "join")
  /\ ~ fp => active = "none" /\ pending = << >> /\ buf = << >> /\ wbuf = << >>
  /\ active = "none" => wbuf = << >>
  /\ fpos <= Len(file)

Room ==
  fp => IF cpc \in {"idle", "avail", "last"}
        THEN Len(buf) < Len(pending) * BlockSize + BlockSize + excess
        ELSE Len(buf) <= Len(pending) * BlockSize + excess

\* The number of bytes of this take that are in the file.
Written == given - Len(buf) - Len(wbuf)

Data ==
  fp /\ ~ failed =>
    /\ Written >= 0 /\ fpos = start + Written
    /\ \A i \in 1..Written : file[start + i] = <<take, i>>
    /\ \A i \in 1..Len(wbuf) : wbuf[i] = <<take, Written + i>>
    /\ \A i \in 1..Len(buf) : buf[i] = <<take, Written + Len(wbuf) + i>>

Inv == TypeOK /\ Life /\ Room /\ Data /\ NothingLost

-------------------------------------------------------------------------------
\* What is in the file after data was written at an offset within it.
LEMMA Overwritten ==
  ASSUME file \in Seq(Cells), NEW data \in Seq(Cells), NEW at \in Nat, at <= Len(file)
  PROVE  /\ Overwrite(data, at) \in Seq(Cells)
         /\ Len(Overwrite(data, at)) >= Len(file)
         /\ Len(Overwrite(data, at)) >= at + Len(data)
         /\ \A i \in 1..Len(data) : Overwrite(data, at)[at + i] = data[i]
         /\ \A i \in 1..Len(file) :
              i <= at \/ i > at + Len(data) => Overwrite(data, at)[i] = file[i]
<1> DEFINE n == IF at + Len(data) > Len(file) THEN at + Len(data) ELSE Len(file)
           cell(i) == IF i > at /\ i <= at + Len(data) THEN data[i - at] ELSE file[i]
<1>1. n \in Nat /\ n >= Len(file) /\ n >= at + Len(data)
  OBVIOUS
<1>2. \A i \in 1..n : cell(i) \in Cells
  OBVIOUS
<1>3. Overwrite(data, at) = [i \in 1..n |-> cell(i)]
  BY DEF Overwrite
<1> HIDE DEF n, cell
<1>4. Overwrite(data, at) \in Seq(Cells) /\ Len(Overwrite(data, at)) = n
  BY <1>1, <1>2, <1>3
<1>5. \A i \in 1..n : Overwrite(data, at)[i] = cell(i)
  BY <1>3
<1>6. \A i \in 1..Len(data) : at + i \in 1..n /\ cell(at + i) = data[i]
  BY <1>1 DEF cell
<1>7. \A i \in 1..Len(file) : i \in 1..n /\ (i <= at \/ i > at + Len(data) => cell(i) = file[i])
  BY <1>1 DEF cell
<1> QED
  BY <1>1, <1>4, <1>5, <1>6, <1>7

-------------------------------------------------------------------------------
\* The worker and the writer: TakeBlock moves bytes from buf to wbuf,
LEMMA TakeBlockInv == Inv /\ TakeBlock => Inv'
<1> SUFFICES ASSUME Inv, TakeBlock PROVE Inv'
  OBVIOUS
<1> USE SizesAssumption
<1> DEFINE n == IF Len(buf) < BlockSize THEN Len(buf) ELSE BlockSize
<1>0. TypeOK /\ Life /\ Room /\ Data /\ NothingLost
  BY DEF Inv
<1>1. /\ n \in 0..Len(buf) /\ n <= BlockSize /\ (n < BlockSize => n = Len(buf))
      /\ wbuf' = SubSeq(buf, 1, n) /\ buf' = SubSeq(buf, n + 1, Len(buf))
  BY <1>0 DEF TypeOK, TakeBlock
<1>2. /\ UNCHANGED <<file, fpos, recVars, historyVars, closing>>
      /\ active = "none" /\ pending # << >> /\ active' = Head(pending) /\ pending' = Tail(pending)
  BY DEF TakeBlock, W!Start
<1> HIDE DEF n
<1>3. /\ wbuf' \in Seq(Cells) /\ Len(wbuf') = n /\ \A i \in 1..n : wbuf'[i] = buf[i]
      /\ buf' \in Seq(Cells) /\ Len(buf') = Len(buf) - n
      /\ \A i \in 1..(Len(buf) - n) : buf'[i] = buf[n + i]
  BY <1>0, <1>1 DEF TypeOK
<1>4. active' = "write" /\ pending' \in Seq({"write"}) /\ Len(pending') = Len(pending) - 1
  BY <1>0, <1>2 DEF TypeOK
<1>5. TypeOK'
  BY <1>0, <1>2, <1>3, <1>4 DEF TypeOK, recVars, historyVars
<1>6. Life'
  BY <1>0, <1>2, <1>4 DEF Life, TypeOK, recVars
<1>7. Room'
  <2>1. Len(pending) \in Nat \ {0} /\ Len(buf) \in Nat /\ excess \in Nat /\ excess' = excess
    BY <1>0, <1>2 DEF TypeOK, historyVars
  <2>2. Len(pending') * BlockSize = Len(pending) * BlockSize - BlockSize
    BY <1>4, <2>1
  <2>3. Len(pending) * BlockSize \in Nat /\ Len(pending) * BlockSize >= BlockSize
    BY <2>1
  <2> QED
    BY <1>0, <1>1, <1>2, <1>3, <2>1, <2>2, <2>3 DEF Room, recVars
<1>8. Data'
  <2> SUFFICES ASSUME fp, ~ failed PROVE Data'
    BY <1>2 DEF Data, recVars, historyVars
  <2>1. wbuf = << >> /\ Len(wbuf) = 0
    BY <1>0, <1>2 DEF Life
  <2>2. /\ Written' = Written /\ Written = given - Len(buf) /\ given' = given /\ take' = take
        /\ Len(buf) \in Nat /\ given \in Nat /\ n \in Nat
    <3>1. Len(buf) \in Nat /\ given \in Nat /\ n \in Nat /\ given' = given /\ take' = take
      BY <1>0, <1>1, <1>2 DEF historyVars, TypeOK
    <3>2. Written' = given' - Len(buf') - Len(wbuf') /\ Written = given - Len(buf) - Len(wbuf)
      BY DEF Written
    <3> QED
      BY <1>3, <2>1, <3>1, <3>2
  <2>3. \A i \in 1..Len(buf) : buf[i] = <<take, Written + i>>
    BY <1>0, <2>1, <2>2 DEF Data
  <2>4. \A i \in 1..Len(wbuf') : wbuf'[i] = <<take', Written' + i>>
    <3> SUFFICES ASSUME NEW i \in 1..n PROVE wbuf'[i] = <<take', Written' + i>>
      BY <1>3
    <3>1. i \in 1..Len(buf)
      BY <1>1, <2>2
    <3> QED
      BY <1>3, <2>2, <2>3, <3>1
  <2>5. \A i \in 1..Len(buf') : buf'[i] = <<take', Written' + Len(wbuf') + i>>
    <3> SUFFICES ASSUME NEW i \in 1..(Len(buf) - n)
                 PROVE  buf'[i] = <<take', Written' + Len(wbuf') + i>>
      BY <1>3
    <3>1. n + i \in 1..Len(buf) /\ Written + (n + i) = Written' + Len(wbuf') + i
      BY <1>1, <1>3, <2>2, SMTT(40)
    <3> QED
      BY <1>2, <1>3, <2>3, <3>1 DEF historyVars
  <2> QED
    BY <1>0, <1>2, <2>2, <2>4, <2>5 DEF Data, historyVars
<1>9. NothingLost'
  BY <1>0, <1>2 DEF NothingLost, recVars, historyVars
<1> QED
  BY <1>5, <1>6, <1>7, <1>8, <1>9 DEF Inv

\* WriteBlock moves them from wbuf to the file, or loses them, which is recorded.
LEMMA WriteBlockInv == Inv /\ WriteBlock => Inv'
<1> SUFFICES ASSUME Inv, WriteBlock PROVE Inv'
  OBVIOUS
<1>0. TypeOK /\ Life /\ Room /\ Data /\ NothingLost
  BY DEF Inv
<1>1. /\ UNCHANGED <<buf, recVars, take, start, given, excess, pending, closing>>
      /\ active # "none" /\ active' = "none" /\ wbuf' = << >> /\ Len(wbuf') = 0
  BY DEF WriteBlock, W!Finish
<1>2. fp /\ fp'
  BY <1>0, <1>1 DEF Life, recVars
<1>3. /\ Room'
      /\ NothingLost'
  BY <1>0, <1>1, <1>2 DEF Room, NothingLost, recVars
<1>4. CASE UNCHANGED <<file, fpos>> /\ failed' = TRUE
  <2>1. TypeOK' /\ Life'
    BY <1>0, <1>1, <1>4 DEF TypeOK, Life, recVars
  <2>2. Data'
    BY <1>4 DEF Data
  <2> QED
    BY <1>3, <2>1, <2>2 DEF Inv
<1>5. CASE file' = Overwrite(wbuf, fpos) /\ fpos' = fpos + Len(wbuf) /\ UNCHANGED failed
  <2>1. /\ file \in Seq(Cells) /\ wbuf \in Seq(Cells) /\ fpos \in Nat /\ fpos <= Len(file)
        /\ Len(wbuf) \in Nat /\ Len(buf) \in Nat /\ given \in Nat /\ start \in Nat
    BY <1>0 DEF TypeOK, Life
  <2>2. /\ file' \in Seq(Cells) /\ Len(file') >= fpos + Len(wbuf)
        /\ \A i \in 1..Len(wbuf) : file'[fpos + i] = wbuf[i]
        /\ \A i \in 1..Len(file) : i <= fpos => file'[i] = file[i]
    BY <1>5, <2>1, Overwritten
  <2>3. TypeOK'
    BY <1>0, <1>1, <1>5, <2>1, <2>2 DEF TypeOK, recVars
  <2>4. Life'
    BY <1>0, <1>1, <1>5, <2>1, <2>2 DEF Life, recVars
  <2>5. Data'
    <3> SUFFICES ASSUME ~ failed PROVE Data'
      BY <1>5 DEF Data
    <3> DEFINE w == Written
    <3>0. w = given - Len(buf) - Len(wbuf) /\ w \in Int
      BY <2>1 DEF Written
    <3>a. fp /\ ~ failed
      BY <1>0, <1>2
    <3>1. /\ w = given - Len(buf) - Len(wbuf) /\ w \in Nat /\ fpos = start + w
          /\ \A i \in 1..w : file[start + i] = <<take, i>>
          /\ \A i \in 1..Len(wbuf) : wbuf[i] = <<take, w + i>>
          /\ \A i \in 1..Len(buf) : buf[i] = <<take, w + Len(wbuf) + i>>
      <4>1. /\ w >= 0 /\ fpos = start + w
            /\ \A i \in 1..w : file[start + i] = <<take, i>>
            /\ \A i \in 1..Len(wbuf) : wbuf[i] = <<take, w + i>>
            /\ \A i \in 1..Len(buf) : buf[i] = <<take, w + Len(wbuf) + i>>
        BY <1>0, <3>a, Zenon DEF Data
      <4>2. w \in Nat
        BY <3>0, <4>1
      <4> QED BY <3>0, <4>1, <4>2
    <3> HIDE DEF w
    <3>2. Written' = w + Len(wbuf)
      <4>1. Written' = given' - Len(buf') - Len(wbuf')
        BY DEF Written
      <4> QED
        BY <1>1, <2>1, <3>1, <4>1
    <3>3. \A i \in 1..Written' : file'[start + i] = <<take, i>>
      <4> SUFFICES ASSUME NEW i \in 1..(w + Len(wbuf)) PROVE file'[start + i] = <<take, i>>
        BY <3>2
      <4>1. CASE i <= w
        <5>1. i \in 1..w /\ start + i \in 1..Len(file) /\ start + i <= fpos
          BY <2>1, <3>1, <4>1
        <5> QED
          BY <2>2, <3>1, <5>1
      <4>2. CASE i > w
        <5>1. i - w \in 1..Len(wbuf) /\ fpos + (i - w) = start + i /\ w + (i - w) = i
          BY <2>1, <3>1, <4>2
        <5>2. file'[fpos + (i - w)] = wbuf[i - w] /\ wbuf[i - w] = <<take, w + (i - w)>>
          BY <2>2, <3>1, <5>1
        <5> QED
          BY <5>1, <5>2
      <4> QED
        BY <2>1, <3>1, <4>1, <4>2
    <3>4. \A i \in 1..Len(buf') : buf'[i] = <<take', Written' + Len(wbuf') + i>>
      <4> SUFFICES ASSUME NEW i \in 1..Len(buf)
                   PROVE  buf[i] = <<take, w + Len(wbuf) + 0 + i>>
        BY <1>1, <3>2
      <4>1. w + Len(wbuf) + 0 + i = w + Len(wbuf) + i
        BY <2>1, <3>1
      <4> QED
        BY <3>1, <4>1
    <3>5. Written' >= 0 /\ fpos' = start' + Written'
      BY <1>1, <1>5, <2>1, <3>1, <3>2
    <3>6. \A i \in 1..Written' : file'[start' + i] = <<take', i>>
      BY <1>1, <3>3
    <3>7. \A i \in 1..Len(wbuf') : wbuf'[i] = <<take', Written' + i>>
      BY <1>1
    <3> HIDE DEF Written
    <3> QED
      BY <3>4, <3>5, <3>6, <3>7 DEF Data
  <2> QED
    BY <1>3, <2>3, <2>4, <2>5 DEF Inv
<1> QED
  BY <1>4, <1>5 DEF WriteBlock

-------------------------------------------------------------------------------
\* The steps that leave the bytes where they are: those of the methods that
\* only change the state of the recorder, and the start of a close.
Untouched == UNCHANGED <<pending, active, writerVars, isWav, fp, header, historyVars>>

LEMMA UntouchedInv ==
  ASSUME Inv, Untouched PROVE Data' /\ (cpc' = "idle" /\ cpc = "idle" => NothingLost')
<1>1. Data'
  BY DEF Inv, Untouched, Data, Written, writerVars, historyVars
<1>2. cpc' = "idle" /\ cpc = "idle" => NothingLost'
  BY DEF Inv, Untouched, NothingLost, writerVars, historyVars
<1> QED
  BY <1>1, <1>2

OpenFails == \E isNew \in BOOLEAN : RecOpenFails(isNew)

LEMMA MethodInv ==
  Inv /\ (RecStart \/ RecStop \/ RecClose \/ RecSetMaxSize \/ OpenFails) => Inv'
<1> SUFFICES ASSUME Inv, RecStart \/ RecStop \/ RecClose \/ RecSetMaxSize \/ OpenFails
             PROVE  Inv'
  OBVIOUS
<1>1. Untouched /\ UNCHANGED closing
  BY DEF RecStart, RecStop, RecClose, RecSetMaxSize, OpenFails, RecOpenFails, Untouched, workerVars
<1>2. Data'
  BY <1>1, UntouchedInv
<1>3. NothingLost'
  <2>1. CASE cpc = "idle" /\ cpc' = "idle"
    BY <1>1, <2>1, UntouchedInv
  <2>2. CASE cpc # "idle" \/ cpc' # "idle"
    BY <1>1, <2>2 DEF Inv, Life, NothingLost, RecStart, RecStop, RecClose, RecSetMaxSize,
                                 OpenFails, RecOpenFails
  <2> QED
    BY <2>1, <2>2
<1>4. TypeOK' /\ Life' /\ Room'
  <2>1. CASE RecStart
    BY <2>1 DEF Inv, TypeOK, Life, Room, RecStart, workerVars, writerVars, historyVars
  <2>2. CASE RecStop
    BY <2>2 DEF Inv, TypeOK, Life, Room, RecStop, workerVars, writerVars, historyVars
  <2>3. CASE RecClose
    BY <2>3 DEF Inv, TypeOK, Life, Room, RecClose, workerVars, writerVars, historyVars
  <2>4. CASE RecSetMaxSize
    BY <2>4 DEF Inv, TypeOK, Life, Room, RecSetMaxSize, workerVars, writerVars, historyVars
  <2>5. CASE OpenFails
    <3>1. /\ size' \in Nat /\ isOpen' = FALSE
          /\ UNCHANGED <<workerVars, writerVars, header, isWav, fp, state, maxSize, lock, cpc,
                         historyVars>>
      BY <2>5 DEF Inv, TypeOK, OpenFails, RecOpenFails, SizeAtOpen, None
    <3> QED
      BY <3>1 DEF Inv, TypeOK, Life, Room, workerVars, writerVars, historyVars
  <2> QED
    BY <2>1, <2>2, <2>3, <2>4, <2>5
<1> QED
  BY <1>2, <1>3, <1>4 DEF Inv

\* The steps of _rec_close(): the last job makes room for the last bytes,
LEMMA CloseAvailInv == Inv /\ CloseAvail => Inv'
<1> SUFFICES ASSUME Inv, CloseAvail PROVE Inv'
  OBVIOUS
<1>1. Untouched /\ UNCHANGED <<closing, state, size, maxSize, lock, isOpen>>
  BY DEF CloseAvail, Untouched, workerVars
<1>2. Data'
  BY <1>1, UntouchedInv
<1>3. NothingLost'
  BY <1>1 DEF Inv, Life, NothingLost, CloseAvail
<1>4. TypeOK' /\ Life'
  BY DEF Inv, TypeOK, Life, CloseAvail, workerVars, writerVars, historyVars
<1>5. Room'
  <2>1. CASE buf # << >>
    BY <2>1 DEF Inv, Room, CloseAvail, workerVars, writerVars, historyVars
  <2>2. CASE buf = << >>
    <3>1. Len(buf) = 0 /\ Len(pending) * BlockSize \in Nat /\ excess \in Nat
      BY <2>2, SizesAssumption DEF Inv, TypeOK
    <3> QED
      BY <2>2, <3>1 DEF Room, CloseAvail, workerVars, writerVars, historyVars
  <2> QED
    BY <2>1, <2>2
<1> QED
  BY <1>2, <1>3, <1>4, <1>5 DEF Inv

LEMMA CloseLastInv == Inv /\ CloseLast => Inv'
<1> SUFFICES ASSUME Inv, CloseLast PROVE Inv'
  OBVIOUS
<1>1. /\ UNCHANGED <<writerVars, historyVars, header, isWav, fp, state, size, maxSize, lock,
                     isOpen, active, closing>>
      /\ cpc = "last" /\ cpc' = "stop" /\ pending' = Append(pending, "write")
  BY DEF CloseLast, W!Submit
<1>2. pending' \in Seq({"write"}) /\ Len(pending') = Len(pending) + 1 /\ Len(pending) \in Nat
  BY <1>1 DEF Inv, TypeOK
<1>3. TypeOK' /\ Life'
  BY <1>1, <1>2 DEF Inv, TypeOK, Life, writerVars, historyVars
<1>4. Room'
  <2>1. Len(pending') * BlockSize = Len(pending) * BlockSize + BlockSize
    BY <1>2, SizesAssumption
  <2>2. /\ Len(buf) < Len(pending) * BlockSize + BlockSize + excess
        /\ Len(buf) \in Nat /\ excess \in Nat
    BY <1>1 DEF Inv, Life, Room, TypeOK
  <2>3. Len(pending) * BlockSize \in Nat
    BY <1>2, SizesAssumption
  <2>4. Len(buf') <= Len(pending') * BlockSize + excess'
    BY <1>1, <2>1, <2>2, <2>3, SizesAssumption DEF writerVars, historyVars
  <2> QED
    BY <1>1, <2>4 DEF Room
<1>5. Data' /\ NothingLost'
  BY <1>1 DEF Inv, Life, Data, Written, NothingLost, writerVars, historyVars
<1> QED
  BY <1>3, <1>4, <1>5 DEF Inv

LEMMA CloseStopInv == Inv /\ CloseStop => Inv'
<1> SUFFICES ASSUME Inv, CloseStop PROVE Inv'
  OBVIOUS
<1>1. /\ UNCHANGED <<writerVars, historyVars, header, isWav, fp, state, size, maxSize, lock,
                     isOpen, active, pending>>
      /\ cpc = "stop" /\ cpc' = "join" /\ closing' = "finish"
  BY DEF CloseStop, W!Close
<1>2. TypeOK' /\ Life' /\ Room'
  BY <1>1 DEF Inv, TypeOK, Life, Room, writerVars, historyVars
<1>3. Data' /\ NothingLost'
  BY <1>1 DEF Inv, Life, Data, Written, NothingLost, writerVars, historyVars
<1> QED
  BY <1>2, <1>3 DEF Inv

\* so that no more than the excess is left when the worker has ended.
LEMMA CloseJoinInv == Inv /\ CloseJoin => Inv'
<1> SUFFICES ASSUME Inv, CloseJoin PROVE Inv'
  OBVIOUS
<1> USE SizesAssumption
<1> DEFINE hdr == [i \in 1..HeaderSize |-> HeaderByte]
<1>1. /\ UNCHANGED <<pending, active, closing, wbuf, isWav, state, size, maxSize, isOpen, historyVars>>
      /\ cpc = "join" /\ active = "none" /\ pending = << >>
      /\ buf' = << >> /\ fp' = FALSE /\ cpc' = "idle" /\ lock' = "none"
  BY DEF CloseJoin, workerVars
<1>2. /\ fp /\ state = "Closed" /\ wbuf = << >> /\ fpos <= Len(file)
      /\ TypeOK /\ Data
  BY <1>1 DEF Inv, Life
<1>3. Len(buf) \in Nat /\ Len(buf) <= excess /\ Len(wbuf) = 0 /\ excess \in Nat
  <2>1. Len(buf) <= Len(pending) * BlockSize + excess /\ Len(pending) = 0
    BY <1>1, <1>2 DEF Inv, Room
  <2>2. Len(pending) * BlockSize = 0
    BY <2>1
  <2>3. Len(buf) \in Nat /\ excess \in Nat
    BY <1>2 DEF TypeOK
  <2> QED
    BY <1>2, <2>1, <2>2, <2>3
<1>4. hdr \in Seq(Cells) /\ Len(hdr) = HeaderSize
  BY DEF Cells, HeaderByte
<1>5. /\ file' \in Seq(Cells) /\ fpos' \in Nat /\ fpos' <= Len(file') /\ header' \in Nat \cup {None}
      /\ Len(file') >= Len(file)
      /\ \A i \in 1..Len(file) : (isWav /\ i <= HeaderSize) \/ file'[i] = file[i]
  <2>1. CASE isWav
    <3>1. file' = Overwrite(hdr, 0) /\ header' = size /\ fpos' = HeaderSize
      BY <2>1 DEF CloseJoin
    <3> HIDE DEF hdr
    <3>2. file \in Seq(Cells) /\ 0 <= Len(file) /\ 0 \in Nat
      BY <1>2 DEF TypeOK
    <3>3. /\ Overwrite(hdr, 0) \in Seq(Cells)
          /\ Len(Overwrite(hdr, 0)) >= Len(file)
          /\ Len(Overwrite(hdr, 0)) >= 0 + Len(hdr)
          /\ \A i \in 1..Len(file) :
               i <= 0 \/ i > 0 + Len(hdr) => Overwrite(hdr, 0)[i] = file[i]
      BY <1>4, <3>2, Overwritten, Zenon
    <3>4. file' \in Seq(Cells) /\ Len(file') >= Len(file) /\ Len(file') >= HeaderSize
      <4>1. file' \in Seq(Cells) /\ Len(file') >= Len(file) /\ Len(file') >= 0 + Len(hdr)
        BY <3>1, <3>3, Zenon
      <4>2. 0 + Len(hdr) = HeaderSize
        BY <1>4
      <4> QED BY <4>1, <4>2, Zenon
    <3>5. header' \in Nat \cup {None} /\ fpos' \in Nat /\ fpos' <= Len(file')
      BY <1>2, <3>1, <3>4 DEF TypeOK
    <3>6. \A i \in 1..Len(file) : i <= HeaderSize \/ file'[i] = file[i]
      BY <1>4, <3>1, <3>3
    <3> QED
      BY <2>1, <3>4, <3>5, <3>6
  <2>2. CASE ~ isWav
    BY <1>2, <2>2 DEF CloseJoin, TypeOK
  <2> QED
    BY <2>1, <2>2
<1> HIDE DEF hdr
<1>6. TypeOK'
  BY <1>1, <1>2, <1>5 DEF TypeOK, historyVars
<1>7. Life' /\ Room' /\ Data'
  BY <1>1, <1>2, <1>5 DEF Life, Room, Data
<1>8. NothingLost'
  <2> SUFFICES ASSUME ~ failed, NEW i \in 1..(given - excess)
               PROVE  /\ start + i \in DOMAIN file'
                      /\ (isWav /\ start + i <= HeaderSize) \/ file'[start + i] = <<take, i>>
    BY <1>1 DEF NothingLost, historyVars
  <2>1. /\ given \in Nat /\ start \in Nat /\ file \in Seq(Cells) /\ Len(file) \in Nat
    BY <1>2 DEF TypeOK
  <2>2. Written = given - Len(buf) /\ i \in 1..Written
    BY <1>3, <2>1 DEF Written
  <2>a. fpos = start + Written /\ file[start + i] = <<take, i>>
    BY <1>2, <2>2, Zenon DEF Data
  <2>3. start + i \in 1..Len(file)
    BY <1>2, <1>3, <2>1, <2>2, <2>a
  <2>4. start + i \in 1..Len(file') /\ DOMAIN file' = 1..Len(file')
    BY <1>5, <2>1, <2>3
  <2> QED
    BY <1>5, <2>a, <2>3, <2>4
<1> QED
  BY <1>6, <1>7, <1>8 DEF Inv

-------------------------------------------------------------------------------
\* An opening starts a take, of which nothing is written yet.
LEMMA RecOpenInv == ASSUME NEW isNew \in BOOLEAN PROVE Inv /\ RecOpen(isNew) => Inv'
<1> SUFFICES ASSUME Inv, RecOpen(isNew) PROVE Inv'
  OBVIOUS
<1> USE SizesAssumption
<1>1. /\ UNCHANGED <<buf, wbuf, isWav, maxSize, lock, cpc>> /\ lock = "none" /\ cpc = "idle"
      /\ buf = << >> /\ wbuf = << >> /\ Len(buf) = 0 /\ Len(wbuf) = 0 /\ TypeOK
      /\ pending' = << >> /\ active' = "none" /\ closing' = "no"
      /\ fp' = TRUE /\ state' = "Paused" /\ isOpen' = TRUE
      /\ take' = take + 1 /\ start' = fpos' /\ given' = 0 /\ excess' = 0 /\ failed' = FALSE
  BY DEF Inv, Life, RecOpen
<1>2. /\ size' \in Nat /\ header' \in Nat \cup {None} /\ (isNew => size' = 0)
      /\ file' \in Seq(Cells) /\ (isNew => file' = << >>) /\ (~ isNew => file' = file)
      /\ fpos' \in Nat /\ fpos' <= Len(file')
  <2>1. size' \in Nat /\ (isNew => size' = 0)
    BY <1>1 DEF RecOpen, SizeAtOpen, TypeOK, None
  <2>2. /\ header' \in Nat \cup {None}
        /\ (isNew => file' = << >>) /\ (~ isNew => file' = file) /\ file' \in Seq(Cells)
    BY <1>1 DEF RecOpen, TypeOK
  <2>3. fpos' = IF size' > 0 THEN Len(file) ELSE 0
    BY DEF RecOpen
  <2> QED
    BY <1>1, <2>1, <2>2, <2>3 DEF TypeOK
<1>3. TypeOK'
  <2>1. take' \in Nat /\ start' \in Nat /\ given' \in Nat
    BY <1>1, <1>2 DEF TypeOK
  <2>2. pending' \in Seq({"write"})
    BY <1>1
  <2> QED
    BY <1>1, <1>2, <2>1, <2>2 DEF TypeOK
<1>4. Life' /\ Room' /\ NothingLost'
  BY <1>1, <1>2 DEF Life, Room, NothingLost
<1>5. Data'
  <2>1. Written' = 0
    <3>1. Written' = given' - Len(buf') - Len(wbuf')
      BY DEF Written
    <3> QED
      BY <1>1, <3>1
  <2>2. Len(buf') = 0 /\ Len(wbuf') = 0 /\ fpos' = start' + Written'
    <3>1. buf' = buf /\ wbuf' = wbuf /\ start' = fpos' /\ fpos' \in Nat
      BY <1>1, <1>2
    <3>2. Len(buf') = 0 /\ Len(wbuf') = 0
      BY <1>1, <3>1
    <3>3. start' + 0 = start'
      <4>1. start' \in Nat
        BY <3>1, Zenon
      <4>2. \A k \in Nat : k + 0 = k
        OBVIOUS
      <4> QED
        BY <4>1, <4>2, Zenon
    <3> QED
      BY <2>1, <3>1, <3>2, <3>3, Zenon
  <2> HIDE DEF Written
  <2> QED
    BY <2>1, <2>2 DEF Data
<1> QED
  BY <1>3, <1>4, <1>5 DEF Inv

\* A message goes to the end of buf, and asks for a job when it completes a block.
LEMMA Joined ==
  ASSUME NEW a \in Seq(Cells), NEW b \in Seq(Cells)
  PROVE  /\ a \o b \in Seq(Cells) /\ Len(a \o b) = Len(a) + Len(b) /\ Len(a) \in Nat
         /\ \A i \in 1..Len(a) : (a \o b)[i] = a[i]
         /\ \A i \in 1..Len(b) : (a \o b)[Len(a) + i] = b[i]
OBVIOUS

LEMMA Sums ==
  ASSUME NEW l \in Nat, NEW n \in Nat, NEW r \in Nat, NEW b \in Nat, NEW e \in Nat, NEW f \in Nat,
         l < r + b + e, n + e <= b + f
  PROVE  l + n < r + b + b + f
OBVIOUS

LEMMA RecProcessInv == ASSUME NEW n \in Lengths PROVE Inv /\ RecProcess(n) => Inv'
<1> SUFFICES ASSUME Inv, RecProcess(n) PROVE Inv'
  OBVIOUS
<1> USE SizesAssumption
<1>1. /\ UNCHANGED <<wbuf, file, fpos, header, isWav, fp, maxSize, isOpen, take, start, failed,
                     active, closing>>
      /\ lock = "none" /\ cpc = "idle" /\ state = "Running" /\ fp
      /\ TypeOK /\ Life /\ Room /\ Data
      /\ buf' = buf \o NewBytes(n) /\ given' = given + n
      /\ excess' = excess + (IF n > BlockSize THEN n - BlockSize ELSE 0)
      /\ \/ lock' = "ticker" /\ cpc' = "avail" /\ state' = "Closed"
         \/ UNCHANGED <<lock, cpc, state>>
  BY DEF Inv, Life, RecProcess, WriterWrite, W!Submit, workerVars
<1>2. /\ n \in Nat /\ given \in Nat /\ take \in Nat /\ start \in Nat
      /\ excess \in Nat /\ excess' \in Nat /\ excess' >= excess /\ n + excess <= BlockSize + excess'
  BY <1>1 DEF TypeOK
<1>3. /\ NewBytes(n) \in Seq(Cells) /\ Len(NewBytes(n)) = n
      /\ \A i \in 1..n : NewBytes(n)[i] = <<take, given + i>>
  BY <1>2 DEF NewBytes, Cells
<1>4. /\ buf' \in Seq(Cells) /\ Len(buf') = Len(buf) + n /\ Len(buf) \in Nat
      /\ \A i \in 1..Len(buf) : buf'[i] = buf[i]
      /\ \A i \in 1..n : buf'[Len(buf) + i] = NewBytes(n)[i]
  <2>1. buf \in Seq(Cells)
    BY <1>1 DEF TypeOK
  <2> DEFINE nb == NewBytes(n)
  <2>2. nb \in Seq(Cells) /\ Len(nb) = n /\ buf' = buf \o nb
    BY <1>1, <1>3
  <2> HIDE DEF nb
  <2>3. /\ buf \o nb \in Seq(Cells) /\ Len(buf \o nb) = Len(buf) + Len(nb) /\ Len(buf) \in Nat
        /\ \A i \in 1..Len(buf) : (buf \o nb)[i] = buf[i]
        /\ \A i \in 1..Len(nb) : (buf \o nb)[Len(buf) + i] = nb[i]
    BY <2>1, <2>2, Joined
  <2>4. /\ buf' \in Seq(Cells) /\ Len(buf') = Len(buf) + n /\ Len(buf) \in Nat
        /\ \A i \in 1..Len(buf) : buf'[i] = buf[i]
        /\ \A i \in 1..n : buf'[Len(buf) + i] = nb[i]
    BY <2>2, <2>3, Zenon
  <2> QED
    BY <2>4 DEF nb
<1>5. /\ pending' \in Seq({"write"}) /\ Len(pending) \in Nat
      /\ Len(buf') >= BlockSize => Len(pending') = Len(pending) + 1
      /\ Len(buf') < BlockSize => pending' = pending
  <2>1. pending' = IF Len(buf') >= BlockSize THEN Append(pending, "write") ELSE pending
    BY DEF RecProcess, WriterWrite, W!Submit, workerVars
  <2>2. pending \in Seq({"write"})
    BY <1>1 DEF TypeOK
  <2>3. Append(pending, "write") \in Seq({"write"}) /\ Len(Append(pending, "write")) = Len(pending) + 1
    BY <2>2
  <2>4. Len(buf') \in Nat
    BY <1>2, <1>4
  <2>5. CASE Len(buf') >= BlockSize
    BY <2>1, <2>2, <2>3, <2>4, <2>5
  <2>6. CASE Len(buf') < BlockSize
    BY <2>1, <2>2, <2>4, <2>6
  <2> QED
    BY <2>4, <2>5, <2>6
<1>6. size' \in Nat
  BY <1>1, <1>2 DEF RecProcess, Counted, TooLarge, TypeOK
<1>7. TypeOK' /\ Life'
  BY <1>1, <1>2, <1>4, <1>5, <1>6 DEF TypeOK, Life
<1>8. Room'
  <2> DEFINE r == Len(pending) * BlockSize
  <2>1. r \in Nat /\ Len(buf) < r + BlockSize + excess
    BY <1>1, <1>5 DEF Room
  <2>2. (Len(pending) + 1) * BlockSize = r + BlockSize
    BY <1>5
  <2>3. Len(buf') < Len(pending') * BlockSize + BlockSize + excess'
    <3>1. CASE Len(buf') >= BlockSize
      <4>1. Len(pending') * BlockSize = r + BlockSize
        BY <1>5, <2>2, <3>1
      <4>2. Len(buf') = Len(buf) + n /\ Len(buf) \in Nat /\ BlockSize \in Nat
        BY <1>4, Zenon
      <4> HIDE DEF r
      <4>3. Len(buf) + n < r + BlockSize + BlockSize + excess'
        <5>1. /\ n \in Nat /\ excess \in Nat /\ excess' \in Nat /\ r \in Nat
              /\ n + excess <= BlockSize + excess' /\ Len(buf) < r + BlockSize + excess
          BY <1>2, <2>1, Zenon
        <5> QED BY <4>2, <5>1, Sums
      <4> QED
        BY <4>1, <4>2, <4>3, Zenon
    <3>2. CASE Len(buf') < BlockSize
      <4>1. Len(pending') * BlockSize = r
        BY <1>5, <3>2
      <4> HIDE DEF r
      <4> QED
        BY <1>2, <1>4, <2>1, <3>2, <4>1
    <3> QED
      BY <1>2, <1>4, <3>1, <3>2
  <2> QED
    BY <1>1, <2>3 DEF Room
<1>9. Data'
  <2> SUFFICES ASSUME ~ failed PROVE Data'
    BY <1>1 DEF Data
  <2> DEFINE w == Written
  <2>1. /\ w \in Nat /\ w = given - Len(buf) - Len(wbuf) /\ fpos = start + w /\ Len(wbuf) \in Nat
        /\ \A i \in 1..w : file[start + i] = <<take, i>>
        /\ \A i \in 1..Len(wbuf) : wbuf[i] = <<take, w + i>>
        /\ \A i \in 1..Len(buf) : buf[i] = <<take, w + Len(wbuf) + i>>
    <3>1. Len(wbuf) \in Nat
      BY <1>1 DEF TypeOK
    <3>2. w = given - Len(buf) - Len(wbuf)
      BY DEF Written
    <3>3. w \in Nat
      BY <1>1, <1>2, <1>4, <3>1, <3>2 DEF Data
    <3> HIDE DEF Written
    <3> QED
      BY <1>1, <3>1, <3>2, <3>3 DEF Data
  <2> HIDE DEF w
  <2>2. Written' = w
    <3>1. Written' = given' - Len(buf') - Len(wbuf')
      BY DEF Written
    <3>2. given' = given + n /\ Len(buf') = Len(buf) + n /\ wbuf' = wbuf
      BY <1>1, <1>4, Zenon
    <3>3. /\ w = given - Len(buf) - Len(wbuf)
          /\ given \in Nat /\ n \in Nat /\ Len(buf) \in Nat /\ Len(wbuf) \in Nat
      BY <1>2, <1>4, <2>1, Zenon
    <3>4. (given + n) - (Len(buf) + n) - Len(wbuf) = w
      BY <3>3
    <3> QED
      BY <3>1, <3>2, <3>4, Zenon
  <2>3. \A i \in 1..Len(buf') : buf'[i] = <<take, w + Len(wbuf) + i>>
    <3> SUFFICES ASSUME NEW i \in 1..(Len(buf) + n) PROVE buf'[i] = <<take, w + Len(wbuf) + i>>
      BY <1>4
    <3>1. CASE i <= Len(buf)
      <4>1. i \in 1..Len(buf)
        BY <1>4, <3>1
      <4> QED
        BY <1>4, <2>1, <4>1
    <3>2. CASE i > Len(buf)
      <4>1. /\ i - Len(buf) \in 1..n /\ Len(buf) + (i - Len(buf)) = i
            /\ given + (i - Len(buf)) = w + Len(wbuf) + i
        BY <1>2, <1>4, <2>1, <3>2
      <4>2. buf'[Len(buf) + (i - Len(buf))] = <<take, given + (i - Len(buf))>>
        BY <1>3, <1>4, <4>1
      <4> QED
        BY <4>1, <4>2
    <3> QED
      BY <1>2, <1>4, <3>1, <3>2
  <2>4. /\ Written' >= 0 /\ fpos' = start' + Written'
        /\ \A i \in 1..Written' : file'[start' + i] = <<take', i>>
        /\ \A i \in 1..Len(wbuf') : wbuf'[i] = <<take', Written' + i>>
        /\ \A i \in 1..Len(buf') : buf'[i] = <<take', Written' + Len(wbuf') + i>>
    <3>1. file' = file /\ fpos' = fpos /\ wbuf' = wbuf /\ take' = take /\ start' = start
      BY <1>1
    <3> QED
      BY <2>1, <2>2, <2>3, <3>1
  <2> HIDE DEF Written
  <2> QED
    BY <2>4 DEF Data
<1>10. NothingLost'
  BY <1>1 DEF NothingLost
<1> QED
  BY <1>7, <1>8, <1>9, <1>10 DEF Inv

-------------------------------------------------------------------------------
LEMMA InitInv == Init => Inv
<1> SUFFICES ASSUME Init PROVE Inv
  OBVIOUS
<1>1. TypeOK
  <2>1. pending \in Seq({"write"}) /\ buf \in Seq(Cells) /\ wbuf \in Seq(Cells) /\ file \in Seq(Cells)
    BY DEF Init, W!WInit
  <2> QED
    BY <2>1, SizesAssumption DEF Init, W!WInit, TypeOK, None
<1>3. Life
  BY DEF Init, W!WInit, Life
<1>2. Room /\ Data /\ NothingLost
  BY SizesAssumption DEF Init, Room, Data, NothingLost
<1> QED
  BY <1>1, <1>2, <1>3 DEF Inv

LEMMA NextInv == Inv /\ [Next]_vars => Inv'
<1> SUFFICES ASSUME Inv, [Next]_vars PROVE Inv'
  OBVIOUS
<1>1. CASE Worker
  BY <1>1, TakeBlockInv, WriteBlockInv DEF Worker
<1>2. CASE Closing
  BY <1>2, CloseAvailInv, CloseLastInv, CloseStopInv, CloseJoinInv DEF Closing
<1>3. CASE Control
  BY <1>3, RecOpenInv, MethodInv DEF Control, OpenFails
<1>4. CASE \E n \in Lengths : RecProcess(n)
  BY <1>4, RecProcessInv
<1>5. CASE UNCHANGED vars
  <2>1. UNCHANGED <<workerVars, writerVars, recVars, historyVars>>
    BY <1>5 DEF vars
  <2>2. TypeOK' /\ Life' /\ Room'
    BY <2>1 DEF Inv, TypeOK, Life, Room, workerVars, writerVars, recVars, historyVars
  <2>3. Data' /\ NothingLost'
    BY <2>1 DEF Inv, Data, Written, NothingLost, workerVars, writerVars, recVars, historyVars
  <2> QED BY <2>2, <2>3 DEF Inv
<1> QED
  BY <1>1, <1>2, <1>3, <1>4, <1>5 DEF Next

LEMMA InvHolds == Spec => []Inv
  BY InitInv, NextInv, PTL DEF Spec

\* The fields of the recorder and of its writer have their types.
THEOREM TypeCorrect == Spec => []TypeOK
<1>1. Inv => TypeOK
  BY DEF Inv
<1> QED
  BY <1>1, InvHolds, PTL

\* Whatever the control thread calls and whenever the limit of size is reached, a
\* recording on an open file keeps its writer, and the worker has no job of a
\* writer that was freed.
THEOREM WriterSafe == Spec => []WriterKept
<1>1. Inv => WriterKept
  BY DEF Inv, TypeOK, Life, WriterKept
<1> QED
  BY <1>1, InvHolds, PTL

\* Whatever the sizes, the blocks already written and the bytes still in the
\* buffer when _rec_close() begins, a closed file holds every byte given to the
\* recorder, at its place, outside of the wav header, up to as many as the messages
\* had more than a block: all of them when no message is larger than a block.
THEOREM RecordingComplete == Spec => []NothingLost
<1>1. Inv => NothingLost
  BY DEF Inv
<1> QED
  BY <1>1, InvHolds, PTL

===============================================================================
