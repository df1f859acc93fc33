--------------------------- MODULE FilePlayerProofs ---------------------------
(***************************************************************************)
(* Proofs about FilePlayer, for every size of file, header and block, any  *)
(* sizes of frames and any targets of seeks.                               *)
(*                                                                         *)
(* The inductive invariant is Inv.  Life relates the state of the player,  *)
(* the progress of player_close() and the worker.  Counts says that moving *)
(* and ntasks_pending count at least the seeks and the jobs of the worker: *)
(* a reader that is not moving has no seek waiting, and one without tasks  *)
(* no read under way.  Place says where the bytes of the buffer and of the *)
(* block in flight come from; Filled that a reader without tasks has a     *)
(* block less the last frame left, unless the file has no more.            *)
(***************************************************************************)
EXTENDS FilePlayer, FiniteSetTheorems, TLAPS

\* Zenon first: it is the faster of the two on the many leaves without arithmetic.
USE ZenonT(3), SMTT(30)

Life ==
  /\ reader <=> state # "Closed"
  /\ tpc = "eof" => state = "Playing"
  /\ cpc # "idle" => state = "Paused"
  /\ reader => (closing = "no" <=> cpc # "join")
  /\ ~ reader => active = "none" /\ pending = << >> /\ buf = << >>
  /\ wpc = "idle" <=> active = "none"
  /\ wpc # "put" => got = << >>

\* The places of the seeks among the jobs that wait.
Seeks(jobs) == {i \in 1..Len(jobs) : jobs[i] = "seek"}

Counts ==
  /\ moving >= Cardinality(Seeks(pending))
  /\ ntasks >= Len(pending) + (IF active = "none" THEN 0 ELSE 1)
  /\ moving > 0 => seekoff = next

Place ==
  reader /\ moving = 0 /\ ~ misplaced =>
    /\ fpos = next + Len(buf) + Len(got)
    /\ \A i \in 1..Len(buf) : buf[i] = next + i - 1
    /\ \A i \in 1..Len(got) : got[i] = next + Len(buf) + i - 1

Filled ==
  reader /\ moving = 0 /\ ~ misplaced /\ ~ failed =>
    /\ wpc = "put" => Len(got) = BlockSize \/ fpos >= FileSize
    /\ ntasks = 0 => Len(buf) + asked >= BlockSize \/ fpos >= FileSize

\* The position has gained on the data at most the silence played of a pause of p
\* ticks, when no frame was larger than n; the rest of the pause is still to come.
Ahead == HeaderSize + pos - next
Silence(p, n) ==
  /\ pauseTime \in 0..p
  /\ reader /\ tpc = "idle" => 0 <= Ahead /\ Ahead <= (p - pauseTime) * n
PauseInv == \E p \in Pauses \cup {0}, n \in Frames : Silence(p, n)

Inv == TypeOK /\ Life /\ Counts /\ Place /\ Filled
-------------------------------------------------------------------------------
(* Counting the seeks that wait.                                           *)

LEMMA SeeksFinite ==
  ASSUME NEW jobs \in Seq({"fill", "seek"})
  PROVE  /\ IsFiniteSet(Seeks(jobs)) /\ Cardinality(Seeks(jobs)) \in Nat
         /\ jobs = << >> => Cardinality(Seeks(jobs)) = 0
<1>1. Len(jobs) \in Nat /\ Seeks(jobs) \in SUBSET (1..Len(jobs))
  BY DEF Seeks
<1>2. IsFiniteSet(1..Len(jobs))
  BY <1>1, FS_Interval
<1>3. IsFiniteSet(Seeks(jobs))
  BY <1>1, <1>2, FS_Subset
<1>4. jobs = << >> => Seeks(jobs) = {}
  BY DEF Seeks
<1> QED
  BY <1>3, <1>4, FS_CardinalityType, FS_EmptySet

LEMMA SeeksAppend ==
  ASSUME NEW jobs \in Seq({"fill", "seek"}), NEW j \in {"fill", "seek"}
  PROVE  Cardinality(Seeks(Append(jobs, j)))
           <= Cardinality(Seeks(jobs)) + (IF j = "seek" THEN 1 ELSE 0)
<1> DEFINE k == Len(jobs) + 1
<1>1. /\ Len(jobs) \in Nat /\ Len(Append(jobs, j)) = k
      /\ Append(jobs, j)[k] = j
      /\ \A i \in 1..Len(jobs) : Append(jobs, j)[i] = jobs[i]
  OBVIOUS
<1>2. IsFiniteSet(Seeks(jobs)) /\ Cardinality(Seeks(jobs)) \in Nat
  BY SeeksFinite
<1>3. CASE j = "seek"
  <2>1. Seeks(Append(jobs, j)) = Seeks(jobs) \cup {k}
    BY <1>1, <1>3 DEF Seeks
  <2>2. k \notin Seeks(jobs)
    BY <1>1 DEF Seeks
  <2> HIDE DEF k
  <2>3. Cardinality(Seeks(jobs) \cup {k}) = Cardinality(Seeks(jobs)) + 1
    BY <1>2, <2>2, FS_AddElement
  <2>4. \A c \in Nat : c + 1 <= c + (IF j = "seek" THEN 1 ELSE 0)
    BY <1>3
  <2> QED
    BY <1>2, <2>1, <2>3, <2>4, Zenon
<1>4. CASE j # "seek"
  <2>1. Seeks(Append(jobs, j)) = Seeks(jobs)
    BY <1>1, <1>4 DEF Seeks
  <2>2. \A c \in Nat : c <= c + (IF j = "seek" THEN 1 ELSE 0)
    OBVIOUS
  <2> QED
    BY <1>2, <2>1, <2>2, Zenon
<1> QED
  BY <1>3, <1>4

LEMMA SeeksTail ==
  ASSUME NEW jobs \in Seq({"fill", "seek"}), jobs # << >>
  PROVE  Cardinality(Seeks(Tail(jobs))) + (IF Head(jobs) = "seek" THEN 1 ELSE 0)
           <= Cardinality(Seeks(jobs))
<1> DEFINE T == Seeks(Tail(jobs))
           R == Seeks(jobs) \ {1}
           f == [i \in T |-> i + 1]
<1>1. /\ Len(jobs) \in Nat \ {0} /\ Tail(jobs) \in Seq({"fill", "seek"})
      /\ Len(Tail(jobs)) = Len(jobs) - 1 /\ Head(jobs) = jobs[1]
      /\ \A i \in 1..(Len(jobs) - 1) : Tail(jobs)[i] = jobs[i + 1]
  OBVIOUS
<1>2. IsFiniteSet(Seeks(jobs)) /\ Cardinality(Seeks(jobs)) \in Nat
  BY SeeksFinite
<1>3. /\ IsFiniteSet(R)
      /\ Cardinality(R) = IF 1 \in Seeks(jobs) THEN Cardinality(Seeks(jobs)) - 1
                                               ELSE Cardinality(Seeks(jobs))
  BY <1>2, FS_RemoveElement
<1>4. 1 \in Seeks(jobs) <=> Head(jobs) = "seek"
  BY <1>1 DEF Seeks
<1>5. f \in Injection(T, R)
  <2>1. \A i \in T : i \in Nat /\ i + 1 \in R
    BY <1>1 DEF Seeks
  <2>2. f \in [T -> R]
    BY <2>1
  <2>3. \A a, b \in T : f[a] = f[b] => a = b
    BY <2>1
  <2> HIDE DEF T, R, f
  <2> QED
    BY <2>2, <2>3 DEF Injection, IsInjective
<1>6. Cardinality(T) <= Cardinality(R)
  <2> HIDE DEF T, R, f
  <2> QED
    BY <1>3, <1>5, FS_Injection
<1>7. Cardinality(T) \in Nat
  BY <1>1, SeeksFinite
<1> HIDE DEF T, R
<1>8. Cardinality(T) + (IF Head(jobs) = "seek" THEN 1 ELSE 0) <= Cardinality(Seeks(jobs))
  BY <1>2, <1>3, <1>4, <1>6, <1>7
<1> QED
  BY <1>8 DEF T

-------------------------------------------------------------------------------
(* What the steps have in common.                                          *)

\* A step that touches neither the jobs, nor the buffer, nor the file.
LEMMA StillReader ==
  ASSUME Inv, UNCHANGED <<pending, active, readerVars, historyVars>>
  PROVE  Counts' /\ Place' /\ Filled'
BY DEF Inv, Counts, Place, Filled, readerVars, historyVars

\* The request of a seek: until it is executed nothing is promised of the buffer.
LEMMA RequestSeekInv ==
  ASSUME Inv, NEW off \in Nat, RequestSeek(off),
         UNCHANGED <<wpc, got, fpos, buf, reader, loopAfter, failed, misplaced>>
  PROVE  /\ pending' \in Seq({"fill", "seek"}) /\ ntasks' \in Nat /\ moving' \in Nat \ {0}
         /\ seekoff' \in Nat /\ next' \in Nat /\ asked' \in Nat /\ closing = "no"
         /\ UNCHANGED <<active, closing>>
         /\ Counts' /\ Place' /\ Filled'
<1>1. /\ pending' = Append(pending, "seek") /\ UNCHANGED <<active, closing>> /\ closing = "no"
      /\ ntasks' = ntasks + 1 /\ moving' = moving + 1 /\ seekoff' = off /\ next' = off
      /\ asked' = 0
  BY DEF RequestSeek, W!Submit
<1>2. /\ pending \in Seq({"fill", "seek"}) /\ ntasks \in Nat /\ moving \in Nat
      /\ moving >= Cardinality(Seeks(pending)) /\ Cardinality(Seeks(pending)) \in Nat
      /\ ntasks >= Len(pending) + (IF active = "none" THEN 0 ELSE 1)
  BY SeeksFinite DEF Inv, TypeOK, Counts
<1>3. Cardinality(Seeks(pending')) <= Cardinality(Seeks(pending)) + 1
  BY <1>1, <1>2, SeeksAppend
<1>4. /\ pending' \in Seq({"fill", "seek"}) /\ Len(pending') = Len(pending) + 1
      /\ Len(pending) \in Nat
  BY <1>1, <1>2
<1>5. ntasks' \in Nat /\ moving' \in Nat \ {0}
  BY <1>1, <1>2
<1>6. Cardinality(Seeks(pending')) \in Nat
  BY <1>4, SeeksFinite
<1>7. Counts'
  <2>1. moving' >= Cardinality(Seeks(pending'))
    BY <1>1, <1>2, <1>3, <1>6
  <2>2. ntasks' >= Len(pending') + (IF active' = "none" THEN 0 ELSE 1)
    BY <1>1, <1>2, <1>4
  <2> QED
    BY <1>1, <2>1, <2>2 DEF Counts
<1>8. Place' /\ Filled'
  BY <1>5 DEF Place, Filled
<1> QED
  BY <1>1, <1>4, <1>5, <1>7, <1>8

-------------------------------------------------------------------------------
(* The worker.                                                             *)

\* A job starts: there is one job less to wait for, and one seek less when it is
\* a seek.
LEMMA JobStarts ==
  ASSUME Inv, W!Start
  PROVE  /\ active = "none" /\ wpc = "idle" /\ got = << >> /\ reader /\ closing = "no"
         /\ pending' \in Seq({"fill", "seek"}) /\ UNCHANGED closing
         /\ active' \in {"fill", "seek"}
         /\ ntasks >= Len(pending') + 1 /\ Len(pending') \in Nat /\ ntasks \in Nat
         /\ Cardinality(Seeks(pending')) \in Nat
         /\ Cardinality(Seeks(pending')) + (IF active' = "seek" THEN 1 ELSE 0) <= moving
<1>1. /\ active = "none" /\ pending # << >> /\ closing # "drop"
      /\ active' = Head(pending) /\ pending' = Tail(pending) /\ UNCHANGED closing
  BY DEF W!Start
<1>2. TypeOK /\ Life /\ Counts
  BY DEF Inv
<1>3. wpc = "idle" /\ got = << >> /\ reader /\ closing = "no"
  BY <1>1, <1>2 DEF Life, TypeOK
<1>4. /\ pending \in Seq({"fill", "seek"}) /\ ntasks \in Nat /\ moving \in Nat
      /\ moving >= Cardinality(Seeks(pending)) /\ Cardinality(Seeks(pending)) \in Nat
      /\ ntasks >= Len(pending) + 0
  BY <1>1, <1>2, SeeksFinite DEF TypeOK, Counts
<1>5. /\ pending' \in Seq({"fill", "seek"}) /\ Len(pending') = Len(pending) - 1
      /\ Len(pending) \in Nat \ {0} /\ active' \in {"fill", "seek"}
  BY <1>1, <1>4
<1>6. Cardinality(Seeks(pending')) \in Nat
  BY <1>5, SeeksFinite
<1>7. Cardinality(Seeks(pending')) + (IF active' = "seek" THEN 1 ELSE 0)
        <= Cardinality(Seeks(pending))
  BY <1>1, <1>4, SeeksTail
<1>8. Cardinality(Seeks(pending')) + (IF active' = "seek" THEN 1 ELSE 0) <= moving
  BY <1>4, <1>6, <1>7
<1>9. ntasks >= Len(pending') + 1 /\ Len(pending') \in Nat
  BY <1>4, <1>5
<1> QED
  BY <1>1, <1>3, <1>4, <1>5, <1>6, <1>8, <1>9

\* A block is read where the buffer ends.
LEMMA BlockRead ==
  ASSUME Inv, ReadBlock(fpos), got = << >>
  PROVE  /\ got' \in Seq(Nat) /\ fpos' \in Nat /\ failed' \in BOOLEAN
         /\ fpos' = fpos + Len(got')
         /\ \A i \in 1..Len(got') : got'[i] = fpos + i - 1
         /\ ~ failed' => Len(got') = BlockSize \/ fpos' >= FileSize
<1> USE SizesAssumption
<1>0. fpos \in Nat
  BY DEF Inv, TypeOK
<1>1. CASE got' = << >> /\ fpos' = fpos /\ failed' = TRUE
  <2>1. Len(got') = 0 /\ got' \in Seq(Nat)
    BY <1>1
  <2> QED
    BY <1>0, <1>1, <2>1
<1>2. CASE /\ got' = Bytes(fpos, Least(fpos + BlockSize, FileSize))
           /\ fpos' = fpos + Len(got') /\ failed' = FALSE
  <2> DEFINE b == Least(fpos + BlockSize, FileSize)
             k == IF fpos < b THEN b - fpos ELSE 0
  <2>1. b \in Nat /\ k \in Nat
    BY <1>0 DEF Least
  <2>2. k = BlockSize \/ fpos + k >= FileSize
    BY <1>0 DEF Least
  <2>3. got' = [i \in 1..k |-> fpos + i - 1]
    BY <1>2 DEF Bytes
  <2> HIDE DEF k
  <2>4. /\ got' \in Seq(Nat) /\ Len(got') = k
        /\ \A i \in 1..k : got'[i] = fpos + i - 1
    BY <1>0, <2>1, <2>3
  <2>5. fpos' \in Nat /\ fpos' = fpos + k
    BY <1>0, <1>2, <2>1, <2>4
  <2>6. Len(got') = BlockSize \/ fpos' >= FileSize
    BY <2>2, <2>4, <2>5, Zenon
  <2>7. \A i \in 1..Len(got') : got'[i] = fpos + i - 1
    BY <2>4, Zenon
  <2> QED
    BY <1>2, <2>4, <2>5, <2>6, <2>7
<1> QED
  BY <1>1, <1>2 DEF ReadBlock

LEMMA StartFillInv == Inv /\ StartFill => Inv'
<1> SUFFICES ASSUME Inv, StartFill PROVE Inv'
  OBVIOUS
<1> USE SizesAssumption
<1>1. /\ W!Start /\ active' = "fill" /\ ReadBlock(fpos) /\ wpc' = "put"
      /\ UNCHANGED <<buf, ntasks, moving, seekoff, reader, playerVars, next, asked, misplaced>>
  BY DEF StartFill
<1>2. /\ active = "none" /\ wpc = "idle" /\ got = << >> /\ reader /\ closing = "no"
      /\ pending' \in Seq({"fill", "seek"}) /\ UNCHANGED closing
      /\ ntasks >= Len(pending') + 1 /\ Len(pending') \in Nat /\ ntasks \in Nat
      /\ Cardinality(Seeks(pending')) \in Nat
      /\ Cardinality(Seeks(pending')) + 0 <= moving
  BY <1>1, JobStarts
<1>3. /\ got' \in Seq(Nat) /\ fpos' \in Nat /\ failed' \in BOOLEAN
      /\ fpos' = fpos + Len(got')
      /\ \A i \in 1..Len(got') : got'[i] = fpos + i - 1
      /\ ~ failed' => Len(got') = BlockSize \/ fpos' >= FileSize
  BY <1>1, <1>2, BlockRead
<1>4. TypeOK'
  BY <1>1, <1>2, <1>3 DEF Inv, TypeOK, playerVars
<1>5. Life'
  BY <1>1, <1>2 DEF Inv, Life, playerVars
<1>6. Counts'
  <2>1. moving' >= Cardinality(Seeks(pending')) /\ moving \in Nat
    BY <1>1, <1>2 DEF Inv, TypeOK
  <2>2. ntasks' >= Len(pending') + (IF active' = "none" THEN 0 ELSE 1)
    BY <1>1, <1>2
  <2> QED
    BY <1>1, <2>1, <2>2 DEF Inv, Counts
<1>7. Place'
  <2> SUFFICES ASSUME moving = 0, ~ misplaced PROVE Place'
    BY <1>1 DEF Place
  <2>1. /\ fpos = next + Len(buf) /\ next \in Nat /\ Len(buf) \in Nat
        /\ \A i \in 1..Len(buf) : buf[i] = next + i - 1
    BY <1>2 DEF Inv, TypeOK, Place
  <2>2. Len(got') \in Nat
    BY <1>3
  <2> QED
    BY <1>1, <1>3, <2>1, <2>2 DEF Place
<1>8. Filled'
  BY <1>1, <1>2, <1>3 DEF Filled
<1> QED
  BY <1>4, <1>5, <1>6, <1>7, <1>8 DEF Inv

LEMMA StartSeekInv == Inv /\ StartSeek => Inv'
<1> SUFFICES ASSUME Inv, StartSeek PROVE Inv'
  OBVIOUS
<1> USE SizesAssumption
<1>1. /\ W!Start /\ active' = "seek" /\ wpc' = "fill" /\ buf' = << >> /\ moving' = moving - 1
      /\ fpos' = seekoff \/ (fpos' = fpos /\ misplaced')
      /\ misplaced' \in BOOLEAN
      /\ UNCHANGED <<got, ntasks, seekoff, reader, playerVars, next, asked, failed>>
  BY DEF StartSeek
<1>2. /\ active = "none" /\ wpc = "idle" /\ got = << >> /\ reader /\ closing = "no"
      /\ pending' \in Seq({"fill", "seek"}) /\ UNCHANGED closing
      /\ ntasks >= Len(pending') + 1 /\ Len(pending') \in Nat /\ ntasks \in Nat
      /\ Cardinality(Seeks(pending')) \in Nat
      /\ Cardinality(Seeks(pending')) + 1 <= moving
  BY <1>1, JobStarts
<1>3. moving \in Nat \ {0} /\ moving' \in Nat /\ moving' >= Cardinality(Seeks(pending'))
  BY <1>1, <1>2 DEF Inv, TypeOK
<1>4. TypeOK'
  BY <1>1, <1>2, <1>3 DEF Inv, TypeOK, playerVars
<1>5. Life'
  BY <1>1, <1>2 DEF Inv, Life, playerVars
<1>6. seekoff = next /\ next \in Nat
  BY <1>3 DEF Inv, Counts, TypeOK
<1>7. Counts'
  <2>1. ntasks' >= Len(pending') + (IF active' = "none" THEN 0 ELSE 1)
    BY <1>1, <1>2
  <2> QED
    BY <1>1, <1>3, <1>6, <2>1 DEF Counts
<1>8. Place'
  <2>1. Len(buf') = 0 /\ Len(got') = 0
    BY <1>1, <1>2
  <2> QED
    BY <1>1, <1>6, <2>1 DEF Place
<1>9. Filled'
  BY <1>1, <1>2 DEF Filled
<1> QED
  BY <1>4, <1>5, <1>7, <1>8, <1>9 DEF Inv

LEMMA FillAfterSeekInv == Inv /\ FillAfterSeek => Inv'
<1> SUFFICES ASSUME Inv, FillAfterSeek PROVE Inv'
  OBVIOUS
<1> USE SizesAssumption
<1>1. /\ wpc = "fill" /\ ReadBlock(fpos) /\ wpc' = "put"
      /\ UNCHANGED <<workerVars, buf, ntasks, moving, seekoff, reader, playerVars, next, asked, misplaced>>
  BY DEF FillAfterSeek
<1>2. /\ TypeOK /\ Life /\ Counts /\ Place
      /\ got = << >> /\ active # "none" /\ reader
  BY <1>1 DEF Inv, Life
<1>3. /\ got' \in Seq(Nat) /\ fpos' \in Nat /\ failed' \in BOOLEAN
      /\ fpos' = fpos + Len(got')
      /\ \A i \in 1..Len(got') : got'[i] = fpos + i - 1
      /\ ~ failed' => Len(got') = BlockSize \/ fpos' >= FileSize
  BY <1>1, <1>2, BlockRead
<1>4. TypeOK'
  BY <1>1, <1>2, <1>3 DEF TypeOK, playerVars, workerVars
<1>5. Life' /\ Counts'
  BY <1>1, <1>2 DEF Life, Counts, playerVars, workerVars
<1>6. Place'
  <2> SUFFICES ASSUME moving = 0, ~ misplaced PROVE Place'
    BY <1>1 DEF Place
  <2>1. /\ fpos = next + Len(buf) /\ next \in Nat /\ Len(buf) \in Nat
        /\ \A i \in 1..Len(buf) : buf[i] = next + i - 1
    BY <1>2 DEF TypeOK, Place
  <2>2. Len(got') \in Nat
    BY <1>3
  <2> QED
    BY <1>1, <1>3, <2>1, <2>2 DEF Place
<1>7. Filled'
  <2>1. ntasks' # 0
    BY <1>1, <1>2 DEF TypeOK, Counts
  <2> QED
    BY <1>3, <2>1 DEF Filled
<1> QED
  BY <1>4, <1>5, <1>6, <1>7 DEF Inv

LEMMA Joined ==
  ASSUME NEW a \in Seq(Nat), NEW b \in Seq(Nat)
  PROVE  /\ a \o b \in Seq(Nat) /\ Len(a \o b) = Len(a) + Len(b)
         /\ Len(a) \in Nat /\ Len(b) \in Nat
         /\ \A i \in 1..Len(a) : (a \o b)[i] = a[i]
         /\ \A i \in 1..Len(b) : (a \o b)[Len(a) + i] = b[i]
OBVIOUS

\* The block in flight becomes the end of the buffer.
LEMMA PutBlockInv == Inv /\ PutBlock => Inv'
<1> SUFFICES ASSUME Inv, PutBlock PROVE Inv'
  OBVIOUS
<1> USE SizesAssumption
<1>1. /\ wpc = "put" /\ active # "none" /\ active' = "none" /\ UNCHANGED <<pending, closing>>
      /\ buf' = buf \o got /\ got' = << >> /\ ntasks' = ntasks - 1 /\ wpc' = "idle"
      /\ UNCHANGED <<fpos, moving, seekoff, reader, playerVars, historyVars>>
  BY DEF PutBlock, W!Finish
<1>2. TypeOK /\ Life /\ Counts /\ Place /\ Filled /\ reader
  BY <1>1 DEF Inv, Life
<1>3. /\ buf \in Seq(Nat) /\ got \in Seq(Nat) /\ next \in Nat /\ ntasks \in Nat
      /\ Len(pending) \in Nat
  BY <1>2 DEF TypeOK
<1>4. /\ buf' \in Seq(Nat) /\ Len(buf') = Len(buf) + Len(got)
      /\ Len(buf) \in Nat /\ Len(got) \in Nat
      /\ \A i \in 1..Len(buf) : buf'[i] = buf[i]
      /\ \A i \in 1..Len(got) : buf'[Len(buf) + i] = got[i]
  BY <1>1, <1>3, Joined
<1>5. ntasks' \in Nat /\ ntasks' >= Len(pending') + (IF active' = "none" THEN 0 ELSE 1)
  BY <1>1, <1>2, <1>3 DEF Counts
<1>6. TypeOK'
  BY <1>1, <1>2, <1>4, <1>5 DEF TypeOK, playerVars, historyVars
<1>7. Life'
  BY <1>1, <1>2 DEF Life, playerVars
<1>8. Counts'
  BY <1>1, <1>2, <1>5 DEF Counts, historyVars
<1>9. Place'
  <2> SUFFICES ASSUME moving = 0, ~ misplaced PROVE Place'
    BY <1>1 DEF Place, historyVars
  <2>1. /\ fpos = next + Len(buf) + Len(got)
        /\ \A i \in 1..Len(buf) : buf[i] = next + i - 1
        /\ \A i \in 1..Len(got) : got[i] = next + Len(buf) + i - 1
    BY <1>2 DEF Place
  <2>2. \A i \in 1..Len(buf') : buf'[i] = next + i - 1
    <3> SUFFICES ASSUME NEW i \in 1..(Len(buf) + Len(got)) PROVE buf'[i] = next + i - 1
      BY <1>4
    <3>1. CASE i <= Len(buf)
      <4>1. i \in 1..Len(buf)
        BY <1>4, <3>1
      <4> QED
        BY <1>4, <2>1, <4>1
    <3>2. CASE i > Len(buf)
      <4>1. /\ i - Len(buf) \in 1..Len(got) /\ Len(buf) + (i - Len(buf)) = i
            /\ next + Len(buf) + (i - Len(buf)) - 1 = next + i - 1
        BY <1>3, <1>4, <3>2
      <4>2. buf'[Len(buf) + (i - Len(buf))] = next + Len(buf) + (i - Len(buf)) - 1
        BY <1>4, <2>1, <4>1
      <4> QED
        BY <4>1, <4>2
    <3> QED
      BY <1>4, <3>1, <3>2
  <2>3. Len(got') = 0
    BY <1>1
  <2>4. fpos = next + Len(buf') + 0
    BY <1>3, <1>4, <2>1
  <2>5. fpos' = fpos /\ next' = next
    BY <1>1 DEF historyVars
  <2> QED
    BY <2>2, <2>3, <2>4, <2>5 DEF Place
<1>10. Filled'
  <2> SUFFICES ASSUME moving = 0, ~ misplaced, ~ failed
               PROVE  Len(buf') + asked' >= BlockSize \/ fpos' >= FileSize
    BY <1>1 DEF Filled, historyVars
  <2>1. Len(got) = BlockSize \/ fpos >= FileSize
    BY <1>1, <1>2 DEF Filled
  <2>2. asked' = asked /\ asked \in Nat /\ fpos' = fpos
    BY <1>1, <1>2 DEF TypeOK, historyVars
  <2> QED
    BY <1>3, <1>4, <2>1, <2>2
<1> QED
  BY <1>6, <1>7, <1>8, <1>9, <1>10 DEF Inv

\* A job that is dropped no longer counts.
LEMMA DropJobInv == Inv /\ DropJob => Inv'
<1> SUFFICES ASSUME Inv, DropJob PROVE Inv'
  OBVIOUS
<1>1. /\ active = "none" /\ pending # << >> /\ closing = "drop" /\ pending' = Tail(pending)
      /\ UNCHANGED <<active, closing, readerVars, playerVars, historyVars>>
  BY DEF DropJob, W!Discard
<1>2. TypeOK /\ Life /\ Counts /\ Place /\ Filled
  BY DEF Inv
<1>3. /\ pending \in Seq({"fill", "seek"}) /\ moving \in Nat /\ ntasks \in Nat
      /\ Cardinality(Seeks(pending)) \in Nat
  BY <1>2, SeeksFinite DEF TypeOK
<1>4. /\ pending' \in Seq({"fill", "seek"}) /\ Len(pending') = Len(pending) - 1
      /\ Len(pending) \in Nat \ {0}
  BY <1>1, <1>3
<1>5. Cardinality(Seeks(pending')) \in Nat
  BY <1>4, SeeksFinite
<1>6. Cardinality(Seeks(pending')) + (IF Head(pending) = "seek" THEN 1 ELSE 0)
        <= Cardinality(Seeks(pending))
  BY <1>1, <1>3, SeeksTail
<1>7. Cardinality(Seeks(pending')) <= moving
  BY <1>2, <1>3, <1>5, <1>6 DEF Counts
<1>8. TypeOK' /\ Life'
  BY <1>1, <1>2, <1>4 DEF TypeOK, Life, readerVars, playerVars, historyVars
<1>9. Counts'
  <2>1. moving' = moving /\ ntasks' = ntasks /\ seekoff' = seekoff /\ next' = next
    BY <1>1 DEF readerVars, historyVars
  <2>2. ntasks >= Len(pending') + (IF active = "none" THEN 0 ELSE 1)
    BY <1>2, <1>3, <1>4 DEF Counts
  <2>3. moving >= Cardinality(Seeks(pending'))
    BY <1>3, <1>5, <1>7
  <2> QED
    BY <1>1, <1>2, <2>1, <2>2, <2>3 DEF Counts
<1>10. Place' /\ Filled'
  BY <1>1, <1>2 DEF Place, Filled, readerVars, historyVars
<1> QED
  BY <1>8, <1>9, <1>10 DEF Inv

-------------------------------------------------------------------------------
(* The ticker.                                                             *)

\* What a frame leaves in the buffer follows what it took.
LEMMA PlayFrameInv == ASSUME NEW n \in Frames PROVE Inv /\ PlayFrame(n) => Inv'
<1> SUFFICES ASSUME Inv, PlayFrame(n) PROVE Inv'
  OBVIOUS
<1> USE SizesAssumption
<1> DEFINE taken == Least(n, Len(buf))
<1>1. /\ state = "Playing" /\ tpc = "idle" /\ ~ WouldBlock(n)
      /\ pos' = IF buf = << >> THEN pos ELSE pos + n
      /\ tpc' = IF Len(buf) < n THEN "eof" ELSE "idle"
      /\ UNCHANGED <<wpc, got, fpos, moving, seekoff, reader, state, loopAfter,
                     pauseTime, cpc, failed, misplaced>>
      /\ buf' = SubSeq(buf, taken + 1, Len(buf)) /\ next' = next + taken /\ asked' = n
      /\ UNCHANGED <<active, closing>>
  BY DEF PlayFrame, TakeBytes, W!Submit, workerVars
<1>2. TypeOK /\ Life /\ Counts /\ Place /\ Filled /\ reader
  BY <1>1 DEF Inv, Life
<1>3. /\ pending \in Seq({"fill", "seek"}) /\ buf \in Seq(Nat) /\ Len(buf) \in Nat
      /\ Len(pending) \in Nat /\ ntasks \in Nat /\ moving \in Nat /\ next \in Nat /\ pos \in Nat
      /\ n \in Nat \ {0} /\ Cardinality(Seeks(pending)) \in Nat
  BY <1>2, SeeksFinite DEF TypeOK
<1>4. moving = 0 /\ (Len(buf) < n => ntasks = 0)
  BY <1>1, <1>3 DEF WouldBlock
<1>5. taken \in 0..Len(buf) /\ taken <= n /\ (Len(buf) >= n => taken = n)
  BY <1>3 DEF Least
<1> HIDE DEF taken
<1>6. /\ buf' \in Seq(Nat) /\ Len(buf') = Len(buf) - taken /\ Len(buf') \in Nat
      /\ \A i \in 1..(Len(buf) - taken) : buf'[i] = buf[taken + i]
  BY <1>1, <1>3, <1>5
<1>7. /\ \/ ntasks = 0 /\ Len(buf) < BlockSize
            /\ pending' = Append(pending, "fill") /\ ntasks' = ntasks + 1
         \/ ~ (ntasks = 0 /\ Len(buf) < BlockSize) /\ UNCHANGED <<pending, ntasks>>
  BY DEF PlayFrame, TakeBytes, W!Submit, workerVars
<1>8. /\ pending' \in Seq({"fill", "seek"}) /\ ntasks' \in Nat
      /\ ntasks' - ntasks = Len(pending') - Len(pending) /\ Len(pending') \in Nat
      /\ Cardinality(Seeks(pending')) <= moving
  <2>1. CASE pending' = Append(pending, "fill") /\ ntasks' = ntasks + 1
    <3>1. Cardinality(Seeks(pending')) <= Cardinality(Seeks(pending)) + 0
      BY <1>3, <2>1, SeeksAppend
    <3>2. pending' \in Seq({"fill", "seek"}) /\ Len(pending') = Len(pending) + 1
      BY <1>3, <2>1
    <3>3. Cardinality(Seeks(pending')) \in Nat
      BY <3>2, SeeksFinite
    <3>4. Cardinality(Seeks(pending')) <= moving
      BY <1>2, <1>3, <3>1, <3>3 DEF Counts
    <3> QED
      BY <1>3, <2>1, <3>2, <3>4
  <2>2. CASE UNCHANGED <<pending, ntasks>>
    BY <1>2, <1>3, <2>2 DEF Counts
  <2> QED
    BY <1>7, <2>1, <2>2
<1>9. TypeOK'
  <2>1. next' \in Nat /\ pos' \in Nat /\ asked' \in Nat
    BY <1>1, <1>3, <1>5
  <2> QED
    BY <1>1, <1>2, <1>6, <1>8, <2>1 DEF TypeOK
<1>10. Life'
  BY <1>1, <1>2 DEF Life
<1>11. Counts'
  <2>1. ntasks' >= Len(pending') + (IF active' = "none" THEN 0 ELSE 1)
    BY <1>1, <1>2, <1>3, <1>8 DEF Counts
  <2>2. moving' >= Cardinality(Seeks(pending')) /\ moving' = 0
    <3>1. Cardinality(Seeks(pending')) \in Nat
      BY <1>8, SeeksFinite
    <3> QED
      BY <1>1, <1>3, <1>4, <1>8, <3>1
  <2> QED
    BY <2>1, <2>2 DEF Counts
<1>12. Place'
  <2> SUFFICES ASSUME ~ misplaced PROVE Place'
    BY <1>1 DEF Place
  <2>1. /\ fpos = next + Len(buf) + Len(got) /\ Len(got) \in Nat
        /\ \A i \in 1..Len(buf) : buf[i] = next + i - 1
        /\ \A i \in 1..Len(got) : got[i] = next + Len(buf) + i - 1
    BY <1>2, <1>4 DEF Place, TypeOK
  <2>2. next' + Len(buf') = next + Len(buf)
    <3>1. (next + taken) + (Len(buf) - taken) = next + Len(buf)
      BY <1>3, <1>5
    <3> QED
      BY <1>1, <1>6, <3>1, Zenon
  <2>3. \A i \in 1..Len(buf') : buf'[i] = next' + i - 1
    <3> SUFFICES ASSUME NEW i \in 1..(Len(buf) - taken) PROVE buf'[i] = next + taken + i - 1
      BY <1>1, <1>6
    <3>1. taken + i \in 1..Len(buf) /\ next + (taken + i) - 1 = next + taken + i - 1
      BY <1>3, <1>5
    <3> QED
      BY <1>6, <2>1, <3>1
  <2>4. \A i \in 1..Len(got) : got[i] = next' + Len(buf') + i - 1
    BY <2>1, <2>2
  <2>5. fpos = next' + Len(buf') + Len(got)
    BY <2>1, <2>2
  <2>6. fpos' = fpos /\ got' = got
    BY <1>1
  <2> QED
    BY <2>3, <2>4, <2>5, <2>6 DEF Place
<1>13. Filled'
  <2> SUFFICES ASSUME ~ misplaced, ~ failed PROVE Filled'
    BY <1>1 DEF Filled
  <2>1. wpc' = "put" => Len(got') = BlockSize \/ fpos' >= FileSize
    BY <1>1, <1>2, <1>4 DEF Filled
  <2>2. ntasks' = 0 => Len(buf') + asked' >= BlockSize \/ fpos' >= FileSize
    <3> SUFFICES ASSUME ntasks' = 0 PROVE Len(buf') + asked' >= BlockSize
      OBVIOUS
    <3>1. Len(buf) >= BlockSize
      BY <1>3, <1>7
    <3>2. (Len(buf) - taken) + n >= BlockSize
      BY <1>3, <1>5, <3>1
    <3> QED
      BY <1>1, <1>6, <3>2, Zenon
  <2> QED
    BY <2>1, <2>2 DEF Filled
<1> QED
  BY <1>9, <1>10, <1>11, <1>12, <1>13 DEF Inv

LEMMA PlaySilenceInv == ASSUME NEW n \in Frames PROVE Inv /\ PlaySilence(n) => Inv'
<1> SUFFICES ASSUME Inv, PlaySilence(n) PROVE Inv'
  OBVIOUS
<1>1. /\ UNCHANGED <<workerVars, readerVars, state, loopAfter, tpc, cpc, historyVars>>
      /\ pauseTime' = pauseTime - 1 /\ pos' = pos + n
  BY DEF PlaySilence
<1>2. Counts' /\ Place' /\ Filled'
  BY <1>1, StillReader DEF workerVars
<1>3. TypeOK'
  BY <1>1, SizesAssumption DEF Inv, TypeOK, workerVars, readerVars, historyVars
<1>4. Life'
  BY <1>1 DEF Inv, Life, workerVars, readerVars
<1> QED
  BY <1>2, <1>3, <1>4 DEF Inv

LEMMA EndOfFileInv == Inv /\ EndOfFile => Inv'
<1> SUFFICES ASSUME Inv, EndOfFile PROVE Inv'
  OBVIOUS
<1> USE SizesAssumption
<1>1. /\ tpc = "eof" /\ RequestSeek(HeaderSize) /\ pos' = 0 /\ tpc' = "idle"
      /\ \/ state' = "Paused" /\ UNCHANGED pauseTime
         \/ pauseTime' = loopAfter /\ UNCHANGED state
      /\ UNCHANGED <<wpc, got, fpos, buf, reader, loopAfter, cpc, failed, misplaced>>
  BY DEF EndOfFile
<1>2. /\ pending' \in Seq({"fill", "seek"}) /\ ntasks' \in Nat /\ moving' \in Nat \ {0}
      /\ seekoff' \in Nat /\ next' \in Nat /\ asked' \in Nat /\ closing = "no" /\ UNCHANGED <<active, closing>>
      /\ Counts' /\ Place' /\ Filled'
  BY <1>1, RequestSeekInv
<1>3. TypeOK'
  BY <1>1, <1>2 DEF Inv, TypeOK
<1>4. Life'
  BY <1>1, <1>2 DEF Inv, Life
<1> QED
  BY <1>2, <1>3, <1>4 DEF Inv

-------------------------------------------------------------------------------
(* The control thread.                                                     *)

LEMMA PlayerOpenInv == Inv /\ PlayerOpen => Inv'
<1> SUFFICES ASSUME Inv, PlayerOpen PROVE Inv'
  OBVIOUS
<1> USE SizesAssumption
<1>1. /\ cpc = "idle" /\ reader' = TRUE /\ state' = "Paused" /\ pos' = 0
      /\ pending' = <<"fill">> /\ active' = "none" /\ closing' = "no"
      /\ wpc' = "idle" /\ got' = << >> /\ fpos' = HeaderSize /\ buf' = << >>
      /\ ntasks' = 1 /\ moving' = 0 /\ seekoff' = 0
      /\ next' = HeaderSize /\ asked' = 0 /\ failed' = FALSE /\ misplaced' = FALSE
      /\ UNCHANGED <<loopAfter, pauseTime, tpc, cpc>> /\ ~ reader
  BY DEF PlayerOpen
<1>2. /\ pending' \in Seq({"fill", "seek"}) /\ Len(pending') = 1
      /\ Len(buf') = 0 /\ Len(got') = 0 /\ buf' \in Seq(Nat) /\ got' \in Seq(Nat)
  BY <1>1
<1>3. Cardinality(Seeks(pending')) = 0
  <2>1. Seeks(<<"fill">>) = {}
    BY DEF Seeks
  <2> QED
    BY <1>1, <2>1, FS_EmptySet
<1>4. TypeOK'
  BY <1>1, <1>2 DEF Inv, TypeOK
<1>5. Life'
  <2>1. tpc = "idle"
    BY <1>1 DEF Inv, Life, TypeOK
  <2> QED
    BY <1>1, <2>1 DEF Life
<1>6. Counts'
  BY <1>1, <1>2, <1>3 DEF Counts
<1>7. Place' /\ Filled'
  BY <1>1, <1>2 DEF Place, Filled
<1> QED
  BY <1>4, <1>5, <1>6, <1>7 DEF Inv

\* player_start(), player_pause() and player_loop() leave the reader alone.
LEMMA MethodInv == Inv /\ (PlayerStart \/ PlayerPause \/ PlayerLoop) => Inv'
<1> SUFFICES ASSUME Inv, PlayerStart \/ PlayerPause \/ PlayerLoop PROVE Inv'
  OBVIOUS
<1>1. /\ UNCHANGED <<workerVars, readerVars, pauseTime, pos, tpc, cpc, historyVars>>
      /\ cpc = "idle" /\ loopAfter' \in Pauses
      /\ \/ UNCHANGED state
         \/ state = "Paused" /\ state' = "Playing"
         \/ state = "Playing" /\ state' = "Paused" /\ tpc = "idle"
  BY DEF Inv, TypeOK, PlayerStart, PlayerPause, PlayerLoop
<1>2. Counts' /\ Place' /\ Filled'
  BY <1>1, StillReader DEF workerVars
<1>3. TypeOK'
  BY <1>1 DEF Inv, TypeOK, workerVars, readerVars, historyVars
<1>4. Life'
  BY <1>1 DEF Inv, Life, workerVars, readerVars
<1> QED
  BY <1>2, <1>3, <1>4 DEF Inv

\* player_stop(), player_seek_position() and the first step of player_close()
LEMMA SeekInv == Inv /\ (PlayerStop \/ PlayerSeek \/ PlayerClose) => Inv'
<1> SUFFICES ASSUME Inv, PlayerStop \/ PlayerSeek \/ PlayerClose PROVE Inv'
  OBVIOUS
<1> USE SizesAssumption
<1>1. PICK off \in Nat :
        /\ RequestSeek(off) /\ pos' \in Nat
        /\ UNCHANGED <<wpc, got, fpos, buf, reader, loopAfter, pauseTime, tpc, failed, misplaced>>
        /\ tpc = "idle" /\ cpc = "idle" /\ reader
        /\ \/ UNCHANGED state /\ UNCHANGED cpc
           \/ state' = "Paused" /\ cpc' \in {"idle", "destroy"}
  BY DEF PlayerStop, PlayerSeek, PlayerClose, StopLocked, Inv, Life
<1>2. /\ pending' \in Seq({"fill", "seek"}) /\ ntasks' \in Nat /\ moving' \in Nat \ {0}
      /\ seekoff' \in Nat /\ next' \in Nat /\ asked' \in Nat /\ closing = "no" /\ UNCHANGED <<active, closing>>
      /\ Counts' /\ Place' /\ Filled'
  BY <1>1, RequestSeekInv
<1>3. TypeOK'
  BY <1>1, <1>2 DEF Inv, TypeOK
<1>4. Life'
  BY <1>1, <1>2 DEF Inv, Life, TypeOK
<1> QED
  BY <1>2, <1>3, <1>4 DEF Inv

LEMMA CloseDestroyInv == Inv /\ CloseDestroy => Inv'
<1> SUFFICES ASSUME Inv, CloseDestroy PROVE Inv'
  OBVIOUS
<1>1. /\ cpc = "destroy" /\ closing = "no" /\ closing' = "drop" /\ cpc' = "join"
      /\ UNCHANGED <<pending, active, readerVars, state, loopAfter, pauseTime, pos, tpc, historyVars>>
  BY DEF CloseDestroy, W!Close
<1>2. Counts' /\ Place' /\ Filled'
  BY <1>1, StillReader
<1>3. TypeOK'
  BY <1>1 DEF Inv, TypeOK, readerVars, historyVars
<1>4. Life'
  BY <1>1 DEF Inv, Life, readerVars
<1> QED
  BY <1>2, <1>3, <1>4 DEF Inv

LEMMA CloseJoinInv == Inv /\ CloseJoin => Inv'
<1> SUFFICES ASSUME Inv, CloseJoin PROVE Inv'
  OBVIOUS
<1>1. /\ cpc = "join" /\ active = "none" /\ pending = << >>
      /\ reader' = FALSE /\ buf' = << >> /\ state' = "Closed" /\ cpc' = "idle"
      /\ UNCHANGED <<workerVars, wpc, got, fpos, ntasks, moving, seekoff, loopAfter,
                     pauseTime, pos, tpc, historyVars>>
  BY DEF CloseJoin
<1>2. TypeOK'
  <2>1. buf' \in Seq(Nat)
    BY <1>1
  <2> QED
    BY <1>1, <2>1 DEF Inv, TypeOK, workerVars, historyVars
<1>3. Life'
  <2>1. tpc = "idle"
    BY <1>1 DEF Inv, Life, TypeOK
  <2> QED
    BY <1>1, <2>1 DEF Inv, Life, workerVars
<1>4. Counts' /\ Place' /\ Filled'
  BY <1>1 DEF Inv, Counts, Place, Filled, workerVars, historyVars
<1> QED
  BY <1>2, <1>3, <1>4 DEF Inv

-------------------------------------------------------------------------------
LEMMA InitInv == Init => Inv
<1> SUFFICES ASSUME Init PROVE Inv
  OBVIOUS
<1>1. /\ pending = << >> /\ active = "none" /\ closing = "no" /\ wpc = "idle" /\ got = << >>
      /\ fpos = 0 /\ buf = << >> /\ ntasks = 0 /\ moving = 0 /\ seekoff = 0 /\ reader = FALSE
      /\ state = "Closed" /\ loopAfter \in Pauses /\ pauseTime = 0 /\ pos = 0
      /\ tpc = "idle" /\ cpc = "idle" /\ next = 0 /\ asked = 0 /\ failed = FALSE /\ misplaced = FALSE
  BY DEF Init, W!WInit
<1>2. pending \in Seq({"fill", "seek"}) /\ got \in Seq(Nat) /\ buf \in Seq(Nat) /\ Len(pending) = 0
  BY <1>1
<1>3. TypeOK
  <2>1. 0 \in Nat /\ 0 \in Int
    OBVIOUS
  <2> QED
    BY <1>1, <1>2, <2>1, Zenon DEF TypeOK
<1>4. Life /\ Place /\ Filled
  BY <1>1 DEF Life, Place, Filled
<1>5. Counts
  <2>1. Cardinality(Seeks(pending)) = 0
    BY <1>1, <1>2, SeeksFinite
  <2>2. ntasks >= Len(pending) + 0
    BY <1>1, <1>2
  <2> QED
    BY <1>1, <2>1, <2>2 DEF Counts
<1> QED
  BY <1>3, <1>4, <1>5 DEF Inv

LEMMA NextInv == Inv /\ [Next]_vars => Inv'
<1> SUFFICES ASSUME Inv, [Next]_vars PROVE Inv'
  OBVIOUS
<1>1. CASE Worker
  BY <1>1, StartFillInv, StartSeekInv, FillAfterSeekInv, PutBlockInv, DropJobInv DEF Worker
<1>2. CASE Tick
  BY <1>2, PlaySilenceInv, PlayFrameInv, EndOfFileInv DEF Tick
<1>3. CASE Control
  BY <1>3, PlayerOpenInv, MethodInv, SeekInv DEF Control
<1>4. CASE Closing
  BY <1>4, CloseDestroyInv, CloseJoinInv DEF Closing
<1>5. CASE UNCHANGED vars
  BY <1>5, SMTT(40) DEF Inv, TypeOK, Life, Counts, Place, Filled, vars, workerVars, readerVars,
              playerVars, historyVars
<1> QED
  BY <1>1, <1>2, <1>3, <1>4, <1>5 DEF Next

LEMMA InvHolds == Spec => []Inv
  BY InitInv, NextInv, PTL DEF Spec

\* The fields of the player and of its reader have their types; the counters of
\* pending tasks and of seeks are never decremented below 0.
THEOREM TypeCorrect == Spec => []TypeOK
<1>1. Inv => TypeOK
  BY DEF Inv
<1> QED
  BY <1>1, InvHolds, PTL

\* Whatever seeks are requested while blocks are read, for any sizes, the buffer
\* holds the bytes that follow those already played, without a gap.
THEOREM ContinuousPlay == Spec => []Continuous
<1>1. Inv => Continuous
  <2> SUFFICES ASSUME Inv, moving = 0, ~ misplaced, NEW i \in DOMAIN buf
               PROVE  buf[i] = next + i - 1
    BY DEF Continuous
  <2>1. DOMAIN buf = 1..Len(buf) /\ Len(buf) \in Nat
    BY DEF Inv, TypeOK
  <2>2. CASE reader
    BY <2>1, <2>2 DEF Inv, Place
  <2>3. CASE ~ reader
    BY <2>1, <2>3 DEF Inv, Life
  <2> QED
    BY <2>2, <2>3
<1> QED
  BY <1>1, InvHolds, PTL

\* player_process() uses the reader only while it exists and is not being
\* destroyed, and a freed reader has no job in the worker.
THEOREM ReaderSafe == Spec => []ReaderAlive
<1>1. Inv => ReaderAlive
  BY DEF Inv, TypeOK, Life, ReaderAlive
<1> QED
  BY <1>1, InvHolds, PTL

\* The end of the file is reported only when all of it was played, when the last
\* block could not be read, or when two frames in a row are larger than a block: in
\* particular never before the end for frames of up to half a block.
THEOREM EofHonest == Spec => EofIsReal
<1> USE SizesAssumption
<1>1. Inv /\ [Next]_vars
        => [tpc = "idle" /\ tpc' = "eof" /\ ~ misplaced
              => next' >= FileSize \/ failed \/ asked + asked' > BlockSize]_vars
  <2> SUFFICES ASSUME Inv, Next, tpc = "idle", tpc' = "eof", ~ misplaced, ~ failed,
                      ~ (asked + asked' > BlockSize)
               PROVE  next' >= FileSize
    OBVIOUS
  <2>1. PICK n \in Frames : PlayFrame(n)
    BY DEF Next, Worker, Tick, Control, Closing, StartFill, StartSeek, FillAfterSeek, PutBlock,
           DropJob, PlaySilence, EndOfFile, PlayerOpen, PlayerStart, PlayerStop, PlayerPause,
           PlayerLoop, PlayerSeek, PlayerClose, CloseDestroy, CloseJoin, playerVars
  <2>2. /\ buf \in Seq(Nat) /\ Len(buf) \in Nat /\ next \in Nat /\ ntasks \in Nat /\ moving \in Nat
        /\ got \in Seq(Nat) /\ fpos \in Nat /\ n \in Nat /\ asked \in Nat
    BY DEF Inv, TypeOK
  <2>3. Len(buf) < n /\ moving = 0 /\ ntasks = 0 /\ reader
    BY <2>1, <2>2 DEF PlayFrame, WouldBlock, Inv, Life
  <2>4. next' = next + Len(buf) /\ asked' = n
    BY <2>1, <2>2, <2>3 DEF PlayFrame, TakeBytes, Least
  <2>5. active = "none"
    BY <2>2, <2>3 DEF Inv, TypeOK, Counts
  <2>6. got = << >> /\ Len(got) = 0
    BY <2>5 DEF Inv, Life
  <2>7. fpos >= FileSize
    <3>1. Len(buf) + asked >= BlockSize \/ fpos >= FileSize
      BY <2>3 DEF Inv, Filled
    <3>2. Len(buf) + asked < BlockSize
      BY <2>2, <2>3, <2>4
    <3> QED
      BY <2>2, <3>1, <3>2
  <2>8. fpos = next + Len(buf) + 0
    BY <2>3, <2>6 DEF Inv, Place
  <2> QED
    BY <2>2, <2>4, <2>7, <2>8
<1> QED
  BY <1>1, InvHolds, PTL DEF Spec, EofIsReal

-------------------------------------------------------------------------------
(* The position of the player.                                             *)

\* A step that plays as much as it advances, if the player is not at the end.
LEMMA PauseKept ==
  ASSUME PauseInv, UNCHANGED pauseTime,
         reader' /\ tpc' = "idle" => reader /\ tpc = "idle" /\ Ahead' = Ahead
  PROVE  PauseInv'
<1>1. PICK p \in Pauses \cup {0}, n \in Frames : Silence(p, n)
  BY DEF PauseInv
<1>2. Silence(p, n)'
  BY <1>1 DEF Silence
<1> QED
  BY <1>2 DEF PauseInv

\* The position and the data are set to the same place.
LEMMA PauseSet ==
  ASSUME PauseInv, UNCHANGED pauseTime, Ahead' = 0 PROVE PauseInv'
<1> USE SizesAssumption
<1>1. PICK p \in Pauses \cup {0}, n \in Frames : Silence(p, n)
  BY DEF PauseInv
<1>2. p \in Int /\ n \in Nat /\ pauseTime' \in 0..p
  BY <1>1 DEF Silence
<1>3. p - pauseTime' \in Nat
  BY <1>2
<1>4. (p - pauseTime') * n \in Nat
  BY <1>2, <1>3
<1>5. Silence(p, n)'
  BY <1>2, <1>4 DEF Silence
<1> QED
  BY <1>5 DEF PauseInv

LEMMA InitPause == Init => PauseInv
<1> SUFFICES ASSUME Init PROVE PauseInv
  OBVIOUS
<1>1. PICK n \in Frames : TRUE
  BY SizesAssumption
<1>2. Silence(0, n)
  BY DEF Init, Silence
<1> QED
  BY <1>2 DEF PauseInv

\* Two frame sizes: k ticks of the smaller one and one of the other.
LEMMA LargerFrame ==
  ASSUME NEW k \in Nat, NEW m \in Nat, NEW n \in Nat, NEW a \in Int, a <= k * m
  PROVE  \E r \in {m, n} : a + n <= (k + 1) * r
<1>1. CASE m <= n
  <2>1. k * m <= k * n
    BY <1>1
  <2> QED BY <2>1
<1>2. CASE n <= m
  BY <1>2
<1> QED
  BY <1>1, <1>2

\* A frame of silence: the position advances, and what is left of the pause is less.
LEMMA PlaySilencePause ==
  ASSUME Inv, PauseInv, NEW n \in Frames, PlaySilence(n) PROVE PauseInv'
<1> USE SizesAssumption
<1>1. PICK p \in Pauses \cup {0}, m \in Frames : Silence(p, m)
  BY DEF PauseInv
<1>2. /\ state = "Playing" /\ tpc = "idle" /\ pauseTime > 0
      /\ pauseTime' = pauseTime - 1 /\ pos' = pos + n
      /\ UNCHANGED <<reader, tpc, next>>
  BY DEF PlaySilence, readerVars, historyVars
<1>3. reader /\ pos \in Nat /\ next \in Nat
  BY <1>2 DEF Inv, Life, TypeOK
<1>4. p \in Int /\ m \in Nat /\ n \in Nat /\ pauseTime \in 0..p
      /\ Ahead \in Int /\ 0 <= Ahead /\ Ahead <= (p - pauseTime) * m
  BY <1>1, <1>2, <1>3 DEF Silence, Ahead
<1>5. Ahead' = Ahead + n
  BY <1>2, <1>3, <1>4 DEF Ahead
<1>6. p - pauseTime \in Nat /\ (p - pauseTime) + 1 = p - pauseTime' /\ pauseTime' \in 0..p
  BY <1>2, <1>4
<1>7. PICK r \in {m, n} : Ahead + n <= ((p - pauseTime) + 1) * r
  BY <1>4, <1>6, LargerFrame
<1>8. Ahead' <= (p - pauseTime') * r
  BY <1>5, <1>6, <1>7, Zenon
<1>9. 0 <= Ahead'
  BY <1>4, <1>5
<1>10. Silence(p, r)'
  BY <1>6, <1>8, <1>9, Zenon DEF Silence
<1> QED
  BY <1>7, <1>10 DEF PauseInv

\* A whole frame is played, or the end of the file is found.
LEMMA PlayFramePause ==
  ASSUME Inv, PauseInv, NEW n \in Frames, PlayFrame(n) PROVE PauseInv'
<1>1. /\ UNCHANGED <<pauseTime, reader>> /\ tpc = "idle"
      /\ tpc' = IF Len(buf) < n THEN "eof" ELSE "idle"
      /\ pos' = IF buf = << >> THEN pos ELSE pos + n
      /\ next' = next + Least(n, Len(buf))
  BY DEF PlayFrame, TakeBytes
<1>2. buf \in Seq(Nat) /\ Len(buf) \in Nat /\ pos \in Nat /\ next \in Nat /\ n \in Nat \ {0}
  BY SizesAssumption DEF Inv, TypeOK
<1>3. ASSUME tpc' = "idle" PROVE Ahead' = Ahead
  <2>1. Len(buf) >= n
    BY <1>1, <1>2, <1>3
  <2>2. buf # << >>
    BY <1>2, <2>1
  <2>3. pos' = pos + n /\ next' = next + n
    BY <1>1, <1>2, <2>1, <2>2 DEF Least
  <2> QED BY <1>2, <2>3, SizesAssumption DEF Ahead
<1> QED
  BY <1>1, <1>3, PauseKept

LEMMA EndOfFilePause == ASSUME Inv, PauseInv, EndOfFile PROVE PauseInv'
<1> USE SizesAssumption
<1>1. /\ pos' = 0 /\ next' = HeaderSize
      /\ IF loopAfter < 0 THEN UNCHANGED pauseTime ELSE pauseTime' = loopAfter
  BY DEF EndOfFile, RequestSeek
<1>2. Ahead' = 0
  BY <1>1 DEF Ahead
<1>3. CASE loopAfter < 0
  BY <1>1, <1>2, <1>3, PauseSet
<1>4. CASE ~(loopAfter < 0)
  <2>1. PICK n \in Frames : TRUE
    OBVIOUS
  <2>2. PICK p \in Pauses : p = loopAfter
    BY DEF Inv, TypeOK
  <2>3. p \in Int /\ p >= 0 /\ pauseTime' = p /\ n \in Nat
    BY <1>1, <1>4, <2>2
  <2>4. pauseTime' \in 0..p /\ (p - pauseTime') * n = 0
    BY <2>3
  <2>5. 0 <= Ahead' /\ Ahead' <= (p - pauseTime') * n
    <3>1. Ahead' = 0 /\ 0 <= 0
      BY <1>2
    <3> QED BY <2>4, <3>1, Zenon
  <2>6. Silence(p, n)'
    BY <2>4, <2>5, Zenon DEF Silence
  <2> QED BY <2>6 DEF PauseInv
<1> QED
  BY <1>3, <1>4

LEMMA NextPause == Inv /\ PauseInv /\ [Next]_vars => PauseInv'
<1> SUFFICES ASSUME Inv, PauseInv, [Next]_vars PROVE PauseInv'
  OBVIOUS
<1>0. HeaderSize \in Nat /\ Targets \subseteq Nat
  BY SizesAssumption
<1>1. CASE Worker \/ UNCHANGED vars
  <2>1. UNCHANGED <<pauseTime, reader, tpc, pos, next>>
    BY <1>1 DEF Worker, StartFill, StartSeek, FillAfterSeek, PutBlock, DropJob, vars,
                readerVars, playerVars, historyVars
  <2> QED BY <2>1, PauseKept DEF Ahead
<1>2. CASE Tick
  BY <1>2, PlaySilencePause, PlayFramePause, EndOfFilePause DEF Tick
<1>3. CASE PlayerOpen
  <2>1. pos' = 0 /\ next' = HeaderSize /\ UNCHANGED pauseTime
    BY <1>3 DEF PlayerOpen
  <2>2. Ahead' = 0
    BY <1>0, <2>1 DEF Ahead
  <2> QED BY <2>1, <2>2, PauseSet
<1>4. CASE PlayerStop \/ PlayerClose
  <2>1. pos' = 0 /\ next' = HeaderSize /\ UNCHANGED pauseTime
    BY <1>4 DEF PlayerStop, PlayerClose, StopLocked, RequestSeek
  <2>2. Ahead' = 0
    BY <1>0, <2>1 DEF Ahead
  <2> QED BY <2>1, <2>2, PauseSet
<1>5. CASE PlayerSeek
  <2>1. PICK p \in Targets : pos' = p /\ next' = HeaderSize + p
    BY <1>5 DEF PlayerSeek, RequestSeek
  <2>2. Ahead' = 0
    BY <1>0, <2>1 DEF Ahead
  <2> QED BY <1>5, <2>2, PauseSet DEF PlayerSeek
<1>6. CASE PlayerStart \/ PlayerPause \/ PlayerLoop \/ CloseDestroy
  <2>1. UNCHANGED <<pauseTime, reader, tpc, pos, next>>
    BY <1>6 DEF PlayerStart, PlayerPause, PlayerLoop, CloseDestroy, readerVars, historyVars
  <2> QED BY <2>1, PauseKept DEF Ahead
<1>7. CASE CloseJoin
  <2>1. UNCHANGED pauseTime /\ ~reader'
    BY <1>7 DEF CloseJoin
  <2> QED BY <2>1, PauseKept
<1> QED
  BY <1>1, <1>2, <1>3, <1>4, <1>5, <1>6, <1>7 DEF Next, Control, Closing

\* For any frames, pauses and seeks, the position that is reported is the one of the
\* data being played, plus at most the silence of one pause.
THEOREM PositionHonest == Spec => []PositionTrue
<1>1. Spec => []PauseInv
  BY InitPause, NextPause, InvHolds, PTL DEF Spec
<1>2. Inv /\ PauseInv => PositionTrue
  <2> SUFFICES ASSUME Inv, PauseInv, reader, tpc = "idle"
               PROVE  \E p \in Pauses \cup {0}, n \in Frames : HeaderSize + pos - next \in 0..(p * n)
    BY DEF PositionTrue
  <2>1. PICK p \in Pauses \cup {0}, n \in Frames : Silence(p, n)
    BY DEF PauseInv
  <2>2. /\ p \in Int /\ n \in Nat /\ pauseTime \in 0..p
        /\ 0 <= Ahead /\ Ahead <= (p - pauseTime) * n
    BY <2>1, SizesAssumption DEF Silence
  <2>3. (p - pauseTime) * n = p * n - pauseTime * n /\ pauseTime * n >= 0 /\ p * n \in Nat
    BY <2>2
  <2>4. (p - pauseTime) * n <= p * n /\ (p - pauseTime) * n \in Int
    BY <2>2, <2>3
  <2>5. Ahead \in Int
    BY SizesAssumption DEF Ahead, Inv, TypeOK
  <2>6. Ahead \in 0..(p * n)
    BY <2>2, <2>3, <2>4, <2>5
  <2> QED BY <2>6, Zenon DEF Ahead
<1> QED
  BY <1>1, <1>2, InvHolds, PTL
===============================================================================
