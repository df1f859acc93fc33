--------------------------- MODULE EventQueueProofs ---------------------------
(***************************************************************************)
(* Proofs about EventQueue, for any filters, tickers, queue size, number   *)
(* of callbacks and depth of nested pumps.                                 *)
(***************************************************************************)
EXTENDS EventQueue, FiniteSetTheorems, TLAPS

\* Zenon first: it is the faster of the two on the many leaves without arithmetic.
USE ZenonT(3), SMTT(30)

Events == [filter : Filters, num : Nat]

\* A ticker holds a filter exactly while it notifies for it.
TickerInv == \A k \in Tickers : tpc[k] = "idle" <=> tf[k] = NoFilter

\* While the current notifier is set, it is the filter of the innermost callback,
\* or of the callback just below a pump that has not read an event yet.
NotifierInv ==
  notifier # NoFilter =>
    /\ life[notifier] # "destroyed"
    /\ \/ /\ Len(stack) >= 1
          /\ stack[Len(stack)].cb > 0 /\ stack[Len(stack)].filter = notifier
       \/ /\ Len(stack) >= 2 /\ stack[Len(stack)].cb = 0
          /\ stack[Len(stack) - 1].cb > 0
          /\ stack[Len(stack) - 1].filter = notifier

\* A frame inside a callback names a filter.
FrameInv == \A i \in 1..Len(stack) : stack[i].cb > 0 => stack[i].filter \in Filters

\* The last event given to the filter being notified is the one of its frame: the
\* pump above it, if there is one, has not read an event yet.
Notified == IF stack[Len(stack)].cb > 0 THEN Len(stack) ELSE Len(stack) - 1

\* The numbers in the queue increase, and are above all that was read: what the
\* callbacks saw and what the frames of the pumps hold.
NumberInv ==
  /\ \A i \in 1..Len(q) : q[i].num <= emitted
  /\ \A i, j \in 1..Len(q) : i < j => q[i].num < q[j].num
  /\ \A x \in Filters \X (1..NCallbacks) :
       seen[x] <= emitted /\ \A i \in 1..Len(q) : seen[x] < q[i].num
  /\ \A n \in 1..Len(stack) : stack[n].cb > 0 =>
       stack[n].num <= emitted /\ \A i \in 1..Len(q) : stack[n].num < q[i].num
  /\ notifier # NoFilter =>
       \A j \in 1..NCallbacks : seen[<<notifier, j>>] <= stack[Notified].num

\* As long as no callback pumps there is one pump at most, and the filter of its
\* callback is the current notifier unless it was destroyed.
AloneInv ==
  "nested" \notin history =>
    /\ "missed" \notin history /\ Len(stack) <= 1
    /\ Len(stack) = 1 /\ stack[1].cb > 0 =>
         notifier = stack[1].filter \/ life[stack[1].filter] = "destroyed"

IInv == TypeOK /\ TickerInv /\ NoDanglingEvent /\ NotifierInv /\ FrameInv

-----------------------------------------------------------------------------
(* The queue.                                                              *)

\* What ms_event_queue_clean() leaves are events of other filters that were in
\* the queue.
LEMMA CleanLemma ==
  ASSUME q \in Seq(Events), NEW f, Clean(f)
  PROVE  /\ q' \in Seq(Events)
         /\ \A i \in 1..Len(q') : q'[i].filter # f
         /\ \A i \in 1..Len(q') : \E j \in 1..Len(q) : q'[i] = q[j]
<1>1. IsFiniteSet(Kept(f)) /\ Kept(f) \subseteq 1..Len(q)
  <2>1. IsFiniteSet(1..Len(q))
    BY FS_Interval
  <2>2. Kept(f) \subseteq 1..Len(q)
    BY DEF Kept
  <2> QED
    BY <2>1, <2>2, FS_Subset
<1>2. Cardinality(Kept(f)) \in Nat
  BY <1>1, FS_CardinalityType
<1>3. PICK keep \in [1..Cardinality(Kept(f)) -> Kept(f)] :
        q' = [i \in 1..Cardinality(Kept(f)) |-> q[keep[i]]]
  BY DEF Clean
<1>4. \A i \in 1..Cardinality(Kept(f)) :
        /\ keep[i] \in 1..Len(q) /\ q[keep[i]].filter # f
        /\ q[keep[i]] \in Events
  BY <1>1, <1>3 DEF Kept
<1>5. q' \in Seq(Events) /\ Len(q') = Cardinality(Kept(f))
  BY <1>2, <1>3, <1>4
<1> QED
  BY <1>2, <1>3, <1>4, <1>5

\* ms_event_queue_clean() adds nothing.
LEMMA CleanShortens ==
  ASSUME q \in Seq(Events), NEW f, Clean(f)
  PROVE  Len(q') \in Nat /\ Len(q') <= Len(q)
<1>1. IsFiniteSet(1..Len(q)) /\ Cardinality(1..Len(q)) = Len(q)
  <2>1. PICK n \in Nat : n = Len(q)
    OBVIOUS
  <2>2. IsFiniteSet(1..n) /\ Cardinality(1..n) = IF 1 > n THEN 0 ELSE n - 1 + 1
    BY FS_Interval
  <2>3. (IF 1 > n THEN 0 ELSE n - 1 + 1) = n
    OBVIOUS
  <2> QED
    BY <2>1, <2>2, <2>3
<1>2. Kept(f) \subseteq 1..Len(q)
  BY DEF Kept
<1>3. Cardinality(Kept(f)) \in Nat /\ Cardinality(Kept(f)) <= Len(q)
  BY <1>1, <1>2, FS_Subset, FS_CardinalityType
<1>4. PICK keep \in [1..Cardinality(Kept(f)) -> Kept(f)] :
        q' = [i \in 1..Cardinality(Kept(f)) |-> q[keep[i]]]
  BY DEF Clean
<1>5. Len(q') = Cardinality(Kept(f))
  BY <1>3, <1>4
<1> QED
  BY <1>3, <1>5

\* Appending an event and taking the first one.
LEMMA PutLemma ==
  ASSUME NEW s \in Seq(Events), NEW e \in Events
  PROVE  /\ Append(s, e) \in Seq(Events) /\ Len(Append(s, e)) = Len(s) + 1
         /\ \A i \in 1..Len(Append(s, e)) :
              Append(s, e)[i] = IF i <= Len(s) THEN s[i] ELSE e
  OBVIOUS

LEMMA GetLemma ==
  ASSUME NEW s \in Seq(Events), s # <<>>
  PROVE  /\ Tail(s) \in Seq(Events) /\ Len(Tail(s)) = Len(s) - 1
         /\ Head(s) \in Events /\ Head(s) = s[1] /\ Len(s) >= 1
         /\ \A i \in 1..Len(Tail(s)) : Tail(s)[i] = s[i + 1]
  OBVIOUS

(* The stack of pumps.                                                     *)

LEMMA PushLemma ==
  ASSUME NEW s \in Seq(Frame), NEW fr \in Frame
  PROVE  /\ Append(s, fr) \in Seq(Frame) /\ Len(Append(s, fr)) = Len(s) + 1
         /\ Append(s, fr) # <<>>
         /\ \A i \in 1..Len(Append(s, fr)) :
              Append(s, fr)[i] = IF i <= Len(s) THEN s[i] ELSE fr
  OBVIOUS

LEMMA PopLemma ==
  ASSUME NEW s \in Seq(Frame), s # <<>>
  PROVE  LET r == SubSeq(s, 1, Len(s) - 1)
         IN  /\ r \in Seq(Frame) /\ Len(r) = Len(s) - 1 /\ Len(s) >= 1
             /\ \A i \in 1..Len(r) : r[i] = s[i]
<1> DEFINE r == SubSeq(s, 1, Len(s) - 1)
<1>1. Len(s) \in Nat /\ Len(s) >= 1
  OBVIOUS
<1>2. r = [i \in 1..(Len(s) - 1) |-> s[i]]
  BY <1>1
<1>3. \A i \in 1..(Len(s) - 1) : s[i] \in Frame
  BY <1>1
<1> HIDE DEF r
<1>4. PICK n \in Nat : n = Len(s) - 1
  BY <1>1
<1>5. r \in [1..n -> Frame]
  BY <1>2, <1>3, <1>4
<1>6. r \in Seq(Frame) /\ Len(r) = n
  BY <1>4, <1>5
<1>7. \A i \in 1..n : r[i] = s[i]
  BY <1>2, <1>4
<1>8. r = <<>> => n = 0
  BY <1>6
<1>9. n = 0 => Len(s) = 1
  BY <1>1, <1>4
<1> QED
  BY <1>1, <1>4, <1>6, <1>7, <1>8, <1>9 DEF r

LEMMA ReplaceLemma ==
  ASSUME NEW s \in Seq(Frame), s # <<>>, NEW fr \in Frame
  PROVE  LET r == [s EXCEPT ![Len(s)] = fr]
         IN  /\ r \in Seq(Frame) /\ Len(r) = Len(s) /\ r # <<>> /\ Len(s) >= 1
             /\ \A i \in 1..Len(r) : r[i] = IF i < Len(s) THEN s[i] ELSE fr
  OBVIOUS

-----------------------------------------------------------------------------
(* The initial state and each action keep the invariant.                   *)

LEMMA InitInv == Init => IInv
<1> SUFFICES ASSUME Init PROVE IInv
  OBVIOUS
<1>1. TypeOK
  <2>1. q \in Seq([filter : Filters, num : Nat]) /\ stack \in Seq(Frame) /\ Len(stack) <= MaxDepth
    BY EventQueueAssumption DEF Init
  <2>2. seen \in [Filters \X (1..NCallbacks) -> Nat]
    BY DEF Init
  <2>3. /\ life \in [Filters -> {"attached", "detached", "destroyed"}]
        /\ tpc \in [Tickers -> {"idle", "check", "put"}]
        /\ tf \in [Tickers -> Filters \cup {NoFilter}]
    BY DEF Init
  <2> QED
    BY <2>1, <2>2, <2>3 DEF Init, TypeOK
<1> QED
  BY <1>1 DEF Init, IInv, TickerInv, NoDanglingEvent, NotifierInv, FrameInv

\* The steps of a ticker leave the pumps alone.
LEMMA NotifyInv ==
  ASSUME IInv, NEW k \in Tickers, NEW f \in Filters, Notify(k, f)
  PROVE  IInv'
<1> USE EventQueueAssumption
<1>1. TypeOK'
  BY DEF IInv, TypeOK, Notify
<1>2. TickerInv'
  BY DEF IInv, TypeOK, TickerInv, Notify
<1>3. NoDanglingEvent'
  BY DEF IInv, TypeOK, NoDanglingEvent, Notify
<1>4. NotifierInv' /\ FrameInv'
  BY DEF IInv, NotifierInv, FrameInv, Notify
<1> QED
  BY <1>1, <1>2, <1>3, <1>4 DEF IInv

LEMMA CheckRoomInv ==
  ASSUME IInv, NEW k \in Tickers, CheckRoom(k)
  PROVE  IInv'
<1> USE EventQueueAssumption
<1>1. TypeOK'
  BY DEF IInv, TypeOK, CheckRoom
<1>2. TickerInv'
  BY DEF IInv, TypeOK, TickerInv, CheckRoom
<1>3. NoDanglingEvent'
  BY DEF IInv, TypeOK, NoDanglingEvent, CheckRoom
<1>4. NotifierInv' /\ FrameInv'
  BY DEF IInv, NotifierInv, FrameInv, CheckRoom
<1> QED
  BY <1>1, <1>2, <1>3, <1>4 DEF IInv

LEMMA PutEventInv ==
  ASSUME IInv, NEW k \in Tickers, PutEvent(k)
  PROVE  IInv'
<1> USE EventQueueAssumption
<1> DEFINE e == [filter |-> tf[k], num |-> emitted + 1]
<1>1. tf[k] \in Filters /\ life[tf[k]] = "attached" /\ e \in Events
  BY DEF IInv, TypeOK, TickerInv, NoDanglingEvent, PutEvent, Events
<1>2. q \in Seq(Events) /\ q' = Append(q, e) /\ e.filter = tf[k]
  BY DEF IInv, TypeOK, PutEvent, Events
<1> HIDE DEF e
<1>3. /\ q' \in Seq(Events) /\ Len(q') = Len(q) + 1 /\ Len(q) \in Nat
      /\ \A i \in 1..Len(q') : q'[i] = IF i <= Len(q) THEN q[i] ELSE e
  BY <1>1, <1>2, PutLemma
<1>4. TypeOK'
  BY <1>3 DEF IInv, TypeOK, PutEvent, Events
<1>5. TickerInv'
  BY DEF IInv, TypeOK, TickerInv, PutEvent
<1>6. NoDanglingEvent'
  <2>1. life' = life
    BY DEF PutEvent
  <2>2. \A i \in 1..Len(q') : life'[q'[i].filter] # "destroyed"
    BY <1>1, <1>2, <1>3, <2>1 DEF IInv, NoDanglingEvent
  <2>3. \A j \in Tickers : tf'[j] # NoFilter => life'[tf'[j]] = "attached"
    BY <2>1 DEF IInv, TypeOK, NoDanglingEvent, PutEvent
  <2> QED
    BY <1>3, <2>2, <2>3 DEF NoDanglingEvent
<1>7. NotifierInv' /\ FrameInv'
  BY DEF IInv, NotifierInv, FrameInv, PutEvent
<1> QED
  BY <1>4, <1>5, <1>6, <1>7 DEF IInv

LEMMA AttachInv ==
  ASSUME IInv, NEW f \in Filters, Attach(f)
  PROVE  IInv'
<1> USE EventQueueAssumption
<1>1. TypeOK'
  BY DEF IInv, TypeOK, Attach
<1>2. NoDanglingEvent'
  BY DEF IInv, TypeOK, NoDanglingEvent, Attach
<1>3. TickerInv' /\ FrameInv'
  BY DEF IInv, TickerInv, FrameInv, Attach
<1>4. NotifierInv'
  BY DEF IInv, TypeOK, NotifierInv, Attach
<1> QED
  BY <1>1, <1>2, <1>3, <1>4 DEF IInv

LEMMA DetachInv ==
  ASSUME IInv, NEW f \in Filters, Detach(f)
  PROVE  IInv'
<1> USE EventQueueAssumption
<1>1. TypeOK'
  BY DEF IInv, TypeOK, Detach
<1>2. NoDanglingEvent'
  BY DEF IInv, TypeOK, NoDanglingEvent, Detach
<1>3. TickerInv' /\ FrameInv'
  BY DEF IInv, TickerInv, FrameInv, Detach
<1>4. NotifierInv'
  BY DEF IInv, TypeOK, NotifierInv, Detach
<1> QED
  BY <1>1, <1>2, <1>3, <1>4 DEF IInv

LEMMA DestroyInv ==
  ASSUME IInv, NEW f \in Filters, Destroy(f)
  PROVE  IInv'
<1> USE EventQueueAssumption
<1>1. /\ q' \in Seq(Events)
      /\ \A i \in 1..Len(q') : q'[i].filter # f
      /\ \A i \in 1..Len(q') : \E j \in 1..Len(q) : q'[i] = q[j]
  BY CleanLemma DEF IInv, TypeOK, Events, Destroy
<1>2. life' = [life EXCEPT ![f] = "destroyed"] /\ life[f] = "detached"
  BY DEF Destroy
<1>3. TypeOK'
  BY <1>1, <1>2 DEF IInv, TypeOK, Events, Destroy
<1>4. NoDanglingEvent'
  <2>q. q \in Seq(Events)
    BY DEF IInv, TypeOK, Events
  <2>r. \A i \in 1..Len(q) : q[i] \in Events
    BY <2>q
  <2>1. \A i \in 1..Len(q) : q[i].filter \in Filters /\ life[q[i].filter] # "destroyed"
    BY <2>r DEF IInv, NoDanglingEvent, Events
  <2>2. \A i \in 1..Len(q') : life'[q'[i].filter] # "destroyed"
    <3>1. life \in [Filters -> {"attached", "detached", "destroyed"}]
      BY DEF IInv, TypeOK
    <3> SUFFICES ASSUME NEW i \in 1..Len(q') PROVE life'[q'[i].filter] # "destroyed"
      OBVIOUS
    <3>2. PICK j \in 1..Len(q) : q'[i] = q[j]
      BY <1>1
    <3>3. q'[i].filter \in Filters \ {f} /\ life[q'[i].filter] # "destroyed"
      BY <1>1, <2>1, <3>2
    <3> QED
      BY <1>2, <3>1, <3>3
  <2>3. \A j \in Tickers : tf'[j] # NoFilter => life'[tf'[j]] = "attached"
    BY <1>2 DEF IInv, TypeOK, NoDanglingEvent, Destroy
  <2> QED
    BY <1>1, <2>2, <2>3 DEF NoDanglingEvent
<1>5. TickerInv' /\ FrameInv'
  BY DEF IInv, TickerInv, FrameInv, Destroy
<1>6. NotifierInv'
  BY <1>2 DEF IInv, TypeOK, NotifierInv, Destroy
<1> QED
  BY <1>3, <1>4, <1>5, <1>6 DEF IInv

LEMMA SkipInv == ASSUME IInv, Skip PROVE IInv'
<1>1. TypeOK'
  BY DEF IInv, TypeOK, Skip
<1>2. NoDanglingEvent'
  BY DEF IInv, NoDanglingEvent, Skip
<1>3. TickerInv' /\ FrameInv' /\ NotifierInv'
  BY DEF IInv, TickerInv, FrameInv, NotifierInv, Skip
<1> QED
  BY <1>1, <1>2, <1>3 DEF IInv

LEMMA PumpInv == ASSUME IInv, Pump PROVE IInv'
<1> USE EventQueueAssumption
<1>1. InPump \in Frame /\ InPump.cb = 0
  BY DEF InPump, Frame
<1>2. stack \in Seq(Frame) /\ Len(stack) \in Nat /\ Len(stack) + 1 <= MaxDepth
  BY DEF IInv, TypeOK, Pump
<1>3. stack' = Append(stack, InPump)
  BY DEF Pump
<1>4. /\ stack' \in Seq(Frame) /\ Len(stack') = Len(stack) + 1 /\ stack' # <<>>
      /\ \A i \in 1..Len(stack') :
           stack'[i] = IF i <= Len(stack) THEN stack[i] ELSE InPump
  BY <1>1, <1>2, <1>3, PushLemma
<1>5. TypeOK'
  BY <1>2, <1>4 DEF IInv, TypeOK, Pump
<1>6. NoDanglingEvent' /\ TickerInv'
  BY DEF IInv, NoDanglingEvent, TickerInv, Pump
<1>7. FrameInv'
  BY <1>1, <1>2, <1>4 DEF IInv, FrameInv
<1>8. NotifierInv'
  <2> SUFFICES ASSUME notifier # NoFilter PROVE NotifierInv'
    BY DEF NotifierInv, Pump
  <2>1. stack # <<>> /\ stack[Len(stack)].cb > 0
    BY <1>2 DEF IInv, TypeOK, Pump, UserCode, Top
  <2>2. Len(stack) >= 1 /\ stack[Len(stack)].filter = notifier /\ life[notifier] # "destroyed"
    BY <1>2, <2>1 DEF IInv, NotifierInv
  <2>3. stack'[Len(stack')] = InPump /\ stack'[Len(stack') - 1] = stack[Len(stack)]
    BY <1>2, <1>4, <2>2
  <2> QED
    BY <1>1, <1>2, <1>4, <2>1, <2>2, <2>3 DEF NotifierInv, Pump
<1> QED
  BY <1>5, <1>6, <1>7, <1>8 DEF IInv

LEMMA ReadEventInv == ASSUME IInv, ReadEvent PROVE IInv'
<1> USE EventQueueAssumption
<1>s. /\ stack \in Seq(Frame) /\ stack # <<>> /\ Len(stack) \in Nat /\ Len(stack) <= MaxDepth
      /\ stack[Len(stack)].cb = 0
  BY DEF IInv, TypeOK, ReadEvent, Top
<1>1. CASE q = <<>>
  <2>e. /\ stack' = SubSeq(stack, 1, Len(stack) - 1)
        /\ UNCHANGED <<q, notifier, life, tpc, tf, emitted, seen, history>>
    BY <1>1 DEF ReadEvent, Pop
  <2>1. /\ stack' \in Seq(Frame) /\ Len(stack') = Len(stack) - 1 /\ Len(stack) >= 1
        /\ \A i \in 1..Len(stack') : stack'[i] = stack[i]
        /\ stack' = <<>> => Len(stack) = 1
    BY <1>s, <2>e, PopLemma
  <2>2. notifier # NoFilter =>
          /\ Len(stack) >= 2 /\ stack[Len(stack) - 1].cb > 0
          /\ stack[Len(stack) - 1].filter = notifier /\ life[notifier] # "destroyed"
    BY <1>s DEF IInv, NotifierInv
  <2>3. TypeOK'
    BY <1>s, <2>e, <2>1, <2>2 DEF IInv, TypeOK
  <2>4. NoDanglingEvent' /\ TickerInv'
    BY <2>e DEF IInv, NoDanglingEvent, TickerInv
  <2>5. FrameInv'
    BY <1>s, <2>1 DEF IInv, FrameInv
  <2>6. NotifierInv'
    BY <1>s, <2>e, <2>1, <2>2 DEF NotifierInv
  <2> QED
    BY <2>3, <2>4, <2>5, <2>6 DEF IInv
<1>2. CASE q # <<>>
  <2> DEFINE fr == [filter |-> Head(q).filter, num |-> Head(q).num, cb |-> 1]
  <2>e. /\ stack' = [stack EXCEPT ![Len(stack)] = fr]
        /\ q' = Tail(q) /\ notifier' = Head(q).filter
        /\ seen' = [seen EXCEPT ![<<Head(q).filter, 1>>] = Head(q).num]
        /\ UNCHANGED <<life, tpc, tf, emitted, history>>
    BY <1>2 DEF ReadEvent, ReplaceTop
  <2>p. q \in Seq(Events) /\ Len(q) \in Nat
    BY DEF IInv, TypeOK, Events
  <2>q. /\ q' \in Seq(Events) /\ Len(q') = Len(q) - 1 /\ Len(q) \in Nat
        /\ Head(q) \in Events /\ Head(q) = q[1] /\ Len(q) >= 1
        /\ \A i \in 1..Len(q') : q'[i] = q[i + 1]
    BY <1>2, <2>e, <2>p, GetLemma
  <2>f. fr \in Frame /\ fr.cb = 1 /\ fr.filter = Head(q).filter
    BY <2>q DEF Events, Frame
  <2>h. Head(q).filter \in Filters /\ Head(q).num \in Nat
    BY <2>q DEF Events
  <2> HIDE DEF fr
  <2>1. /\ stack' \in Seq(Frame) /\ Len(stack') = Len(stack) /\ stack' # <<>> /\ Len(stack) >= 1
        /\ \A i \in 1..Len(stack') : stack'[i] = IF i < Len(stack) THEN stack[i] ELSE fr
    BY <1>s, <2>e, <2>f, ReplaceLemma
  <2>2. TypeOK'
    <3>1. seen' \in [Filters \X (1..NCallbacks) -> Nat]
      BY <2>e, <2>h DEF IInv, TypeOK
    <3>2. q' \in Seq([filter : Filters, num : Nat]) /\ notifier' \in Filters \cup {NoFilter}
      BY <2>e, <2>q, <2>h DEF Events
    <3>3. stack' \in Seq(Frame) /\ Len(stack') <= MaxDepth /\ stack' # <<>>
      BY <1>s, <2>1
    <3>4. /\ life' \in [Filters -> {"attached", "detached", "destroyed"}]
          /\ tpc' \in [Tickers -> {"idle", "check", "put"}]
          /\ tf' \in [Tickers -> Filters \cup {NoFilter}]
          /\ emitted' \in Nat /\ history' \subseteq {"nested", "missed"}
      BY <2>e DEF IInv, TypeOK
    <3> QED
      BY <3>1, <3>2, <3>3, <3>4, Zenon DEF TypeOK
  <2>3. NoDanglingEvent'
    BY <2>e, <2>q DEF IInv, NoDanglingEvent
  <2>4. TickerInv'
    BY <2>e DEF IInv, TickerInv
  <2>5. FrameInv'
    BY <1>s, <2>f, <2>h, <2>1 DEF IInv, FrameInv
  <2>6. NotifierInv'
    <3>1. life[Head(q).filter] # "destroyed"
      BY <2>q DEF IInv, NoDanglingEvent
    <3>2. Len(stack') >= 1 /\ stack'[Len(stack')] = fr
      BY <1>s, <2>1
    <3>3. life'[notifier'] # "destroyed" /\ notifier' = fr.filter /\ fr.cb > 0
      BY <2>e, <2>f, <3>1
    <3> QED
      BY <3>2, <3>3 DEF NotifierInv
  <2> QED
    BY <2>2, <2>3, <2>4, <2>5, <2>6 DEF IInv
<1> QED
  BY <1>1, <1>2

LEMMA CallbackReturnsInv == ASSUME IInv, CallbackReturns PROVE IInv'
<1> USE EventQueueAssumption
<1> DEFINE fr == IF notifier # NoFilter /\ Top.cb < NCallbacks
                 THEN [Top EXCEPT !.cb = @ + 1] ELSE InPump
<1>s. /\ stack \in Seq(Frame) /\ stack # <<>> /\ Len(stack) \in Nat /\ Len(stack) <= MaxDepth
      /\ Top.cb > 0
  BY DEF IInv, TypeOK, CallbackReturns
<1>t. Len(stack) >= 1 /\ Top = stack[Len(stack)] /\ Top \in Frame /\ Top.filter \in Filters
  <2>1. Len(stack) >= 1 /\ Top = stack[Len(stack)] /\ Top \in Frame
    BY <1>s DEF Top
  <2> QED
    BY <1>s, <2>1 DEF IInv, FrameInv
<1>e. /\ stack' = [stack EXCEPT ![Len(stack)] = fr]
      /\ notifier' = IF notifier # NoFilter /\ Top.cb < NCallbacks THEN notifier ELSE NoFilter
      /\ seen' = seen \/ seen' = [seen EXCEPT ![<<Top.filter, Top.cb + 1>>] = Top.num]
      /\ history' \subseteq {"nested", "missed"}
      /\ UNCHANGED <<q, life, tpc, tf, emitted>>
  BY DEF IInv, TypeOK, CallbackReturns, ReplaceTop, Missed
<1>f. /\ fr \in Frame /\ (fr.cb > 0 => fr.filter = Top.filter)
      /\ notifier' # NoFilter => fr.cb > 0
  <2>1. CASE notifier # NoFilter /\ Top.cb < NCallbacks
    <3>1. fr = [Top EXCEPT !.cb = Top.cb + 1]
      BY <2>1
    <3>2. Top.cb + 1 \in 0..NCallbacks /\ Top.cb + 1 > 0
      BY <1>s, <1>t, <2>1 DEF Frame
    <3>3. fr \in Frame /\ fr.filter = Top.filter /\ fr.cb = Top.cb + 1
      BY <1>t, <3>1, <3>2 DEF Frame
    <3> QED
      BY <3>2, <3>3
  <2>2. CASE ~(notifier # NoFilter /\ Top.cb < NCallbacks)
    BY <1>e, <2>2 DEF Frame, InPump
  <2> QED
    BY <2>1, <2>2
<1> HIDE DEF fr
<1>1. /\ stack' \in Seq(Frame) /\ Len(stack') = Len(stack) /\ stack' # <<>>
      /\ \A i \in 1..Len(stack') : stack'[i] = IF i < Len(stack) THEN stack[i] ELSE fr
  BY <1>s, <1>e, <1>f, ReplaceLemma
<1>2. TypeOK'
  <2>1. seen' \in [Filters \X (1..NCallbacks) -> Nat]
    BY <1>e, <1>t DEF IInv, TypeOK, Frame
  <2>2. notifier' \in Filters \cup {NoFilter}
    BY <1>e DEF IInv, TypeOK
  <2> QED
    BY <1>s, <1>e, <1>1, <2>1, <2>2 DEF IInv, TypeOK
<1>3. NoDanglingEvent' /\ TickerInv'
  BY <1>e DEF IInv, NoDanglingEvent, TickerInv
<1>4. FrameInv'
  BY <1>s, <1>t, <1>f, <1>1 DEF IInv, FrameInv
<1>5. NotifierInv'
  <2>1. stack'[Len(stack')] = fr
    BY <1>s, <1>t, <1>1
  <2>2. notifier # NoFilter => Top.filter = notifier /\ life[notifier] # "destroyed"
    BY <1>s, <1>t DEF IInv, NotifierInv, Frame
  <2> QED
    BY <1>e, <1>f, <1>t, <1>1, <2>1, <2>2 DEF NotifierInv
<1> QED
  BY <1>2, <1>3, <1>4, <1>5 DEF IInv

LEMMA NextInv == IInv /\ [Next]_vars => IInv'
<1> SUFFICES ASSUME IInv, [Next]_vars PROVE IInv'
  OBVIOUS
<1>1. CASE AppStep
  BY <1>1, AttachInv, DetachInv, DestroyInv, SkipInv, PumpInv, ReadEventInv,
     CallbackReturnsInv DEF AppStep
<1>2. ASSUME NEW k \in Tickers, TickerStep(k) PROVE IInv'
  BY <1>2, NotifyInv, CheckRoomInv, PutEventInv DEF TickerStep
<1>3. CASE UNCHANGED vars
  <2>1. TypeOK' /\ TickerInv'
    BY <1>3 DEF vars, IInv, TypeOK, TickerInv
  <2>2. NoDanglingEvent' /\ NotifierInv' /\ FrameInv'
    BY <1>3 DEF vars, IInv, NoDanglingEvent, NotifierInv, FrameInv
  <2> QED
    BY <2>1, <2>2 DEF IInv
<1> QED
  BY <1>1, <1>2, <1>3 DEF Next

-----------------------------------------------------------------------------
(* The theorems.                                                           *)

\* The invariant holds in every behaviour of the event queue.
THEOREM InductiveInvariant == Spec => []IInv
  BY InitInv, NextInv, PTL DEF Spec

\* The queue, the pumps and the notifying threads are well typed, and no current
\* notifier is left when no pump runs.
THEOREM TypeCorrect == Spec => []TypeOK
<1>1. IInv => TypeOK
  BY DEF IInv
<1> QED
  BY <1>1, InductiveInvariant, PTL

\* Destroying a filter leaves none of its events in the queue and no thread about
\* to write one.
THEOREM EventsAlive == Spec => []NoDanglingEvent
<1>1. IInv => NoDanglingEvent
  BY DEF IInv
<1> QED
  BY <1>1, InductiveInvariant, PTL

\* The callback loop of read_event() never goes on with a destroyed filter, at
\* any depth of nested pumps.
THEOREM CallbacksAlive == Spec => []NotifierAlive
<1>1. IInv => NotifierAlive
  <2> SUFFICES ASSUME IInv, notifier # NoFilter
               PROVE  /\ stack # <<>> /\ life[notifier] # "destroyed"
                      /\ Top.cb > 0 => Top.filter = notifier
    BY DEF NotifierAlive
  <2>1. stack \in Seq(Frame) /\ Len(stack) \in Nat
    BY DEF IInv, TypeOK
  <2>2. Len(stack) >= 1 /\ stack # <<>>
    BY <2>1 DEF IInv, NotifierInv
  <2> QED
    BY <2>1, <2>2 DEF IInv, NotifierInv, Top
<1> QED
  BY <1>1, InductiveInvariant, PTL

\* The test of write_event() keeps the number of events, with those about to be
\* written, below the limit plus the number of threads.
THEOREM QueueBounded == Spec => []Bounded
<1> USE EventQueueAssumption
<1> DEFINE BInv == TypeOK /\ Bounded
<1>w. IsFiniteSet(Writing) /\ Cardinality(Writing) \in Nat
      /\ Cardinality(Writing) <= Cardinality(Tickers) /\ Cardinality(Tickers) \in Nat
  BY FS_Subset, FS_CardinalityType DEF Writing
<1>x. IsFiniteSet(Writing') /\ Cardinality(Writing') \in Nat
      /\ Cardinality(Writing') <= Cardinality(Tickers)
  BY FS_Subset, FS_CardinalityType DEF Writing
<1>1. Init => Bounded
  <2> SUFFICES ASSUME Init PROVE Len(q) + Cardinality(Writing) <= MaxSize + Cardinality(Tickers)
    BY DEF Bounded
  <2>1. Len(q) = 0
    BY DEF Init
  <2> QED
    BY <1>w, <2>1
<1>2. TypeOK /\ Bounded /\ [Next]_vars => Bounded'
  <2> SUFFICES ASSUME TypeOK, Len(q) + Cardinality(Writing) <= MaxSize + Cardinality(Tickers),
                      [Next]_vars
               PROVE  Len(q') + Cardinality(Writing') <= MaxSize + Cardinality(Tickers)
    BY DEF Bounded
  <2>t. q \in Seq(Events) /\ Len(q) \in Nat /\ tpc \in [Tickers -> {"idle", "check", "put"}]
    BY DEF TypeOK, Events
  <2>1. ASSUME NEW k \in Tickers, NEW f \in Filters, Notify(k, f)
        PROVE  q' = q /\ Writing' = Writing
    BY <2>t, <2>1 DEF Notify, Writing
  <2>2. ASSUME NEW k \in Tickers, CheckRoom(k)
        PROVE  q' = q /\ (Writing' = Writing \/ Len(q) <= MaxSize)
    <3>1. CASE Len(q) > MaxSize
      BY <2>t, <2>2, <3>1 DEF CheckRoom, Writing
    <3>2. CASE ~(Len(q) > MaxSize)
      BY <2>t, <2>2, <3>2 DEF CheckRoom
    <3> QED
      BY <3>1, <3>2
  <2>3. ASSUME NEW k \in Tickers, PutEvent(k)
        PROVE  Len(q') = Len(q) + 1 /\ Cardinality(Writing') = Cardinality(Writing) - 1
    <3>1. q' = Append(q, [filter |-> tf[k], num |-> emitted + 1])
      BY <2>3 DEF PutEvent
    <3>2. Len(q') = Len(q) + 1
      BY <2>t, <3>1
    <3>3. Writing' = Writing \ {k} /\ k \in Writing
      BY <2>t, <2>3 DEF PutEvent, Writing
    <3>4. Cardinality(Writing') = Cardinality(Writing) - 1
      BY <1>w, <3>3, FS_RemoveElement
    <3> QED
      BY <3>2, <3>4
  <2>4. ASSUME AppStep
        PROVE  Len(q') \in Nat /\ Len(q') <= Len(q) /\ Writing' = Writing
    <3>1. UNCHANGED tpc
      BY <2>4 DEF AppStep, Attach, Detach, Destroy, Skip, Pump, ReadEvent, CallbackReturns
    <3>2. ASSUME NEW f \in Filters, Clean(f) PROVE Len(q') \in Nat /\ Len(q') <= Len(q)
      BY <2>t, <3>2, CleanShortens
    <3>3. ASSUME Skip PROVE Len(q') \in Nat /\ Len(q') <= Len(q)
      <4>1. Len(q') = 0
        BY <3>3 DEF Skip
      <4> QED
        BY <2>t, <4>1
    <3>4. ASSUME ReadEvent PROVE Len(q') \in Nat /\ Len(q') <= Len(q)
      <4>1. q' = q \/ (q # <<>> /\ q' = Tail(q))
        BY <3>4 DEF ReadEvent
      <4>2. CASE q' = q
        BY <2>t, <4>2
      <4>3. CASE q # <<>> /\ q' = Tail(q)
        <5>1. Len(q') = Len(q) - 1 /\ Len(q) >= 1
          BY <2>t, <4>3, GetLemma
        <5> QED
          BY <2>t, <5>1
      <4> QED
        BY <4>1, <4>2, <4>3
    <3>5. q' = q \/ Skip \/ ReadEvent \/ \E f \in Filters : Clean(f)
      BY <2>4 DEF AppStep, Attach, Detach, Destroy, Pump, CallbackReturns
    <3>6. Len(q') \in Nat /\ Len(q') <= Len(q)
      BY <2>t, <3>2, <3>3, <3>4, <3>5
    <3> QED
      BY <3>1, <3>6 DEF Writing
  <2>5. CASE UNCHANGED vars
    BY <2>5 DEF vars, Writing
  <2>6. CASE AppStep
    BY <1>w, <2>t, <2>4, <2>6
  <2>7. ASSUME NEW k \in Tickers, TickerStep(k)
        PROVE  Len(q') + Cardinality(Writing') <= MaxSize + Cardinality(Tickers)
    <3>1. CASE \E f \in Filters : Notify(k, f)
      BY <2>1, <3>1
    <3>2. CASE CheckRoom(k)
      BY <1>w, <1>x, <2>t, <2>2, <3>2
    <3>3. CASE PutEvent(k)
      BY <1>w, <2>t, <2>3, <3>3
    <3> QED
      BY <2>7, <3>1, <3>2, <3>3 DEF TickerStep
  <2> QED
    BY <2>5, <2>6, <2>7 DEF Next
<1> QED
  BY <1>1, <1>2, TypeCorrect, PTL DEF Spec

-----------------------------------------------------------------------------
(* The order of the events.                                                *)

\* ms_event_queue_clean() keeps the order.
LEMMA CleanOrdered ==
  ASSUME q \in Seq(Events), NEW f, Clean(f)
  PROVE  \A i, j \in 1..Len(q') : i < j =>
           \E m, n \in 1..Len(q) : m < n /\ q'[i] = q[m] /\ q'[j] = q[n]
<1>1. PICK keep \in [1..Cardinality(Kept(f)) -> Kept(f)] :
        /\ \A i, j \in DOMAIN keep : i < j => keep[i] < keep[j]
        /\ q' = [i \in 1..Cardinality(Kept(f)) |-> q[keep[i]]]
  BY DEF Clean
<1>2. IsFiniteSet(Kept(f)) /\ Kept(f) \subseteq 1..Len(q)
  <2>1. IsFiniteSet(1..Len(q))
    BY FS_Interval
  <2>2. Kept(f) \subseteq 1..Len(q)
    BY DEF Kept
  <2> QED BY <2>1, <2>2, FS_Subset
<1>3. Cardinality(Kept(f)) \in Nat
  BY <1>2, FS_CardinalityType
<1>4. Len(q') = Cardinality(Kept(f)) /\ DOMAIN keep = 1..Cardinality(Kept(f))
  BY <1>1, <1>3
<1>5. \A i \in 1..Len(q') : q'[i] = q[keep[i]] /\ keep[i] \in 1..Len(q)
  BY <1>1, <1>2, <1>4
<1> QED
  BY <1>1, <1>4, <1>5

LEMMA InitNumber == Init => NumberInv /\ AloneInv
<1> SUFFICES ASSUME Init PROVE NumberInv /\ AloneInv
  OBVIOUS
<1>1. Len(q) = 0 /\ Len(stack) = 0 /\ emitted = 0 /\ notifier = NoFilter /\ history = {}
  BY DEF Init
<1>2. \A x \in Filters \X (1..NCallbacks) : seen[x] = 0
  BY DEF Init
<1> QED
  BY <1>1, <1>2 DEF NumberInv, AloneInv

\* A step that only takes events out of the queue.
LEMMA NumberKept ==
  ASSUME NumberInv, UNCHANGED <<stack, seen, emitted>>, notifier' \in {notifier, NoFilter},
         \A i \in 1..Len(q') : \E m \in 1..Len(q) : q'[i] = q[m],
         \A i, j \in 1..Len(q') : i < j =>
           \E m, n \in 1..Len(q) : m < n /\ q'[i] = q[m] /\ q'[j] = q[n]
  PROVE  NumberInv'
<1>1. \A i \in 1..Len(q') : q'[i].num <= emitted
  BY DEF NumberInv
<1>2. \A i, j \in 1..Len(q') : i < j => q'[i].num < q'[j].num
  BY DEF NumberInv
<1>3. \A x \in Filters \X (1..NCallbacks) :
        seen[x] <= emitted /\ \A i \in 1..Len(q') : seen[x] < q'[i].num
  BY DEF NumberInv
<1>4. \A n \in 1..Len(stack) : stack[n].cb > 0 =>
        stack[n].num <= emitted /\ \A i \in 1..Len(q') : stack[n].num < q'[i].num
  BY DEF NumberInv
<1>5. Notified' = Notified
  BY DEF Notified
<1>6. notifier' # NoFilter =>
        \A j \in 1..NCallbacks : seen[<<notifier', j>>] <= stack[Notified].num
  BY DEF NumberInv
<1> QED
  BY <1>1, <1>2, <1>3, <1>4, <1>5, <1>6 DEF NumberInv

LEMMA OthersNumber ==
  ASSUME IInv, NumberInv,
         \/ UNCHANGED vars \/ Skip
         \/ \E f \in Filters : Attach(f) \/ Detach(f) \/ Destroy(f)
         \/ \E k \in Tickers : CheckRoom(k) \/ \E f \in Filters : Notify(k, f)
  PROVE  NumberInv'
<1>0. q \in Seq(Events) /\ Len(q) \in Nat
  BY DEF IInv, TypeOK, Events
<1>1. CASE \E f \in Filters : Destroy(f)
  <2>1. PICK f \in Filters : Destroy(f)
    BY <1>1
  <2>2. Clean(f) /\ UNCHANGED <<stack, seen, emitted>> /\ notifier' \in {notifier, NoFilter}
    BY <2>1 DEF Destroy
  <2> QED BY <1>0, <2>2, CleanLemma, CleanOrdered, NumberKept
<1>2. CASE Skip
  <2>1. Len(q') = 0 /\ UNCHANGED <<stack, seen, emitted, notifier>>
    BY <1>2 DEF Skip
  <2> QED BY <2>1, NumberKept
<1>3. CASE ~Skip /\ ~\E f \in Filters : Destroy(f)
  <2>1. UNCHANGED <<q, stack, seen, emitted, notifier>>
    BY <1>3 DEF vars, Attach, Detach, CheckRoom, Notify
  <2> QED BY <2>1, NumberKept
<1> QED
  BY <1>1, <1>2, <1>3

LEMMA PutEventNumber ==
  ASSUME IInv, NumberInv, NEW k \in Tickers, PutEvent(k) PROVE NumberInv'
<1> DEFINE e == [filter |-> tf[k], num |-> emitted + 1]
<1>1. /\ q' = Append(q, e) /\ emitted' = emitted + 1
      /\ UNCHANGED <<notifier, stack, seen>>
  BY DEF PutEvent
<1>2. tf[k] \in Filters /\ emitted \in Nat /\ q \in Seq(Events)
  BY DEF IInv, TypeOK, TickerInv, PutEvent, Events
<1>3. e \in Events /\ e.num = emitted + 1
  BY <1>2 DEF Events
<1> HIDE DEF e
<1>4. /\ Len(q') = Len(q) + 1 /\ Len(q) \in Nat
      /\ \A i \in 1..Len(q') : q'[i] = IF i <= Len(q) THEN q[i] ELSE e
  BY <1>1, <1>2, <1>3, PutLemma
<1>5. \A i \in 1..Len(q) : q[i].num \in Nat /\ q[i].num <= emitted
  <2>1. \A i \in 1..Len(q) : q[i] \in Events
    BY <1>2
  <2> QED BY <2>1 DEF NumberInv, Events
<1>6. \A i \in 1..Len(q') : q'[i].num <= emitted'
  BY <1>1, <1>2, <1>3, <1>4, <1>5
<1>7. \A i, j \in 1..Len(q') : i < j => q'[i].num < q'[j].num
  <2> SUFFICES ASSUME NEW i \in 1..Len(q'), NEW j \in 1..Len(q'), i < j
               PROVE  q'[i].num < q'[j].num
    OBVIOUS
  <2>1. i \in 1..Len(q) /\ q'[i] = q[i]
    BY <1>4
  <2>2. CASE j \in 1..Len(q)
    BY <1>4, <2>1, <2>2 DEF NumberInv
  <2>3. CASE j \notin 1..Len(q)
    BY <1>2, <1>3, <1>4, <1>5, <2>1, <2>3
  <2> QED BY <2>2, <2>3
<1>8. ASSUME NEW n \in Nat, n <= emitted, \A i \in 1..Len(q) : n < q[i].num
      PROVE  n <= emitted' /\ \A i \in 1..Len(q') : n < q'[i].num
  BY <1>1, <1>2, <1>3, <1>4, <1>8
<1>9. \A x \in Filters \X (1..NCallbacks) :
        seen[x] <= emitted' /\ \A i \in 1..Len(q') : seen[x] < q'[i].num
  <2>1. \A x \in Filters \X (1..NCallbacks) : seen[x] \in Nat
    BY DEF IInv, TypeOK
  <2> QED BY <1>8, <2>1 DEF NumberInv
<1>10. \A n \in 1..Len(stack) : stack[n].cb > 0 =>
         stack[n].num <= emitted' /\ \A i \in 1..Len(q') : stack[n].num < q'[i].num
  <2>1. \A n \in 1..Len(stack) : stack[n] \in Frame
    BY DEF IInv, TypeOK
  <2>2. \A n \in 1..Len(stack) : stack[n].num \in Nat
    BY <2>1 DEF Frame
  <2> QED BY <1>8, <2>2 DEF NumberInv
<1>11. notifier' # NoFilter =>
         \A j \in 1..NCallbacks : seen'[<<notifier', j>>] <= stack'[Notified'].num
  BY <1>1 DEF NumberInv, Notified
<1> QED
  BY <1>1, <1>6, <1>7, <1>9, <1>10, <1>11 DEF NumberInv

LEMMA PumpNumber == ASSUME IInv, NumberInv, Pump PROVE NumberInv'
<1>1. /\ stack' = Append(stack, InPump) /\ UNCHANGED <<q, notifier, seen, emitted>>
      /\ stack # <<>> => stack[Len(stack)].cb > 0
  BY DEF Pump, UserCode, Top
<1>2. InPump \in Frame /\ InPump.cb = 0
  BY EventQueueAssumption DEF InPump, Frame
<1>3. /\ Len(stack') = Len(stack) + 1 /\ Len(stack) \in Nat
      /\ \A n \in 1..Len(stack') : stack'[n] = IF n <= Len(stack) THEN stack[n] ELSE InPump
  BY <1>1, <1>2, PushLemma DEF IInv, TypeOK
<1>4. \A n \in 1..Len(stack') : stack'[n].cb > 0 =>
        stack'[n].num <= emitted /\ \A i \in 1..Len(q) : stack'[n].num < q[i].num
  BY <1>2, <1>3 DEF NumberInv
<1>5. notifier # NoFilter => stack'[Notified'] = stack[Notified]
  <2> SUFFICES ASSUME notifier # NoFilter PROVE stack'[Notified'] = stack[Notified]
    OBVIOUS
  <2>1. stack # <<>> /\ Len(stack) >= 1
    BY <1>3 DEF IInv, NotifierInv
  <2>2. Notified = Len(stack)
    BY <1>1, <2>1 DEF Notified
  <2>3. stack'[Len(stack')] = InPump /\ Notified' = Len(stack)
    BY <1>2, <1>3, <2>1 DEF Notified
  <2> QED BY <1>3, <2>1, <2>2, <2>3
<1> QED
  BY <1>1, <1>4, <1>5 DEF NumberInv

\* The first event of the queue is newer than all that any callback has seen.
LEMMA ReadEventNumber ==
  ASSUME IInv, NumberInv, ReadEvent
  PROVE  NumberInv' /\ \A x \in Filters \X (1..NCallbacks) : seen'[x] >= seen[x]
<1>s. /\ stack \in Seq(Frame) /\ stack # <<>> /\ Len(stack) \in Nat
      /\ stack[Len(stack)].cb = 0 /\ UNCHANGED emitted
  BY DEF IInv, TypeOK, ReadEvent, Top
<1>n. \A x \in Filters \X (1..NCallbacks) : seen[x] \in Nat
  BY DEF IInv, TypeOK
<1>1. CASE q = <<>>
  <2>e. stack' = SubSeq(stack, 1, Len(stack) - 1) /\ UNCHANGED <<q, notifier, seen>>
    BY <1>1 DEF ReadEvent, Pop
  <2>1. /\ Len(stack') = Len(stack) - 1 /\ Len(stack) >= 1
        /\ \A n \in 1..Len(stack') : stack'[n] = stack[n]
    BY <1>s, <2>e, PopLemma
  <2>2. \A n \in 1..Len(stack') : stack'[n].cb > 0 =>
          stack'[n].num <= emitted /\ \A i \in 1..Len(q) : stack'[n].num < q[i].num
    BY <1>s, <2>1 DEF NumberInv
  <2>3. notifier # NoFilter => Notified' = Notified /\ stack'[Notified] = stack[Notified]
    <3> SUFFICES ASSUME notifier # NoFilter
                 PROVE  Notified' = Notified /\ stack'[Notified] = stack[Notified]
      OBVIOUS
    <3>1. Len(stack) >= 2 /\ stack[Len(stack) - 1].cb > 0
      BY <1>s DEF IInv, NotifierInv
    <3>2. Notified = Len(stack) - 1
      BY <1>s DEF Notified
    <3>3. stack'[Len(stack')] = stack[Len(stack) - 1]
      BY <1>s, <2>1, <3>1
    <3> QED BY <1>s, <2>1, <3>1, <3>2, <3>3 DEF Notified
  <2>4. \A x \in Filters \X (1..NCallbacks) : seen'[x] >= seen[x]
    BY <1>n, <2>e
  <2>5. notifier' # NoFilter =>
          \A j \in 1..NCallbacks : seen'[<<notifier', j>>] <= stack'[Notified'].num
    BY <2>e, <2>3 DEF NumberInv
  <2>6. /\ \A i \in 1..Len(q') : q'[i].num <= emitted'
        /\ \A i, j \in 1..Len(q') : i < j => q'[i].num < q'[j].num
        /\ \A x \in Filters \X (1..NCallbacks) :
             seen'[x] <= emitted' /\ \A i \in 1..Len(q') : seen'[x] < q'[i].num
    BY <1>s, <2>e DEF NumberInv
  <2>7. \A n \in 1..Len(stack') : stack'[n].cb > 0 =>
          stack'[n].num <= emitted' /\ \A i \in 1..Len(q') : stack'[n].num < q'[i].num
    BY <1>s, <2>e, <2>2
  <2>8. NumberInv'
    BY <2>5, <2>6, <2>7, Zenon DEF NumberInv
  <2> QED BY <2>4, <2>8
<1>2. CASE q # <<>>
  <2> DEFINE fr == [filter |-> Head(q).filter, num |-> Head(q).num, cb |-> 1]
  <2>e. /\ stack' = [stack EXCEPT ![Len(stack)] = fr]
        /\ q' = Tail(q) /\ notifier' = Head(q).filter
        /\ seen' = [seen EXCEPT ![<<Head(q).filter, 1>>] = Head(q).num]
    BY <1>2 DEF ReadEvent, ReplaceTop
  <2>p. q \in Seq(Events) /\ Len(q) \in Nat
    BY DEF IInv, TypeOK, Events
  <2>q. /\ Len(q') = Len(q) - 1 /\ Head(q) \in Events /\ Head(q) = q[1] /\ Len(q) >= 1
        /\ \A i \in 1..Len(q') : q'[i] = q[i + 1]
    BY <1>2, <2>e, <2>p, GetLemma
  <2>f. /\ fr \in Frame /\ fr.cb = 1 /\ fr.num = Head(q).num
        /\ Head(q).filter \in Filters /\ Head(q).num \in Nat
    BY <2>q, EventQueueAssumption DEF Events, Frame
  <2> HIDE DEF fr
  <2>1. /\ Len(stack') = Len(stack) /\ Len(stack) >= 1
        /\ \A n \in 1..Len(stack') : stack'[n] = IF n < Len(stack) THEN stack[n] ELSE fr
    BY <1>s, <2>e, <2>f, ReplaceLemma
  <2>2. \A i \in 1..Len(q') : q'[i].num <= emitted /\ Head(q).num < q'[i].num
    <3>1. \A i \in 1..Len(q') : i + 1 \in 1..Len(q) /\ 1 < i + 1 /\ 1 \in 1..Len(q)
      BY <2>p, <2>q
    <3> QED BY <2>q, <3>1 DEF NumberInv
  <2>3. \A i, j \in 1..Len(q') : i < j => q'[i].num < q'[j].num
    <3>1. \A i, j \in 1..Len(q') : i < j => i + 1 \in 1..Len(q) /\ j + 1 \in 1..Len(q) /\ i + 1 < j + 1
      BY <2>p, <2>q
    <3> QED BY <2>q, <3>1 DEF NumberInv
  <2>4. \A i \in 1..Len(q') : \E m \in 1..Len(q) : q'[i] = q[m]
    BY <2>p, <2>q
  <2>5. Head(q).num <= emitted
    BY <2>p, <2>q DEF NumberInv
  <2>6. \A x \in Filters \X (1..NCallbacks) :
          seen'[x] = IF x = <<Head(q).filter, 1>> THEN Head(q).num ELSE seen[x]
    BY <2>e DEF IInv, TypeOK
  <2>7. \A x \in Filters \X (1..NCallbacks) : seen[x] < Head(q).num
    BY <2>p, <2>q DEF NumberInv
  <2>8. \A x \in Filters \X (1..NCallbacks) :
          /\ seen'[x] <= emitted /\ \A i \in 1..Len(q') : seen'[x] < q'[i].num
          /\ seen'[x] >= seen[x] /\ seen'[x] <= Head(q).num
    <3> SUFFICES ASSUME NEW x \in Filters \X (1..NCallbacks)
                 PROVE  /\ seen'[x] <= emitted /\ \A i \in 1..Len(q') : seen'[x] < q'[i].num
                        /\ seen'[x] >= seen[x] /\ seen'[x] <= Head(q).num
      OBVIOUS
    <3>1. CASE x = <<Head(q).filter, 1>>
      BY <1>n, <2>2, <2>5, <2>6, <2>7, <2>f, <3>1
    <3>2. CASE x # <<Head(q).filter, 1>>
      <4>1. seen'[x] = seen[x]
        BY <2>6, <3>2
      <4>2. seen[x] <= emitted /\ \A i \in 1..Len(q') : seen[x] < q'[i].num
        BY <2>4 DEF NumberInv
      <4>3. seen[x] >= seen[x] /\ seen[x] <= Head(q).num
        BY <1>n, <2>7, <2>f
      <4> QED BY <4>1, <4>2, <4>3
    <3> QED BY <3>1, <3>2
  <2>9. \A n \in 1..Len(stack') : stack'[n].cb > 0 =>
          stack'[n].num <= emitted /\ \A i \in 1..Len(q') : stack'[n].num < q'[i].num
    <3> SUFFICES ASSUME NEW n \in 1..Len(stack'), stack'[n].cb > 0
                 PROVE  stack'[n].num <= emitted /\ \A i \in 1..Len(q') : stack'[n].num < q'[i].num
      OBVIOUS
    <3>1. CASE stack'[n] = fr
      BY <2>2, <2>5, <2>f, <3>1
    <3>2. CASE n \in 1..Len(stack) /\ stack'[n] = stack[n]
      BY <2>4, <3>2 DEF NumberInv
    <3> QED BY <1>s, <2>1, <3>1, <3>2
  <2>10. Notified' = Len(stack) /\ stack'[Len(stack)] = fr
    BY <1>s, <2>1, <2>f DEF Notified
  <2>11. \A j \in 1..NCallbacks : seen'[<<notifier', j>>] <= Head(q).num
    BY <2>8, <2>e, <2>f
  <2> QED
    BY <1>s, <2>2, <2>3, <2>8, <2>9, <2>10, <2>11, <2>f DEF NumberInv
<1> QED
  BY <1>1, <1>2

\* The next callback gets the event of the frame, the last one its filter was given.
LEMMA CallbackReturnsNumber ==
  ASSUME IInv, NumberInv, CallbackReturns
  PROVE  NumberInv' /\ \A x \in Filters \X (1..NCallbacks) : seen'[x] >= seen[x]
<1>s. /\ stack \in Seq(Frame) /\ stack # <<>> /\ Len(stack) \in Nat
      /\ Top.cb > 0 /\ UNCHANGED <<q, emitted>>
  BY DEF IInv, TypeOK, CallbackReturns
<1>t. Len(stack) >= 1 /\ Top = stack[Len(stack)] /\ Top \in Frame /\ Top.filter \in Filters
  <2>1. Len(stack) >= 1 /\ Top = stack[Len(stack)] /\ Top \in Frame
    BY <1>s DEF Top
  <2> QED BY <1>s, <2>1 DEF IInv, FrameInv
<1>n. Top.num \in Nat /\ Top.cb \in 0..NCallbacks
      /\ \A x \in Filters \X (1..NCallbacks) : seen[x] \in Nat
  BY <1>t DEF IInv, TypeOK, Frame
<1>o. Top.num <= emitted /\ \A i \in 1..Len(q) : Top.num < q[i].num
  BY <1>s, <1>t DEF NumberInv
<1>1. CASE notifier # NoFilter /\ Top.cb < NCallbacks
  <2> DEFINE fr == [Top EXCEPT !.cb = Top.cb + 1]
  <2>1. /\ stack' = [stack EXCEPT ![Len(stack)] = fr] /\ UNCHANGED notifier
        /\ seen' = [seen EXCEPT ![<<Top.filter, Top.cb + 1>>] = Top.num]
    BY <1>1 DEF CallbackReturns, ReplaceTop
  <2>2. Top.cb + 1 \in 1..NCallbacks
    BY <1>s, <1>n, <1>1, EventQueueAssumption
  <2>3. fr \in Frame /\ fr.num = Top.num /\ fr.cb = Top.cb + 1
    BY <1>t, <2>2 DEF Frame
  <2> HIDE DEF fr
  <2>4. /\ Len(stack') = Len(stack)
        /\ \A n \in 1..Len(stack') : stack'[n] = IF n < Len(stack) THEN stack[n] ELSE fr
    BY <1>s, <2>1, <2>3, ReplaceLemma
  <2>5. Top.filter = notifier /\ Notified = Len(stack)
    BY <1>s, <1>t, <1>1 DEF IInv, NotifierInv, Notified
  <2>6. \A j \in 1..NCallbacks : seen[<<Top.filter, j>>] <= Top.num
    BY <1>t, <1>1, <2>5 DEF NumberInv
  <2>7. \A x \in Filters \X (1..NCallbacks) :
          seen'[x] = IF x = <<Top.filter, Top.cb + 1>> THEN Top.num ELSE seen[x]
    BY <2>1 DEF IInv, TypeOK
  <2>8. \A x \in Filters \X (1..NCallbacks) :
          /\ seen'[x] <= emitted /\ \A i \in 1..Len(q) : seen'[x] < q[i].num
          /\ seen'[x] >= seen[x]
    <3> SUFFICES ASSUME NEW x \in Filters \X (1..NCallbacks)
                 PROVE  /\ seen'[x] <= emitted /\ \A i \in 1..Len(q) : seen'[x] < q[i].num
                        /\ seen'[x] >= seen[x]
      OBVIOUS
    <3>1. CASE x = <<Top.filter, Top.cb + 1>>
      <4>1. seen[x] <= Top.num
        BY <2>2, <2>6, <3>1
      <4>2. seen'[x] = Top.num
        BY <2>7, <3>1
      <4> QED BY <1>n, <1>o, <4>1, <4>2
    <3>2. CASE x # <<Top.filter, Top.cb + 1>>
      <4>1. seen'[x] = seen[x]
        BY <2>7, <3>2
      <4> QED BY <1>n, <4>1 DEF NumberInv
    <3> QED BY <3>1, <3>2
  <2>9. \A n \in 1..Len(stack') : stack'[n].cb > 0 =>
          stack'[n].num <= emitted /\ \A i \in 1..Len(q) : stack'[n].num < q[i].num
    BY <1>s, <1>o, <2>3, <2>4 DEF NumberInv
  <2>10. Notified' = Len(stack) /\ stack'[Len(stack)].num = Top.num
    BY <1>s, <1>t, <1>n, <2>3, <2>4 DEF Notified
  <2>11. \A j \in 1..NCallbacks : seen'[<<notifier, j>>] <= Top.num
    BY <1>n, <1>t, <2>5, <2>6, <2>7
  <2> QED
    BY <1>s, <2>1, <2>8, <2>9, <2>10, <2>11 DEF NumberInv
<1>2. CASE ~(notifier # NoFilter /\ Top.cb < NCallbacks)
  <2>1. /\ stack' = [stack EXCEPT ![Len(stack)] = InPump] /\ notifier' = NoFilter
        /\ UNCHANGED seen
    BY <1>2 DEF CallbackReturns, ReplaceTop
  <2>2. InPump \in Frame /\ InPump.cb = 0
    BY EventQueueAssumption DEF InPump, Frame
  <2>3. /\ Len(stack') = Len(stack)
        /\ \A n \in 1..Len(stack') : stack'[n] = IF n < Len(stack) THEN stack[n] ELSE InPump
    BY <1>s, <2>1, <2>2, ReplaceLemma
  <2>4. \A n \in 1..Len(stack') : stack'[n].cb > 0 =>
          stack'[n].num <= emitted /\ \A i \in 1..Len(q) : stack'[n].num < q[i].num
    BY <1>s, <2>2, <2>3 DEF NumberInv
  <2>5. \A x \in Filters \X (1..NCallbacks) : seen'[x] >= seen[x]
    BY <1>n, <2>1
  <2> QED BY <1>s, <2>1, <2>4, <2>5 DEF NumberInv
<1> QED
  BY <1>1, <1>2

LEMMA NextNumber == IInv /\ NumberInv /\ [Next]_vars => NumberInv'
<1> SUFFICES ASSUME IInv, NumberInv, [Next]_vars PROVE NumberInv'
  OBVIOUS
<1>1. CASE Pump \/ ReadEvent \/ CallbackReturns \/ \E k \in Tickers : PutEvent(k)
  BY <1>1, PumpNumber, ReadEventNumber, CallbackReturnsNumber, PutEventNumber
<1>2. CASE ~(Pump \/ ReadEvent \/ CallbackReturns \/ \E k \in Tickers : PutEvent(k))
  BY <1>2, OthersNumber DEF Next, AppStep, TickerStep
<1> QED
  BY <1>1, <1>2

-----------------------------------------------------------------------------
(* The callbacks of an event, without nested pumps.                        *)

\* A step outside the pumps, which may destroy filters.
LEMMA AloneKept ==
  ASSUME IInv, AloneInv, UNCHANGED <<stack, history>>,
         \A f \in Filters : /\ life[f] = "destroyed" => life'[f] = "destroyed"
                            /\ notifier = f => notifier' = f \/ life'[f] = "destroyed"
  PROVE  AloneInv'
<1>1. Len(stack) = 1 /\ stack[1].cb > 0 => stack[1].filter \in Filters
  BY DEF IInv, FrameInv
<1> QED
  BY <1>1 DEF AloneInv

LEMMA OnePump ==
  IInv /\ AloneInv /\ stack # <<>> /\ "nested" \notin history =>
    Len(stack) = 1 /\ "missed" \notin history
<1>1. IInv /\ stack # <<>> => Len(stack) \in Nat /\ Len(stack) >= 1
  BY PopLemma DEF IInv, TypeOK
<1>2. Len(stack) \in Nat /\ Len(stack) >= 1 /\ Len(stack) <= 1 => Len(stack) = 1
  OBVIOUS
<1> QED
  BY <1>1, <1>2, Zenon DEF AloneInv

LEMMA PumpAlone == ASSUME IInv, AloneInv, Pump PROVE AloneInv'
<1> SUFFICES ASSUME "nested" \notin history' PROVE AloneInv'
  BY DEF AloneInv
<1>1. stack = <<>> /\ UNCHANGED history /\ stack' = Append(stack, InPump)
  BY DEF Pump
<1>2. Len(stack') = 1 /\ stack'[1] = InPump
  BY <1>1
<1> QED
  BY <1>1, <1>2 DEF AloneInv, InPump

LEMMA ReadEventAlone == ASSUME IInv, AloneInv, ReadEvent PROVE AloneInv'
<1> SUFFICES ASSUME "nested" \notin history' PROVE AloneInv'
  BY DEF AloneInv
<1>1. stack \in Seq(Frame) /\ stack # <<>> /\ Len(stack) \in Nat /\ UNCHANGED history
  BY DEF IInv, TypeOK, ReadEvent
<1>2. Len(stack) = 1 /\ "missed" \notin history
  BY <1>1, OnePump
<1>3. CASE q = <<>>
  <2>1. stack' = SubSeq(stack, 1, Len(stack) - 1)
    BY <1>3 DEF ReadEvent, Pop
  <2>2. Len(stack') = 0
    BY <1>1, <1>2, <2>1, PopLemma
  <2> QED BY <1>1, <1>2, <2>2 DEF AloneInv
<1>4. CASE q # <<>>
  <2> DEFINE fr == [filter |-> Head(q).filter, num |-> Head(q).num, cb |-> 1]
  <2>1. stack' = [stack EXCEPT ![1] = fr] /\ notifier' = Head(q).filter
    BY <1>2, <1>4 DEF ReadEvent, ReplaceTop
  <2>2. fr.filter = Head(q).filter
    OBVIOUS
  <2> HIDE DEF fr
  <2>3. Len(stack') = 1 /\ stack'[1] = fr
    BY <1>1, <1>2, <2>1
  <2> QED BY <1>1, <1>2, <2>1, <2>2, <2>3 DEF AloneInv
<1> QED
  BY <1>3, <1>4

LEMMA CallbackReturnsAlone == ASSUME IInv, AloneInv, CallbackReturns PROVE AloneInv'
<1> SUFFICES ASSUME "nested" \notin history' PROVE AloneInv'
  BY DEF AloneInv
<1>1. /\ stack \in Seq(Frame) /\ stack # <<>> /\ Len(stack) \in Nat
      /\ history \subseteq history' /\ Top.cb > 0 /\ UNCHANGED life
  BY DEF IInv, TypeOK, CallbackReturns
<1>2. Len(stack) = 1 /\ "missed" \notin history /\ "nested" \notin history
  <2>1. "nested" \notin history
    BY <1>1
  <2> QED BY <1>1, <2>1, OnePump, Zenon
<1>3. Top = stack[1] /\ Top \in Frame /\ Top.filter \in Filters
  <2>1. Top = stack[1] /\ Top \in Frame
    BY <1>1, <1>2 DEF Top
  <2> QED BY <1>1, <1>2, <2>1 DEF IInv, FrameInv
<1>4. notifier = Top.filter \/ life[Top.filter] = "destroyed"
  BY <1>1, <1>2, <1>3 DEF AloneInv
<1>5. CASE notifier # NoFilter /\ Top.cb < NCallbacks
  <2> DEFINE fr == [Top EXCEPT !.cb = Top.cb + 1]
  <2>1. stack' = [stack EXCEPT ![1] = fr] /\ UNCHANGED <<notifier, history>>
    BY <1>2, <1>5 DEF CallbackReturns, ReplaceTop
  <2>2. fr.filter = Top.filter
    BY <1>3 DEF Frame
  <2> HIDE DEF fr
  <2>3. Len(stack') = 1 /\ stack'[1] = fr
    BY <1>1, <1>2, <2>1
  <2> QED BY <1>1, <1>2, <1>4, <2>1, <2>2, <2>3 DEF AloneInv
<1>6. CASE ~(notifier # NoFilter /\ Top.cb < NCallbacks)
  <2>1. stack' = [stack EXCEPT ![1] = InPump] /\ history' = history \cup Missed
    BY <1>2, <1>6 DEF CallbackReturns, ReplaceTop
  <2>2. Missed = {}
    BY <1>3, <1>4, <1>6, EventQueueAssumption DEF Missed
  <2>3. Len(stack') = 1 /\ stack'[1] = InPump
    BY <1>1, <1>2, <2>1
  <2>4. "missed" \notin history' /\ InPump.cb = 0
    BY <1>2, <2>1, <2>2 DEF InPump
  <2> QED BY <2>3, <2>4 DEF AloneInv
<1> QED
  BY <1>5, <1>6

LEMMA NextAlone == IInv /\ AloneInv /\ [Next]_vars => AloneInv'
<1> SUFFICES ASSUME IInv, AloneInv, [Next]_vars PROVE AloneInv'
  OBVIOUS
<1>t. life \in [Filters -> {"attached", "detached", "destroyed"}]
  BY DEF IInv, TypeOK
<1>1. CASE Pump \/ ReadEvent \/ CallbackReturns
  BY <1>1, PumpAlone, ReadEventAlone, CallbackReturnsAlone
<1>2. ASSUME NEW f \in Filters, Attach(f) \/ Detach(f) PROVE AloneInv'
  BY <1>t, <1>2, AloneKept DEF Attach, Detach
<1>3. ASSUME NEW f \in Filters, Destroy(f) PROVE AloneInv'
  BY <1>t, <1>3, AloneKept DEF Destroy
<1>4. CASE Skip \/ UNCHANGED vars \/ \E k \in Tickers : TickerStep(k)
  <2>1. UNCHANGED <<stack, history, life, notifier>>
    BY <1>4 DEF Skip, vars, TickerStep, CheckRoom, PutEvent, Notify
  <2> QED BY <2>1, AloneKept
<1> QED
  BY <1>1, <1>2, <1>3, <1>4 DEF Next, AppStep

\* Each callback gets the events of each filter in the order of emission, at any
\* depth of nested pumps and whatever is destroyed in between.
THEOREM EventsInOrder == Spec => InOrder
<1> DEFINE A == \A x \in Filters \X (1..NCallbacks) : seen'[x] >= seen[x]
<1>1. IInv /\ NumberInv /\ [Next]_vars => [A]_vars
  <2> SUFFICES ASSUME IInv, NumberInv, Next PROVE A
    OBVIOUS
  <2>1. \A x \in Filters \X (1..NCallbacks) : seen[x] \in Nat
    BY DEF IInv, TypeOK
  <2>2. CASE ReadEvent \/ CallbackReturns
    BY <2>2, ReadEventNumber, CallbackReturnsNumber
  <2>3. CASE ~(ReadEvent \/ CallbackReturns)
    <3>1. UNCHANGED seen
      BY <2>3 DEF Next, AppStep, Attach, Detach, Destroy, Skip, Pump, TickerStep, CheckRoom,
                  PutEvent, Notify
    <3> QED BY <2>1, <3>1
  <2> QED BY <2>2, <2>3
<1> HIDE DEF A
<1>2. Spec => []NumberInv
  BY InitNumber, NextNumber, InductiveInvariant, PTL DEF Spec
<1>3. Spec => [][A]_vars
  BY <1>1, <1>2, InductiveInvariant, PTL DEF Spec
<1> QED
  BY <1>3 DEF InOrder, A

\* As long as no callback pumps the queue again, every event that is read is given to
\* every callback of its filter, unless one of them destroys that filter.
THEOREM EveryCallback == Spec => []AllCallbacksRun
<1>1. Spec => []AloneInv
  BY InitNumber, NextAlone, InductiveInvariant, PTL DEF Spec
<1>2. AloneInv => AllCallbacksRun
  BY DEF AloneInv, AllCallbacksRun
<1> QED
  BY <1>1, <1>2, PTL
===============================================================================
