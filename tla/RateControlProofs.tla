-------------------------- MODULE RateControlProofs --------------------------
(***************************************************************************)
(* Proofs about RateControl, for any losses, delays, thresholds, bitrates  *)
(* and ptimes, and any encoders.                                           *)
(***************************************************************************)
EXTENDS RateControl, TLAPS

\* Zenon first: it is the faster of the two on the many leaves without arithmetic.
USE ZenonT(3), SMTT(30)

\* The counters are below their thresholds in the states that increment them.
CountersInv ==
  /\ state \in {"Stable", "Init"} => stableCount < UpInterval
  /\ state = "ProbingUp" => probingCount < 2

RInv == TypeOK /\ CountersInv

\* The ptimes that TypeOK allows.
PtimeOK(t) == t \in (MinPtime..MaxPtime) \cup {enc.ptime, enc.maxptime} /\ t <= enc.maxptime

-----------------------------------------------------------------------------
(* The analyzer and the driver.                                            *)

\* What simple_analyzer_suggest_action() asks to give up is a percentage.
LEMMA SuggestionRange ==
  ASSUME NEW r \in Reports, NEW bigJitter \in BOOLEAN
  PROVE  Suggestion(r, bigJitter) \in 0..100
<1>1. r.loss \in 0..100
  <2>1. r.loss \in Losses \cup {0}
    BY DEF Reports
  <2>2. Losses \subseteq 0..100 /\ 0 \in 0..100
    BY RatesAssumption
  <2> QED BY <2>1, <2>2
<1> QED
  BY <1>1 DEF Suggestion, LossPercent

\* A reduction stays between the least bitrate of the encoder and the current one.
LEMMA ReducedRange ==
  ASSUME bitrate \in LowestBitrate..Nominal, NEW percent \in 0..100
  PROVE  Reduced(percent) \in LowestBitrate..bitrate
<1>1. bitrate \in Nat /\ LowestBitrate \in Nat /\ Nominal \in Nat /\ percent \in Nat
  BY RatesAssumption
<1>2. bitrate * percent \in Nat
  BY <1>1
<1>3. (bitrate * percent) \div 100 \in Nat
  BY <1>2
<1>4. \A k \in Nat : bitrate - k \in Int /\ bitrate - k <= bitrate
  BY <1>1
<1>5. /\ bitrate - (bitrate * percent) \div 100 \in Int
      /\ bitrate - (bitrate * percent) \div 100 <= bitrate
  BY <1>3, <1>4
<1> DEFINE b == bitrate - (bitrate * percent) \div 100
<1>6. Reduced(percent) = IF b < LowestBitrate THEN LowestBitrate ELSE b
  BY DEF Reduced
<1>7. b \in Int /\ b <= bitrate
  BY <1>5
<1> HIDE DEF b
<1> QED
  BY <1>1, <1>6, <1>7

LEMMA EncoderFields ==
  ASSUME NEW e \in Encoders
  PROVE  e.ptime \in Nat /\ e.maxptime \in Nat /\ e.ptime <= e.maxptime
  BY RatesAssumption DEF EncoderType

\* apply_ptime() leaves a ptime in range, whatever it is asked for and whatever the
\* encoder makes of it.
LEMMA AppliedRange ==
  ASSUME TypeOK, NEW t \in Int
  PROVE  PtimeOK(Applied(t))
<1>1. enc \in Encoders /\ PtimeOK(ptime)
  BY DEF TypeOK, PtimeOK
<1>2. enc.maxptime \in Nat
  BY <1>1, EncoderFields
<1>3. MinPtime \in Nat /\ MaxPtime \in Nat
  BY RatesAssumption
<1>4. CASE Refused(t)
  BY <1>1, <1>4 DEF Applied
<1>5. CASE ~ Refused(t)
  <2>1. t \in MinPtime..MaxPtime
    BY <1>5 DEF Refused
  <2>2. Applied(t) = IF t > enc.maxptime THEN enc.maxptime ELSE t
    BY <1>5 DEF Applied
  <2> QED BY <1>2, <1>3, <2>1, <2>2 DEF PtimeOK
<1> QED
  BY <1>4, <1>5

LEMMA PtimeInt == ASSUME TypeOK PROVE ptime \in Int /\ PtimeStep \in Int
<1>1. enc \in Encoders /\ ptime \in (MinPtime..MaxPtime) \cup {enc.ptime, enc.maxptime}
  BY DEF TypeOK
<1>2. enc.ptime \in Nat /\ enc.maxptime \in Nat
  BY <1>1, EncoderFields
<1> QED
  BY <1>1, <1>2, RatesAssumption

\* The driver leaves the ptime and the bitrate in their ranges.
LEMMA DecreaseRange ==
  ASSUME TypeOK, NEW percent \in 0..100, DecreaseBitrate(percent)
  PROVE  PtimeOK(ptime') /\ bitrate' \in LowestBitrate..Nominal
<1>1. /\ PtimeOK(ptime) /\ bitrate \in LowestBitrate..Nominal
      /\ LowestBitrate \in Nat /\ Nominal \in Nat
  BY RatesAssumption DEF TypeOK, PtimeOK
<1>2. Reduced(percent) \in LowestBitrate..bitrate
  BY <1>1, ReducedRange
<1>3. bitrate' \in {bitrate, Reduced(percent)}
  BY DEF DecreaseBitrate
<1>4. bitrate' \in LowestBitrate..Nominal
  BY <1>1, <1>2, <1>3
<1>5. ptime + PtimeStep \in Int
  BY PtimeInt
<1>6. PtimeOK(Applied(ptime + PtimeStep))
  BY <1>5, AppliedRange
<1>7. ptime' = ptime \/ ptime' = Applied(ptime + PtimeStep)
  BY DEF DecreaseBitrate
<1> QED
  BY <1>1, <1>4, <1>6, <1>7

LEMMA IncreaseRange ==
  ASSUME TypeOK, IncreaseQuality
  PROVE  PtimeOK(ptime') /\ bitrate' \in LowestBitrate..Nominal
<1>1. /\ PtimeOK(ptime) /\ bitrate \in LowestBitrate..Nominal
      /\ LowestBitrate \in Nat /\ Nominal \in Nat
  BY RatesAssumption DEF TypeOK, PtimeOK
<1>2. Raised \in Int /\ Raised >= bitrate
  BY <1>1 DEF Raised
<1>3. bitrate' \in {bitrate, Nominal} \/ (bitrate' = Raised /\ ~ (Raised >= Nominal))
  BY DEF IncreaseQuality
<1>4. bitrate' \in LowestBitrate..Nominal
  BY <1>1, <1>2, <1>3
<1>5. ptime - PtimeStep \in Int
  BY PtimeInt
<1>6. PtimeOK(Applied(ptime - PtimeStep))
  BY <1>5, AppliedRange
<1>7. ptime' = ptime \/ ptime' = Applied(ptime - PtimeStep)
  BY DEF IncreaseQuality
<1> QED
  BY <1>1, <1>4, <1>6, <1>7

-----------------------------------------------------------------------------
LEMMA InitInv == Init => RInv
<1> SUFFICES ASSUME Init PROVE RInv
  OBVIOUS
<1> USE RatesAssumption
<1>1. stats \in [1..STATS_HISTORY -> Reports]
  BY DEF Init, Reports
<1>2. /\ bitrate \in LowestBitrate..Nominal
      /\ stableCount \in 0..UpInterval /\ probingCount \in 0..2 /\ curindex \in 0..1
      /\ stableCount < UpInterval
  BY DEF Init
<1>3. enc \in Encoders /\ ptime = enc.ptime /\ ptime <= enc.maxptime
  BY EncoderFields DEF Init
<1>4. TypeOK
  BY <1>1, <1>2, <1>3 DEF Init, TypeOK
<1>5. CountersInv
  BY <1>2 DEF Init, CountersInv
<1> QED
  BY <1>4, <1>5 DEF RInv

\* The state machine of the controller, whatever the analyzer answers.
LEMMA MachineInv ==
  ASSUME RInv, NEW percent \in 0..100, NEW improved \in BOOLEAN,
         InStableOrInit(percent) \/ InProbing(percent, improved) \/ InProbingUp(percent)
  PROVE  /\ state' \in {"Init", "Probing", "Stable", "ProbingUp"}
         /\ stableCount' \in 0..UpInterval /\ probingCount' \in 0..2
         /\ PtimeOK(ptime') /\ bitrate' \in LowestBitrate..Nominal
         /\ CountersInv'
<1>0. /\ UpInterval \in Nat \ {0} /\ stableCount \in 0..UpInterval /\ probingCount \in 0..2
      /\ state \in {"Init", "Probing", "Stable", "ProbingUp"}
      /\ TypeOK /\ CountersInv
  BY RatesAssumption DEF RInv, TypeOK
<1>1. PtimeOK(ptime') /\ bitrate' \in LowestBitrate..Nominal
  <2>1. DecreaseBitrate(percent) \/ IncreaseQuality \/ UNCHANGED encoder
    BY DEF InStableOrInit, InProbing, InProbingUp
  <2>2. CASE UNCHANGED encoder
    BY <1>0, <2>2 DEF TypeOK, PtimeOK, encoder
  <2> QED BY <1>0, <2>1, <2>2, DecreaseRange, IncreaseRange
<1>2. CASE InStableOrInit(percent)
  BY <1>0, <1>1, <1>2 DEF InStableOrInit, CountersInv
<1>3. CASE InProbing(percent, improved)
  BY <1>0, <1>1, <1>3 DEF InProbing, CountersInv
<1>4. CASE InProbingUp(percent)
  BY <1>0, <1>1, <1>4 DEF InProbingUp, CountersInv
<1> QED
  BY <1>2, <1>3, <1>4

LEMMA StoreType ==
  ASSUME TypeOK, NEW r \in Reports PROVE Store(r) \in [1..STATS_HISTORY -> Reports]
  BY DEF TypeOK, Store, STATS_HISTORY

LEMMA NextInv == RInv /\ [Next]_vars => RInv'
<1> SUFFICES ASSUME RInv, [Next]_vars PROVE RInv'
  OBVIOUS
<1>1. ASSUME NEW r \in [loss : Losses, rt : Delays], NEW bigJitter \in BOOLEAN,
             NEW callback \in BOOLEAN, Report(r, bigJitter, callback)
      PROVE  RInv'
  <2> DEFINE percent == Suggestion(r, bigJitter)
             improved == HasImproved(r)
  <2>1. /\ stats' = Store(r) /\ curindex' = 1 - curindex
        /\ InStableOrInit(percent) \/ InProbing(percent, improved) \/ InProbingUp(percent)
        /\ IF state = "Probing" /\ improved
           THEN rtDoubled' = (rtDoubled /\ ~ DelayImproved(r))
           ELSE SuggestMarks(r, bigJitter, callback)
        /\ UNCHANGED <<enc, skipped>>
    BY <1>1 DEF Report
  <2>2. r \in Reports
    BY DEF Reports
  <2>3. percent \in 0..100 /\ improved \in BOOLEAN
    BY <2>2, SuggestionRange DEF HasImproved
  <2> HIDE DEF percent, improved
  <2>4. /\ state' \in {"Init", "Probing", "Stable", "ProbingUp"}
        /\ stableCount' \in 0..UpInterval /\ probingCount' \in 0..2
        /\ PtimeOK(ptime') /\ bitrate' \in LowestBitrate..Nominal
        /\ CountersInv'
    BY <2>1, <2>3, MachineInv
  <2>5. stats' \in [1..STATS_HISTORY -> Reports]
    BY <2>1, <2>2, StoreType DEF RInv
  <2>6. rtDoubled' \in BOOLEAN
    BY <2>1 DEF SuggestMarks
  <2>7. curindex' \in 0..1
    BY <2>1 DEF RInv, TypeOK
  <2>8. enc' = enc /\ enc' \in Encoders /\ skipped' \in BOOLEAN
    BY <2>1 DEF RInv, TypeOK
  <2>9. /\ ptime' \in (MinPtime..MaxPtime) \cup {enc'.ptime, enc'.maxptime}
        /\ ptime' <= enc'.maxptime
    BY <2>4, <2>8 DEF PtimeOK
  <2> QED BY <2>4, <2>5, <2>6, <2>7, <2>8, <2>9, Zenon DEF RInv, TypeOK
<1>2. CASE ReportWithoutStats
  <2>1. stats[STATS_HISTORY] \in Reports
    BY DEF RInv, TypeOK, STATS_HISTORY
  <2>2. stats' \in [1..STATS_HISTORY -> Reports]
    BY <1>2, <2>1, StoreType DEF RInv, ReportWithoutStats
  <2>3. curindex' \in 0..1
    BY <1>2 DEF RInv, TypeOK, ReportWithoutStats
  <2> QED BY <1>2, <2>2, <2>3 DEF RInv, TypeOK, CountersInv, ReportWithoutStats,
                                  controller, encoder
<1>3. CASE UNCHANGED vars
  BY <1>3 DEF RInv, TypeOK, CountersInv, vars, controller, encoder
<1> QED
  BY <1>1, <1>2, <1>3 DEF Next, AnyReport

-----------------------------------------------------------------------------
(* The theorem.                                                            *)

\* Whatever the reports say, however long they go on and whatever ptime the encoder
\* starts with, the counters of the state machine stay within their thresholds, and
\* the driver leaves the bitrate of the encoder in its range and its ptime in that of
\* min_ptime and max_ptime, unless it is the one the encoder had or imposes.
THEOREM TypeCorrect == Spec => []TypeOK
<1>1. RInv => TypeOK
  BY DEF RInv
<1> QED
  BY <1>1, InitInv, NextInv, PTL DEF Spec
=============================================================================
