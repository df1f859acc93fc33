------------------------------ MODULE RateControl ------------------------------
(***************************************************************************)
(* The adaptive rate control of an audio stream                            *)
(* (ms_audio_bitrate_controller_new): the state machine of                 *)
(* src/voip/bitratecontrol.c, the simple analyzer of                       *)
(* src/voip/qosanalyzer.c that reads the RTCP reports of the far end, and  *)
(* the audio driver of src/voip/bitratedriver.c that acts on the encoder.  *)
(*                                                                         *)
(* The only action is the arrival of a report.  What it says is the        *)
(* network's choice; the loss is a percentage, the round trip time a       *)
(* number of arbitrary units.                                              *)
(***************************************************************************)
EXTENDS Integers

CONSTANTS
  Losses,         \* values of the loss rate in reports, in percent
  Unacceptable,   \* unacceptable_loss_rate
  Delays,         \* values of the round trip time in reports
  Significant,    \* significant_delay
  UpInterval,     \* probing_up_interval
  Nominal,        \* bitrate that the encoder starts with
  LowestBitrate,  \* least bitrate that the encoder accepts
  PtimeStep,      \* min_ptime of the driver's structure, 20 ms: the step of ptime
  MinPtime,       \* the constant min_ptime, 10 ms: the least ptime asked for
  MaxPtime,       \* the constant max_ptime, 100 ms
  Encoders        \* the encoders that may be controlled, see EncoderType

\* What the driver depends on: the ptime that an encoder starts with, the largest it
\* takes, whether it silently clamps a larger one or refuses it, whether it has
\* MS_AUDIO_ENCODER_CAP_AUTO_PTIME, and whether its bitrate can be set.
EncoderType == [ptime : Nat \ {0}, maxptime : Nat, clamps : BOOLEAN,
                auto : BOOLEAN, adapts : BOOLEAN]

\* An encoder accepts no bitrate so small that adding 40 % does not change it.
ASSUME RatesAssumption ==
  /\ Losses \subseteq 0..100 /\ Unacceptable \in 1..100
  /\ Delays \subseteq Nat \ {0} /\ Significant \in Nat
  /\ UpInterval \in Nat \ {0} /\ Nominal \in Nat /\ LowestBitrate \in 1..Nominal
  /\ (LowestBitrate * 140) \div 100 > LowestBitrate
  /\ PtimeStep \in Nat \ {0} /\ MinPtime \in Nat \ {0} /\ MaxPtime \in Nat
  /\ Encoders \subseteq {e \in EncoderType : e.ptime <= e.maxptime}

VARIABLES
  stats,         \* stats, from the slot at curindex backwards
  curindex,      \* parity of curindex, which every report changes
  rtDoubled,     \* rt_prop_doubled
  state,         \* state of the controller
  stableCount,   \* stable_count
  probingCount,  \* probing_up_count
  enc,           \* the encoder
  ptime,         \* its ptime, cur_ptime of the driver
  bitrate,       \* its bitrate, cur_bitrate of the driver
  skipped        \* history: a report was passed over

encoder == <<ptime, bitrate>>
controller == <<state, stableCount, probingCount>>
vars == <<stats, curindex, rtDoubled, controller, enc, encoder, skipped>>

STATS_HISTORY == 3

Reports == [loss : Losses \cup {0}, rt : Delays \cup {0}]

\* The counters stay within the thresholds they are compared with, and the driver
\* leaves the bitrate in its range and the ptime in that of min_ptime and max_ptime,
\* unless it is one that the encoder had or imposes, and in the encoder's: steps of
\* 20 ms, from any ptime, need not meet these bounds.
TypeOK ==
  /\ stats \in [1..STATS_HISTORY -> Reports] /\ curindex \in 0..1
  /\ rtDoubled \in BOOLEAN
  /\ state \in {"Init", "Probing", "Stable", "ProbingUp"}
  /\ stableCount \in 0..UpInterval /\ probingCount \in 0..2
  /\ enc \in Encoders /\ bitrate \in LowestBitrate..Nominal
  /\ ptime \in (MinPtime..MaxPtime) \cup {enc.ptime, enc.maxptime} /\ ptime <= enc.maxptime
  /\ skipped \in BOOLEAN

Init ==
  /\ stats = [i \in 1..STATS_HISTORY |-> [loss |-> 0, rt |-> 0]]
  /\ curindex = 0 /\ rtDoubled = FALSE
  /\ state = "Init" /\ stableCount = 0 /\ probingCount = 0
  /\ enc \in Encoders /\ ptime = enc.ptime /\ bitrate = Nominal
  /\ skipped = FALSE

-------------------------------------------------------------------------------
(* The driver: audio_bitrate_driver_execute_action().                      *)

\* Faulty variant: only the maximum is checked.
RefusedAbove(t) == t > MaxPtime \/ (t > enc.maxptime /\ ~ enc.clamps)

\* apply_ptime() of the ptime t fails, as out of range or because the encoder
\* answers so.
Refused(t) == t \notin MinPtime..MaxPtime \/ (t > enc.maxptime /\ ~ enc.clamps)

\* The ptime of the encoder after apply_ptime().
Applied(t) == IF Refused(t) THEN ptime
              ELSE IF t > enc.maxptime THEN enc.maxptime ELSE t

\* MSRateControlActionDecreaseBitrate: inc_ptime() first, and the bitrate is reduced
\* when that fails; the encoder applies its lower bound.
Reduced(percent) ==
  LET b == bitrate - (bitrate * percent) \div 100
  IN  IF b < LowestBitrate THEN LowestBitrate ELSE b

\* Faulty variant: the bitrate is reduced only for encoders that adapt their ptime.
DecreaseBitrateAutoOnly(percent) ==
  IF enc.auto
  THEN /\ bitrate' = IF enc.adapts THEN Reduced(percent) ELSE bitrate
       /\ UNCHANGED ptime
  ELSE ptime' = Applied(ptime + PtimeStep) /\ UNCHANGED bitrate

DecreaseBitrate(percent) ==
  IF enc.auto \/ Refused(ptime + PtimeStep)
  THEN /\ bitrate' = IF enc.adapts THEN Reduced(percent) ELSE bitrate
       /\ UNCHANGED ptime
  ELSE ptime' = Applied(ptime + PtimeStep) /\ UNCHANGED bitrate

\* MSRateControlActionIncreaseQuality: dec_ptime() above 20 ms, and the bitrate.
Raised == (bitrate * 140) \div 100

Decremented == ~ enc.auto /\ ptime > PtimeStep

IncreaseQuality ==
  /\ ptime' = IF Decremented THEN Applied(ptime - PtimeStep) ELSE ptime
  /\ bitrate' = IF ~ enc.adapts THEN bitrate
                ELSE IF Raised >= Nominal THEN Nominal ELSE Raised

\* IncreaseQuality answers -1: dec_ptime() fails, or the bitrate has just reached
\* its nominal value, whatever the ptime.
CannotDecrement == Decremented /\ Refused(ptime - PtimeStep)

IncreaseFails ==
  CannotDecrement \/ (enc.adapts /\ bitrate < Nominal /\ Raised >= Nominal)

-------------------------------------------------------------------------------
(* The analyzer, when the report r arrives.                                *)

\* curindex is incremented, and r stored in that slot, over the oldest.
Store(r) == [i \in 1..STATS_HISTORY |-> IF i = 1 THEN r ELSE stats[i - 1]]

\* The slot before the one of r.
Previous == stats[1]

\* rt_prop_doubled()
DelayDoubled(r) ==
  r.rt >= Significant /\ Previous.rt > 0 /\ r.rt >= 2 * Previous.rt

\* simple_analyzer_suggest_action(): the percentage of the bitrate to give up,
\* 0 for MSRateControlActionDoNothing.  bigJitter: int_jitter >= big_jitter.
LossPercent(r) == IF r.loss < 50 THEN r.loss ELSE 50

Suggestion(r, bigJitter) ==
  IF r.loss >= Unacceptable /\ bigJitter THEN LossPercent(r)
  ELSE IF DelayDoubled(r) THEN 20
  ELSE IF r.loss >= Unacceptable THEN LossPercent(r) ELSE 0

\* The delay is looked at, and remembered, unless the losses decide alone; it is
\* looked at again for the callback on_action_suggested, when there is one.
SuggestMarks(r, bigJitter, callback) ==
  rtDoubled' = (rtDoubled \/ ((callback \/ ~ (r.loss >= Unacceptable /\ bigJitter))
                              /\ DelayDoubled(r)))

\* simple_analyzer_has_improved()
DelayImproved(r) ==
  Previous.loss < Unacceptable /\ rtDoubled /\ r.rt < Previous.rt

HasImproved(r) ==
  \/ Previous.loss >= Unacceptable /\ r.loss < Previous.loss
  \/ DelayImproved(r)

-------------------------------------------------------------------------------
(* The controller: state_machine(), by state.                              *)

InStableOrInit(percent) ==
  /\ state \in {"Stable", "Init"}
  /\ stableCount' = IF state = "Stable" THEN stableCount + 1 ELSE stableCount
  /\ \/ /\ percent > 0 /\ DecreaseBitrate(percent)
        /\ state' = "Probing" /\ UNCHANGED probingCount
     \/ /\ percent = 0 /\ stableCount' >= UpInterval /\ IncreaseQuality
        /\ state' = "ProbingUp" /\ probingCount' = 0
     \/ /\ percent = 0 /\ stableCount' < UpInterval
        /\ UNCHANGED <<encoder, state, probingCount>>

InProbing(percent, improved) ==
  /\ state = "Probing" /\ stableCount' = 0
  /\ \/ improved /\ state' = "Stable" /\ UNCHANGED encoder
     \/ ~ improved /\ percent > 0 /\ DecreaseBitrate(percent) /\ UNCHANGED state
     \/ ~ improved /\ percent = 0 /\ UNCHANGED <<encoder, state>>
  /\ UNCHANGED probingCount

\* Faulty variant: the slow ramp up waits for an increase to fail before it makes one.
InProbingUpOnce(percent) ==
  /\ state = "ProbingUp" /\ stableCount' = 0
  /\ \/ /\ percent > 0 /\ DecreaseBitrate(percent)
        /\ state' = "Probing" /\ probingCount' = probingCount + 1
     \/ /\ percent = 0 /\ IF IncreaseFails THEN state' = "Init" ELSE UNCHANGED state
        /\ UNCHANGED <<encoder, probingCount>>

InProbingUp(percent) ==
  /\ state = "ProbingUp" /\ stableCount' = 0
  /\ \/ /\ percent > 0 /\ DecreaseBitrate(percent)
        /\ state' = "Probing" /\ probingCount' = probingCount + 1
     \/ /\ percent = 0 /\ probingCount + 1 = 2 /\ IncreaseQuality
        /\ state' = IF IncreaseFails THEN "Init" ELSE state
        /\ probingCount' = 0
     \/ /\ percent = 0 /\ probingCount + 1 # 2
        /\ probingCount' = probingCount + 1 /\ UNCHANGED <<encoder, state>>

\* A report about the stream, with statistics:
\* ms_bitrate_controller_process_rtcp().
Report(r, bigJitter, callback) ==
  LET percent == Suggestion(r, bigJitter)
      improved == HasImproved(r)
  IN  /\ stats' = Store(r) /\ curindex' = 1 - curindex
      /\ \/ InStableOrInit(percent) \/ InProbing(percent, improved)
         \/ InProbingUp(percent)
      /\ IF state = "Probing" /\ improved
         THEN rtDoubled' = (rtDoubled /\ ~ DelayImproved(r))
         ELSE SuggestMarks(r, bigJitter, callback)
      /\ UNCHANGED <<enc, skipped>>

\* A report that the loss rate estimator cannot use yet: curindex is incremented
\* and its slot keeps the report that it had.
ReportWithoutStats ==
  /\ stats' = Store(stats[STATS_HISTORY]) /\ curindex' = 1 - curindex
  /\ skipped' = TRUE
  /\ UNCHANGED <<rtDoubled, controller, enc, encoder>>

AnyReport == \E r \in [loss : Losses, rt : Delays], bigJitter, callback \in BOOLEAN :
               Report(r, bigJitter, callback)

Next == AnyReport \/ ReportWithoutStats

\* The far end goes on sending reports.
Spec == Init /\ [][Next]_vars /\ WF_vars(Next)

-------------------------------------------------------------------------------
(* Properties                                                              *)

\* A report that complains of losses, or one that finds nothing wrong.
LossyReport == \E r \in [loss : {l \in Losses : l >= Unacceptable}, rt : Delays],
                  bigJitter, callback \in BOOLEAN : Report(r, bigJitter, callback)

GoodReport == \E r \in [loss : {l \in Losses : l < Unacceptable}, rt : Delays],
                 callback \in BOOLEAN :
                /\ \A d \in Delays : r.rt <= d
                /\ Report(r, FALSE, callback)

\* Nothing is reduced any more: the ptime does not increase, and the bitrate is the
\* least, unless the encoder clamps its ptime and says that it has increased it.
AtFloor == /\ enc.auto \/ Applied(ptime + PtimeStep) = ptime
           /\ enc.adapts /\ (enc.auto \/ Refused(ptime + PtimeStep))
                => bitrate = LowestBitrate

\* When the reports go on complaining of losses, the stream is reduced as far as
\* the encoder allows: comparing a report with the wrong earlier one may delay a
\* reaction of state_machine() but does not suppress it.
ReducedUnderLoss == <>[][LossyReport]_vars => <>AtFloor

\* Once the network is good again the bitrate comes back to its nominal value,
\* and the ptime to 20 ms or less unless the controller is back in Init, where it
\* stays with the ptime that it had when the bitrate was restored, or with the
\* bitrate that it had when the ptime came to a value between 20 and 30 ms: a step
\* less would be below 10 ms, and the refusal of dec_ptime() ends the ramp up.
\* This needs the analyzer to have used every report: after one that it passed over
\* it may compare the next with an older one, see no improvement and stay in Probing.
Recovers ==
  <>[][GoodReport]_vars
    => <>[](\/ /\ bitrate = Nominal
               /\ enc.auto \/ ptime <= PtimeStep \/ state = "Init"
            \/ CannotDecrement /\ state = "Init"
            \/ skipped /\ state = "Probing")

===============================================================================
