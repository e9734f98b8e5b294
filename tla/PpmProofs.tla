----------------------------- MODULE PpmProofs -----------------------------
(***************************************************************************)
(* Proofs about the PPM decoder, for every number of channels: it stays in   *)
(* step with the line, announces whole frames only, and hands over channels   *)
(* of the frame announced.                                                  *)
(***************************************************************************)
EXTENDS Ppm, TLAPS

(* What InStep leaves open, made inductive: on a train that is not spoiled   *)
(* the decoder either counts with the line or has given the train up.        *)
Follows ==
  run <= PPM_NB_CHANNEL =>
    \/ ppm_cur_pulse = run /\ (run = PPM_NB_CHANNEL => ppm_data_valid)
    \/ ppm_cur_pulse = PPM_NB_CHANNEL /\ ~ppm_data_valid

PpmInv == PpmTypeOK /\ InStep /\ Follows

(* An edge keeps the decoder's own variables in range.                      *)
LEMMA DecoderType ==
  ASSUME PpmTypeOK, NEW length \in Lengths, PpmEdge(length)
  PROVE  PpmTypeOK'
<1>1. PPM_NB_CHANNEL \in Nat /\ PPM_NB_CHANNEL > 0
  BY PpmAssumption
<1>2. /\ RcTypeOK'
      /\ reading' \in 0 .. NoRead
      /\ values' \in [Channels -> {"frame", "later"}]
      /\ polled' \in BOOLEAN
  BY DEF PpmTypeOK, PpmEdge, RcTypeOK, rc_vars
<1>3. ppm_cur_pulse' \in 0 .. PPM_NB_CHANNEL
  BY <1>1 DEF PpmTypeOK, PpmEdge, DecodePpmFrame, Decoder, Stored
<1>4. ppm_data_valid' \in BOOLEAN
  BY Zenon DEF PpmEdge, DecodePpmFrame, Decoder
<1>5. ppm_frame_available' \in BOOLEAN
  BY Zenon DEF PpmEdge, DecodePpmFrame, Decoder
<1>6. ppm_pulses' \in [Channels -> {"frame", "later"}]
  BY Zenon DEF PpmTypeOK, PpmEdge, DecodePpmFrame, Decoder
<1>7. run' \in 0 .. SPOILED
  BY <1>1 DEF PpmTypeOK, PpmEdge, SPOILED
<1>8. whole' \in BOOLEAN
  BY Zenon DEF PpmTypeOK, PpmEdge, WholeFrame
<1>9. gap' \in 0 .. RC_LOST_TIME
  BY RcTimesAssumption DEF PpmTypeOK, PpmEdge, RcTypeOK
<1>10. late' \in BOOLEAN
  BY Zenon DEF PpmTypeOK, PpmEdge
<1>11. QED
  BY <1>2, <1>3, <1>4, <1>5, <1>6, <1>7, <1>8, <1>9, <1>10 DEF PpmTypeOK

(* The steps of the main loop leave decoder and line alone, and the types.   *)
LoopStep == EventNothing \/ EventStart \/ NormalizePpmIIR \/ EventEnd \/ PpmTick

LEMMA LoopType ==
  ASSUME PpmTypeOK, LoopStep
  PROVE  PpmTypeOK' /\ UNCHANGED <<ppm_cur_pulse, ppm_data_valid, run, whole>>
<1>1. PPM_NB_CHANNEL \in Nat /\ PPM_NB_CHANNEL > 0
  BY PpmAssumption
<1>2. UNCHANGED <<isr_vars, line_vars>>
  BY DEF LoopStep, EventNothing, EventStart, NormalizePpmIIR, EventEnd, PpmTick
<1>3. RcTypeOK'
  <2>1. CASE EventStart
    BY <2>1, RcTimesAssumption, SMT
       DEF EventStart, PpmTypeOK, RcTypeOK, RcFrameCounted, RcFrameAccepted,
           RC_OK, RC_LOST, RC_REALLY_LOST
  <2>2. CASE PpmTick
    BY <2>2, RcTimesAssumption, SMT
       DEF PpmTick, PpmTypeOK, RcTypeOK, radio_control_periodic_task,
           RC_OK, RC_LOST, RC_REALLY_LOST
  <2>3. CASE EventNothing \/ NormalizePpmIIR \/ EventEnd
    BY <2>3 DEF EventNothing, NormalizePpmIIR, EventEnd, PpmTypeOK, RcTypeOK,
                rc_vars
  <2>4. QED
    BY <2>1, <2>2, <2>3 DEF LoopStep
<1>4. reading' \in 0 .. NoRead
  BY <1>1 DEF LoopStep, EventNothing, EventStart, NormalizePpmIIR, EventEnd,
              PpmTick, PpmTypeOK, NoRead, Channels
<1>5. values' \in [Channels -> {"frame", "later"}]
  BY DEF LoopStep, EventNothing, EventStart, NormalizePpmIIR, EventEnd,
         PpmTick, PpmTypeOK
<1>6. ppm_frame_available' \in BOOLEAN /\ late' \in BOOLEAN /\ polled' \in BOOLEAN
  BY DEF LoopStep, EventNothing, EventStart, NormalizePpmIIR, EventEnd,
         PpmTick, PpmTypeOK
<1>7. gap' \in 0 .. RC_LOST_TIME
  BY RcTimesAssumption
     DEF LoopStep, EventNothing, EventStart, NormalizePpmIIR, EventEnd,
         PpmTick, PpmTypeOK
<1>8. QED
  BY <1>2, <1>3, <1>4, <1>5, <1>6, <1>7 DEF PpmTypeOK, isr_vars, line_vars

(* An edge keeps decoder and line in step.                                  *)
LEMMA EdgeInv ==
  ASSUME PpmInv, NEW length \in Lengths, PpmEdge(length)
  PROVE  PpmInv' /\ (Announced => LineWhole) /\ (LineWhole /\ whole => Announced)
<1>1. PpmTypeOK'
  BY DecoderType DEF PpmInv
<1> DEFINE synced == ppm_cur_pulse = PPM_NB_CHANNEL /\ length = "sync"
           stored == ppm_cur_pulse < PPM_NB_CHANNEL /\ length = "data"
<1>2. /\ PPM_NB_CHANNEL \in Nat /\ PPM_NB_CHANNEL > 0
      /\ ppm_cur_pulse \in 0 .. PPM_NB_CHANNEL /\ run \in 0 .. PPM_NB_CHANNEL + 1
      /\ ppm_data_valid \in BOOLEAN /\ whole \in BOOLEAN
  BY PpmAssumption DEF PpmInv, PpmTypeOK, SPOILED
<1>3. /\ ppm_cur_pulse' = CASE synced -> 0
                            [] stored -> ppm_cur_pulse + 1
                            [] OTHER  -> PPM_NB_CHANNEL
      /\ ppm_data_valid' = (stored /\ ppm_cur_pulse' = PPM_NB_CHANNEL)
  BY DEF PpmEdge, DecodePpmFrame, Decoder, Stored
<1>4. /\ run' = CASE length = "sync" -> 0
                  [] length = "data" /\ run < PPM_NB_CHANNEL -> run + 1
                  [] OTHER -> PPM_NB_CHANNEL + 1
      /\ whole' = IF length = "sync" THEN run = PPM_NB_CHANNEL
                  ELSE whole /\ run' # PPM_NB_CHANNEL + 1
  BY DEF PpmEdge, WholeFrame, SPOILED
<1>5. InStep /\ Follows
  BY DEF PpmInv
<1>6. CASE length = "sync"
  <2>1. /\ ppm_cur_pulse' = IF ppm_cur_pulse = PPM_NB_CHANNEL
                             THEN 0 ELSE PPM_NB_CHANNEL
        /\ ~ppm_data_valid' /\ run' = 0 /\ whole' = (run = PPM_NB_CHANNEL)
    BY <1>3, <1>4, <1>6
  <2>2. InStep' /\ Follows'
    BY <2>1, <1>2, <1>5 DEF InStep, Follows
  <2>3. (Announced => LineWhole) /\ (LineWhole /\ whole => Announced)
    BY <2>1, <1>2, <1>5 DEF InStep, Follows, Announced, LineWhole
  <2>4. QED
    BY <1>1, <2>2, <2>3 DEF PpmInv
<1>7. CASE length # "sync"
  <2>1. /\ ppm_cur_pulse' = IF stored THEN ppm_cur_pulse + 1 ELSE PPM_NB_CHANNEL
        /\ ppm_data_valid' = (stored /\ ppm_cur_pulse + 1 = PPM_NB_CHANNEL)
        /\ run' = IF length = "data" /\ run < PPM_NB_CHANNEL
                    THEN run + 1 ELSE PPM_NB_CHANNEL + 1
        /\ whole' = (whole /\ run' # PPM_NB_CHANNEL + 1)
    BY <1>3, <1>4, <1>7
  <2>2. CASE stored
    <3>0. run = ppm_cur_pulse /\ run < PPM_NB_CHANNEL /\ length = "data"
      BY <2>2, <1>5, Zenon DEF InStep
    <3>1. ppm_cur_pulse' = ppm_cur_pulse + 1 /\ run' = run + 1
      BY <3>0, <2>1, <2>2
    <3>4. ppm_data_valid' <=> ppm_cur_pulse + 1 = PPM_NB_CHANNEL
      BY <2>1, <2>2, Zenon
    <3>2. InStep' /\ Follows'
      BY <3>0, <3>1, <3>4, <2>1, <1>2 DEF InStep, Follows
    <3>3. QED
      BY <1>1, <3>0, <3>1, <3>2, <1>2 DEF PpmInv, Announced, LineWhole
  <2>3. CASE ~stored
    <3>1. /\ ppm_cur_pulse' = PPM_NB_CHANNEL /\ ~ppm_data_valid'
      BY <2>1, <2>3
    <3>2. ~whole'
      BY <2>1, <2>3, <1>2, <1>5 DEF InStep
    <3>3. InStep' /\ Follows'
      BY <3>1, <3>2, <1>2 DEF InStep, Follows
    <3>4. run' # 0
      BY <2>1, <1>2
    <3>5. QED
      BY <1>1, <3>1, <3>3, <3>4, <1>2 DEF PpmInv, Announced, LineWhole
  <2>4. QED
    BY <2>2, <2>3
<1>8. QED
  BY <1>6, <1>7

(* Every step keeps the invariant and announces only what is whole.          *)
LEMMA PpmStep ==
  ASSUME PpmInv, [PpmNext]_ppm_vars
  PROVE  PpmInv' /\ (Announced => LineWhole) /\ (LineWhole /\ whole => Announced)
<1>1. CASE \E length \in Lengths : PpmEdge(length)
  BY <1>1, EdgeInv
<1>2. CASE LoopStep
  <2>1. PpmTypeOK' /\ UNCHANGED <<ppm_cur_pulse, ppm_data_valid, run, whole>>
    BY <1>2, LoopType DEF PpmInv
  <2>2. QED
    BY <2>1, PpmAssumption
       DEF PpmInv, InStep, Follows, Announced, LineWhole, PpmTypeOK
<1>3. CASE UNCHANGED ppm_vars
  BY <1>3, PpmAssumption
     DEF ppm_vars, isr_vars, line_vars, rc_vars, PpmInv, PpmTypeOK, RcTypeOK,
         InStep, Follows, Announced, LineWhole
<1>4. QED
  BY <1>1, <1>2, <1>3 DEF PpmNext, LoopStep

LEMMA PpmInitInv ==
  ASSUME PpmInit
  PROVE  PpmInv
<1>1. RcTypeOK
  BY RcTimesAssumption DEF PpmInit, radio_control_init, RcTypeOK
<1>2. PpmTypeOK
  <2>1. PPM_NB_CHANNEL \in Nat /\ PPM_NB_CHANNEL > 0 /\ RC_LOST_TIME \in Nat
    BY PpmAssumption, RcTimesAssumption
  <2>2. /\ ppm_cur_pulse \in 0 .. PPM_NB_CHANNEL
        /\ reading \in 0 .. NoRead /\ run \in 0 .. SPOILED
        /\ gap \in 0 .. RC_LOST_TIME
    BY <2>1 DEF PpmInit, SPOILED, NoRead
  <2>3. QED
    BY <1>1, <2>2 DEF PpmInit, PpmTypeOK
<1>3. InStep /\ Follows
  BY PpmAssumption DEF PpmInit, InStep, Follows, SPOILED
<1>4. QED
  BY <1>2, <1>3 DEF PpmInv

-----------------------------------------------------------------------------
(* Every variable keeps its type, whatever the line carries.                *)
THEOREM PpmTypeCorrect == PpmSpec => []PpmTypeOK
<1>1. PpmInit => PpmInv
  BY PpmInitInv
<1>2. PpmInv /\ [PpmNext]_ppm_vars => PpmInv'
  BY PpmStep
<1>3. PpmInv => PpmTypeOK
  BY DEF PpmInv
<1>4. QED
  BY <1>1, <1>2, <1>3, PTL DEF PpmSpec

(* The decoder never counts anything but what the line had since its blank.  *)
THEOREM DecoderInStep == PpmSpec => []InStep
<1>1. PpmInit => PpmInv
  BY PpmInitInv
<1>2. PpmInv /\ [PpmNext]_ppm_vars => PpmInv'
  BY PpmStep
<1>3. PpmInv => InStep
  BY DEF PpmInv
<1>4. QED
  BY <1>1, <1>2, <1>3, PTL DEF PpmSpec

(* Only whole frames are announced, and of two in a row the second is.       *)
THEOREM OnlyWholeFrames == PpmSpec => FramesAreWhole
<1>1. PpmInit => PpmInv
  BY PpmInitInv
<1>2. PpmInv /\ [PpmNext]_ppm_vars
        => PpmInv' /\ (Announced => LineWhole) /\ (LineWhole /\ whole => Announced)
  BY PpmStep
<1>3. QED
  BY <1>1, <1>2, PTL DEF PpmSpec, FramesAreWhole
-----------------------------------------------------------------------------
(* While a frame waits or is read, every pulse is the frame's, or the        *)
(* observer has seen one come too late.                                     *)
AllFrame == [c \in Channels |-> "frame"]

FrameKept ==
  /\ reading # NoRead => ppm_frame_available
  /\ ppm_frame_available => late \/ ppm_pulses = AllFrame

LEMMA EdgeKeepsFrame ==
  ASSUME PpmInv, FrameKept, NEW length \in Lengths, PpmEdge(length)
  PROVE  FrameKept'
<1> DEFINE synced == ppm_cur_pulse = PPM_NB_CHANNEL /\ length = "sync"
<1>1. /\ reading' = reading
      /\ ppm_frame_available' = (ppm_frame_available \/ (synced /\ ppm_data_valid))
      /\ ppm_pulses' = IF synced /\ ppm_data_valid THEN AllFrame
                       ELSE [c \in Channels |->
                               IF Stored(length) /\ c = ppm_cur_pulse THEN "later"
                               ELSE ppm_pulses[c]]
  BY DEF PpmEdge, DecodePpmFrame, Decoder, AllFrame
<1>2. late' = IF reading = NoRead /\ ppm_pulses' = AllFrame THEN FALSE
              ELSE \/ late
                   \/ length = "data" /\ (ppm_frame_available \/ reading # NoRead)
  BY DEF PpmEdge, AllFrame
<1>3. ppm_pulses \in [Channels -> {"frame", "later"}]
  BY DEF PpmInv, PpmTypeOK
<1>4. CASE ppm_pulses' = AllFrame
  BY <1>1, <1>4, Zenon DEF FrameKept
<1>5. CASE ppm_pulses' # AllFrame
  <2>1. ~(synced /\ ppm_data_valid)
    BY <1>1, <1>5
  <2>2. CASE Stored(length)
    BY <1>1, <1>2, <1>5, <2>1, <2>2, Zenon DEF FrameKept, Stored
  <2>3. CASE ~Stored(length)
    <3>1. ppm_pulses' = ppm_pulses
      BY <1>1, <1>3, <2>1, <2>3
    <3>2. QED
      BY <1>1, <1>2, <1>5, <2>1, <3>1, Zenon DEF FrameKept
  <2>4. QED
    BY <2>2, <2>3
<1>6. QED
  BY <1>4, <1>5

LEMMA LoopKeepsFrame ==
  ASSUME PpmInv, FrameKept, LoopStep
  PROVE  FrameKept'
<1>1. UNCHANGED ppm_pulses
  BY DEF LoopStep, EventNothing, EventStart, NormalizePpmIIR, EventEnd, PpmTick,
         isr_vars
<1>2. CASE EventNothing \/ PpmTick
  BY <1>1, <1>2 DEF EventNothing, PpmTick, FrameKept
<1>3. CASE EventStart
  BY <1>1, <1>3 DEF EventStart, FrameKept
<1>4. CASE NormalizePpmIIR
  <2>1. reading # NoRead
    BY <1>4, PpmAssumption DEF NormalizePpmIIR, Channels, NoRead
  <2>2. QED
    BY <1>1, <1>4, <2>1 DEF NormalizePpmIIR, FrameKept
<1>5. CASE EventEnd
  BY <1>5 DEF EventEnd, FrameKept
<1>6. QED
  BY <1>2, <1>3, <1>4, <1>5 DEF LoopStep

(* The only step that moves on to the next channel reads one of the frame's.  *)
LEMMA ChannelRead ==
  ASSUME PpmInv, FrameKept, [PpmNext]_ppm_vars,
         reading < PPM_NB_CHANNEL, reading' = reading + 1, ~late
  PROVE  values'[reading] = "frame"
<1>1. reading \in Nat /\ PPM_NB_CHANNEL \in Nat /\ NoRead = PPM_NB_CHANNEL + 1
  BY PpmAssumption DEF PpmInv, PpmTypeOK, NoRead
<1>2. reading # NoRead /\ reading # PPM_NB_CHANNEL /\ reading' # reading
  BY <1>1
<1>3. NormalizePpmIIR
  BY <1>2 DEF PpmNext, PpmEdge, EventNothing, EventStart, EventEnd, PpmTick, ppm_vars
<1>4. ppm_pulses = AllFrame
  BY <1>2 DEF FrameKept
<1>5. QED
  BY <1>3, <1>4 DEF NormalizePpmIIR, AllFrame, PpmInv, PpmTypeOK

(* No channel ever gets a pulse of a later frame, unless that frame came       *)
(* before the event was over, for every number of channels.                  *)
THEOREM ChannelsOfOneFrame == PpmSpec => ValuesFromFrame
<1>1. PpmInit => PpmInv /\ FrameKept
  BY PpmInitInv DEF PpmInit, FrameKept
<1>2. PpmInv /\ [PpmNext]_ppm_vars => PpmInv'
  BY PpmStep
<1>3. PpmInv /\ FrameKept /\ [PpmNext]_ppm_vars => FrameKept'
  <2>1. ASSUME FrameKept, UNCHANGED ppm_vars
        PROVE  FrameKept'
    BY <2>1 DEF FrameKept, ppm_vars, isr_vars
  <2>2. QED
    BY <2>1, EdgeKeepsFrame, LoopKeepsFrame DEF PpmNext, LoopStep
<1>4. PpmInv /\ FrameKept /\ [PpmNext]_ppm_vars
        => [reading < PPM_NB_CHANNEL /\ reading' = reading + 1 /\ ~late
              => values'[reading] = "frame"]_ppm_vars
  BY ChannelRead
<1>5. QED
  BY <1>1, <1>2, <1>3, <1>4, PTL DEF PpmSpec, ValuesFromFrame
=============================================================================
