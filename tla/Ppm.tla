-------------------------------- MODULE Ppm --------------------------------
(***************************************************************************)
(* The PPM receiver (radio_control/ppm.h): an interrupt measures the time   *)
(* between two edges of the line and assembles a frame in ppm_pulses, the    *)
(* main loop polls ppm_frame_available and normalises the pulses, one        *)
(* channel after the other, with the interrupt still enabled.               *)
(*                                                                         *)
(* A length is "sync", "data" or "bad" (neither); a pulse is remembered by   *)
(* whether it belongs to the last frame announced or came after it.         *)
(*                                                                         *)
(* The last five variables are an observer's: what was really on the line.   *)
(***************************************************************************)
EXTENDS RadioControl

CONSTANT PPM_NB_CHANNEL
ASSUME PpmAssumption == PPM_NB_CHANNEL \in Nat \ {0}

Lengths == {"sync", "data", "bad"}
SPOILED == PPM_NB_CHANNEL + 1
NoRead  == PPM_NB_CHANNEL + 1

VARIABLES
  ppm_cur_pulse, ppm_data_valid, ppm_frame_available,
  ppm_pulses,   \* channel -> "frame", or "later" when it came after the frame
  reading,      \* the channel to normalise next, PPM_NB_CHANNEL when done,
                \* or NoRead outside RadioControlEvent
  values,       \* channel -> the pulse its last normalised value came from
  run,          \* data lengths since the last sync, or SPOILED
  whole,        \* the last sync ended a whole frame, and nothing is spoiled since
  gap,          \* ticks since the last whole frame on the line
  late,         \* a pulse came between the frame and the end of its event
  polled        \* RadioControlEvent has been through since the last tick

isr_vars  == <<ppm_cur_pulse, ppm_data_valid, ppm_pulses>>
line_vars == <<run, whole>>
ppm_vars  == <<rc_vars, isr_vars, ppm_frame_available, reading, values,
               line_vars, gap, late, polled>>

Channels == 0 .. PPM_NB_CHANNEL - 1

PpmTypeOK ==
  /\ RcTypeOK
  /\ ppm_cur_pulse \in 0 .. PPM_NB_CHANNEL
  /\ ppm_data_valid \in BOOLEAN /\ ppm_frame_available \in BOOLEAN
  /\ ppm_pulses \in [Channels -> {"frame", "later"}]
  /\ reading \in 0 .. NoRead
  /\ values \in [Channels -> {"frame", "later"}]
  /\ run \in 0 .. SPOILED /\ whole \in BOOLEAN
  /\ gap \in 0 .. RC_LOST_TIME
  /\ late \in BOOLEAN /\ polled \in BOOLEAN

-----------------------------------------------------------------------------
(* DecodePpmFrame's two positions: after the last channel only a blank opens  *)
(* a frame, within a frame only data goes on.  "stored" is the test for the   *)
(* second, "announced" the one that the first hands a frame over.           *)
Stored(length) == ppm_cur_pulse < PPM_NB_CHANNEL /\ length = "data"

Decoder(length, stored, announced) ==
  LET synced == ppm_cur_pulse = PPM_NB_CHANNEL /\ length = "sync"
  IN /\ ppm_cur_pulse' = CASE synced -> 0
                           [] stored -> ppm_cur_pulse + 1
                           [] OTHER  -> PPM_NB_CHANNEL
     /\ ppm_data_valid' = (stored /\ ppm_cur_pulse' = PPM_NB_CHANNEL)
     /\ ppm_pulses' = IF synced /\ ppm_data_valid THEN [c \in Channels |-> "frame"]
                      ELSE [c \in Channels |->
                              IF stored /\ c = ppm_cur_pulse THEN "later"
                              ELSE ppm_pulses[c]]
     /\ ppm_frame_available' = (ppm_frame_available \/ (synced /\ announced))

-----------------------------------------------------------------------------
(* Plausible bugs, used to show that the properties can fail.              *)

(* A length that is neither is stored like data.                            *)
MutStoresBad(length) ==
  Decoder(length, ppm_cur_pulse < PPM_NB_CHANNEL /\ length # "sync", ppm_data_valid)

(* The end of the event resets the decoder too, whatever it is in the middle  *)
(* of.                                                                      *)
MutEndClearsValid ==
  /\ reading = PPM_NB_CHANNEL
  /\ reading' = NoRead /\ ppm_frame_available' = FALSE /\ ppm_data_valid' = FALSE
  /\ polled' = TRUE /\ late' = FALSE
  /\ UNCHANGED <<rc_vars, ppm_cur_pulse, ppm_pulses, values, line_vars, gap>>

(* Any blank where a frame may begin announces one.                         *)
MutAnySync(length) == Decoder(length, Stored(length), TRUE)

-----------------------------------------------------------------------------
PpmInit ==
  /\ radio_control_init
  /\ ppm_cur_pulse = PPM_NB_CHANNEL /\ ppm_data_valid = FALSE
  /\ ppm_frame_available = FALSE
  /\ ppm_pulses = [c \in Channels |-> "later"]
  /\ reading = NoRead /\ values = [c \in Channels |-> "frame"]
  /\ run = SPOILED /\ whole = FALSE /\ gap = RC_LOST_TIME
  /\ late = FALSE /\ polled = FALSE

(* DecodePpmFrame, in the interrupt.                                        *)
DecodePpmFrame(length) ==
  Decoder(length, Stored(length), ppm_data_valid)

(* What a whole frame is on the line: sync, the channels' data, sync.        *)
WholeFrame(length) == length = "sync" /\ run = PPM_NB_CHANNEL

(* An edge of the line: the interrupt runs, between any two steps of the     *)
(* main loop.                                                               *)
PpmEdge(length) ==
  /\ DecodePpmFrame(length)
  /\ run' = CASE length = "sync" -> 0
              [] length = "data" /\ run < PPM_NB_CHANNEL -> run + 1
              [] OTHER -> SPOILED
  /\ whole' = IF length = "sync" THEN WholeFrame(length)
              ELSE whole /\ run' # SPOILED
  /\ gap' = IF WholeFrame(length) THEN 0 ELSE gap
  /\ late' = IF reading = NoRead /\ ppm_pulses' = [c \in Channels |-> "frame"]
               THEN FALSE
               ELSE \/ late
                    \/ length = "data" /\ (ppm_frame_available \/ reading # NoRead)
  /\ UNCHANGED <<rc_vars, reading, values, polled>>

-----------------------------------------------------------------------------
(* RadioControlEvent, in the main loop.  Nothing available: the poll goes on. *)
EventNothing ==
  /\ reading = NoRead /\ ~ppm_frame_available
  /\ polled' = TRUE
  /\ UNCHANGED <<rc_vars, isr_vars, ppm_frame_available, reading, values,
                 line_vars, gap, late>>

(* A frame: it is counted, or accepted, which has its channels normalised.   *)
EventStart ==
  /\ reading = NoRead /\ ppm_frame_available
  /\ \/ RcFrameCounted  /\ reading' = PPM_NB_CHANNEL
     \/ RcFrameAccepted /\ reading' = 0
  /\ UNCHANGED <<isr_vars, ppm_frame_available, values, line_vars, gap, late,
                 polled>>

(* NormalizePpmIIR, one channel.                                            *)
NormalizePpmIIR ==
  /\ reading \in Channels
  /\ values' = [values EXCEPT ![reading] = ppm_pulses[reading]]
  /\ reading' = reading + 1
  /\ UNCHANGED <<rc_vars, isr_vars, ppm_frame_available, line_vars, gap, late,
                 polled>>

(* The handler has run; only now is the flag cleared.                       *)
EventEnd ==
  /\ reading = PPM_NB_CHANNEL
  /\ reading' = NoRead /\ ppm_frame_available' = FALSE
  /\ polled' = TRUE /\ late' = FALSE
  /\ UNCHANGED <<rc_vars, isr_vars, values, line_vars, gap>>

RadioControlEvent == EventNothing \/ EventStart \/ NormalizePpmIIR \/ EventEnd

(* The tick.  The loop polls the radio in every turn, so at least once        *)
(* between two ticks, and never serves a tick inside an event.              *)
PpmTick ==
  /\ reading = NoRead /\ polled /\ polled' = FALSE
  /\ radio_control_periodic_task
  /\ gap' = IF gap < RC_LOST_TIME THEN gap + 1 ELSE gap
  /\ UNCHANGED <<isr_vars, ppm_frame_available, reading, values, line_vars, late>>

PpmNext ==
  \/ \E length \in Lengths : PpmEdge(length)
  \/ EventNothing \/ EventStart \/ NormalizePpmIIR \/ EventEnd
  \/ PpmTick

(* The loop goes round, and a tick that is due waits until the loop comes to  *)
(* it; the line promises nothing.                                           *)
PpmFairness == WF_ppm_vars(RadioControlEvent) /\ SF_ppm_vars(PpmTick)

PpmSpec == PpmInit /\ [][PpmNext]_ppm_vars /\ PpmFairness

-----------------------------------------------------------------------------
(* Safety.                                                                  *)

(* "A valid ppm frame: synchro blank, correct number of channels, synchro    *)
(* blank", says ppm.h: a frame is announced only when that is what was on    *)
(* the line, and of two such frames in a row the second always is (the first *)
(* may be lost after a short frame, whose last blank does not count as the   *)
(* first of the next).                                                      *)
Announced == ppm_cur_pulse = PPM_NB_CHANNEL /\ ppm_cur_pulse' = 0 /\ ppm_data_valid
LineWhole == run = PPM_NB_CHANNEL /\ run' = 0

FramesAreWhole ==
  [][(Announced => LineWhole) /\ (LineWhole /\ whole => Announced)]_ppm_vars

(* The decoder is never out of step with the line in a way that would let it *)
(* announce anything else: it counts what the line has had since its blank,  *)
(* or has given the frame up.                                               *)
InStep ==
  /\ ppm_cur_pulse < PPM_NB_CHANNEL => run = ppm_cur_pulse
  /\ ppm_data_valid => ppm_cur_pulse = PPM_NB_CHANNEL /\ run = PPM_NB_CHANNEL
  /\ whole => /\ run <= PPM_NB_CHANNEL
              /\ ppm_cur_pulse = run
              /\ run = PPM_NB_CHANNEL => ppm_data_valid

(* The channels given to the handler all come from the frame announced,      *)
(* unless a pulse of the next one is stored before the event is over: the    *)
(* interrupt shares ppm_pulses with the event.                              *)
ValuesFromFrame ==
  [][(reading < PPM_NB_CHANNEL /\ reading' = reading + 1 /\ ~late)
       => values'[reading] = "frame"]_ppm_vars

(* Liveness.                                                                *)

(* Whole frames on the line, never RC_LOST_TIME ticks apart, bring the link   *)
(* up and keep it up: neither the frame after a glitch that the decoder       *)
(* misses, nor the one whose flag is cleared with its predecessor's, nor the  *)
(* frames that only count, keep it down.                                    *)
CleanLinkComesUp ==
  <>[](gap < RC_LOST_TIME /\ whole) => <>[](rc_status = RC_OK)

(* A line that carries no whole frame any more, whatever else it carries,    *)
(* is REALLY_LOST in the end.                                               *)
NoiseIsNoLink ==
  <>[][~LineWhole]_ppm_vars => <>[](rc_status = RC_REALLY_LOST)
=============================================================================
