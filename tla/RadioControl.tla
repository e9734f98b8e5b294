---------------------------- MODULE RadioControl ----------------------------
(***************************************************************************)
(* The radio control link monitor that both firmwares share: struct        *)
(* RadioControl, its periodic task (radio_control.h) and the receive event  *)
(* of the PPM driver (ppm.h).  The periodic task counts ticks of silence    *)
(* and declares the link LOST, then REALLY_LOST; the receive event counts   *)
(* RC_OK_CPT frames after a loss before it trusts the link again.           *)
(*                                                                         *)
(* The module has the state and its operations only.  Fbw and Rotorcraft    *)
(* extend it and give the operations their callers.                         *)
(***************************************************************************)
EXTENDS Integers

CONSTANTS
  RC_LOST_TIME,         \* ticks of silence before LOST         (30 in the code)
  RC_REALLY_LOST_TIME,  \* ticks of silence before REALLY_LOST  (60 in the code)
  RC_OK_CPT             \* frames counted before going back OK  (15 in the code)

ASSUME RcTimesAssumption ==
  /\ RC_LOST_TIME \in Nat \ {0}
  /\ RC_REALLY_LOST_TIME \in Nat
  /\ RC_LOST_TIME < RC_REALLY_LOST_TIME
  /\ RC_OK_CPT \in Nat \ {0}

RC_OK          == "RC_OK"
RC_LOST        == "RC_LOST"
RC_REALLY_LOST == "RC_REALLY_LOST"

VARIABLES
  rc_status,              \* radio_control.status
  time_since_last_frame,  \* radio_control.time_since_last_frame
  radio_ok_cpt            \* radio_control.radio_ok_cpt

rc_vars == <<rc_status, time_since_last_frame, radio_ok_cpt>>

RcTypeOK ==
  /\ rc_status \in {RC_OK, RC_LOST, RC_REALLY_LOST}
  /\ time_since_last_frame \in 0 .. RC_REALLY_LOST_TIME
  /\ radio_ok_cpt \in 0 .. RC_OK_CPT

-----------------------------------------------------------------------------
(* Plausible bugs, used to show that the properties can fail.              *)

(* The step into LOST does not arm the frame counter.                      *)
MutPeriodicNeverArms ==
  IF time_since_last_frame >= RC_REALLY_LOST_TIME
    THEN /\ rc_status' = RC_REALLY_LOST
         /\ UNCHANGED <<time_since_last_frame, radio_ok_cpt>>
    ELSE /\ time_since_last_frame' = time_since_last_frame + 1
         /\ rc_status' = IF time_since_last_frame >= RC_LOST_TIME
                           THEN RC_LOST ELSE rc_status
         /\ UNCHANGED radio_ok_cpt

(* Silence never gets past LOST.                                           *)
MutPeriodicStopsAtLost ==
  /\ time_since_last_frame' = IF time_since_last_frame >= RC_REALLY_LOST_TIME
                                THEN time_since_last_frame
                                ELSE time_since_last_frame + 1
  /\ IF time_since_last_frame >= RC_LOST_TIME
       THEN rc_status' = RC_LOST /\ radio_ok_cpt' = RC_OK_CPT
       ELSE UNCHANGED <<rc_status, radio_ok_cpt>>

(* The loss is declared one tick early.                                     *)
MutPeriodicEarly ==
  IF time_since_last_frame >= RC_REALLY_LOST_TIME
    THEN /\ rc_status' = RC_REALLY_LOST
         /\ UNCHANGED <<time_since_last_frame, radio_ok_cpt>>
    ELSE /\ time_since_last_frame' = time_since_last_frame + 1
         /\ IF time_since_last_frame + 1 >= RC_LOST_TIME
              THEN rc_status' = RC_LOST /\ radio_ok_cpt' = RC_OK_CPT
              ELSE UNCHANGED <<rc_status, radio_ok_cpt>>

-----------------------------------------------------------------------------
(* radio_control_init: the link starts REALLY_LOST, but with no frame to    *)
(* count before the first one is accepted.                                  *)
radio_control_init ==
  /\ rc_status = RC_REALLY_LOST
  /\ time_since_last_frame = RC_REALLY_LOST_TIME
  /\ radio_ok_cpt = 0

(* One tick of silence.  Only the step into LOST arms the frame counter.    *)
radio_control_periodic_task ==
  IF time_since_last_frame >= RC_REALLY_LOST_TIME
    THEN /\ rc_status' = RC_REALLY_LOST
         /\ UNCHANGED <<time_since_last_frame, radio_ok_cpt>>
    ELSE /\ time_since_last_frame' = time_since_last_frame + 1
         /\ IF time_since_last_frame >= RC_LOST_TIME
              THEN rc_status' = RC_LOST /\ radio_ok_cpt' = RC_OK_CPT
              ELSE UNCHANGED <<rc_status, radio_ok_cpt>>

(* RadioControlEvent, the branch that only counts the frame.                *)
RcFrameCounted ==
  /\ radio_ok_cpt > 0
  /\ radio_ok_cpt' = radio_ok_cpt - 1
  /\ time_since_last_frame' = 0
  /\ UNCHANGED rc_status

(* RadioControlEvent, the branch that accepts the frame and goes on to call *)
(* the handler.                                                             *)
RcFrameAccepted ==
  /\ radio_ok_cpt = 0
  /\ rc_status' = RC_OK
  /\ time_since_last_frame' = 0
  /\ UNCHANGED radio_ok_cpt

=============================================================================
