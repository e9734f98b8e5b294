----------------------------- MODULE FbwMonitor -----------------------------
(***************************************************************************)
(* Fbw with an observer that keeps its own books, so that what the radio    *)
(* and the AP watchdogs conclude can be compared with what really happened. *)
(***************************************************************************)
EXTENDS Fbw

VARIABLES
  gap,        \* ticks since a frame came in
  good,       \* frames in a row with no gap that means a loss
  once_lost,  \* the link has been lost since it was first good
  auto_age    \* refreshes in AUTO since the commands were last written

mon_vars == <<fbw_vars, gap, good, once_lost, auto_age>>

FrameCame == loop_at = "radio" /\ loop_at' = "link" /\ RadioFrame
TickCame  == tick_due /\ ~tick_due'

(* The link is lost at the tick after RC_LOST_TIME silent ones.             *)
GapIsLoss == gap >= RC_LOST_TIME

Written == \/ loop_at = "link" /\ ApMessage /\ fbw_mode' = FBW_MODE_AUTO
           \/ FrameCame /\ RcFrameAccepted /\ fbw_mode' = FBW_MODE_MANUAL
           \/ fbw_mode' = FBW_MODE_FAILSAFE

AtMost(n, max) == IF n <= max THEN n ELSE max

Observe ==
  /\ gap' = IF FrameCame THEN 0
            ELSE IF TickCame THEN AtMost(gap + 1, RC_LOST_TIME) ELSE gap
  /\ good' = IF FrameCame THEN AtMost(good + 1, RC_OK_CPT + 1)
             ELSE IF TickCame /\ GapIsLoss THEN 0 ELSE good
  /\ once_lost' = (once_lost \/ (TickCame /\ GapIsLoss /\ good > 0))
  /\ auto_age' = IF Written THEN 0
                 ELSE IF TickCame /\ fbw_mode' = FBW_MODE_AUTO
                        THEN AtMost(auto_age + 1, AP_STALLED_TIME + 1)
                        ELSE auto_age

MonInit == FbwInit /\ gap = RC_LOST_TIME /\ good = 0 /\ once_lost = FALSE
                   /\ auto_age = 0

(* FbwNext, observed.                                                       *)
MonNext ==
  \/ PollTick  /\ Observe
  \/ PollRadio /\ Observe
  \/ PollLink  /\ Observe
  \/ ClockTick /\ Observe
  \/ ApSends   /\ Observe
  \/ ApReads   /\ Observe

MonSpec == MonInit /\ [][MonNext]_mon_vars /\ FbwFairness

-----------------------------------------------------------------------------
(* A link that was lost is trusted again only after RC_OK_CPT frames in a   *)
(* row and one more, with no second loss between them (radio_ok_cpt is      *)
(* armed by the loss and re-armed by the next one).                         *)
RegainNeedsFrames ==
  [][once_lost /\ rc_status # RC_OK /\ rc_status' = RC_OK
       => good' > RC_OK_CPT]_mon_vars

(* A link whose frames come often enough is trusted again in the end, and    *)
(* for good.  Only that brings it back: frames that come just too late       *)
(* re-arm the count for ever, and just in time for it not to be REALLY_LOST. *)
LinkRegained ==
  <>[][TickCame => ~GapIsLoss]_mon_vars => <>[](rc_status = RC_OK)

(* In AUTO the servos are never refreshed more than AP_STALLED_TIME times    *)
(* from commands nobody renewed, neither the AP's own nor the sticks' that   *)
(* were left behind when MANUAL ended.                                      *)
StaleAutoBounded == auto_age <= AP_STALLED_TIME
=============================================================================
