----------------------------- MODULE FixedWing -----------------------------
(***************************************************************************)
(* The fixed-wing firmware on one processor: Fbw and Ap in one main loop     *)
(* (main.c), talking through the two mailboxes of inter_mcu.  The order of   *)
(* the loop is the code's: both periodic tasks in a tick, then the FBW's     *)
(* events, then the AP's.                                                   *)
(***************************************************************************)
EXTENDS Fbw, Ap

ASSUME FixedWingAssumption == CTL_PERIOD <= AP_STALLED_TIME

fw_vars == <<fbw_vars, ap_vars>>

-----------------------------------------------------------------------------
(* A plausible bug: the AP reports to the FBW only when it flies itself.     *)
MutSilentWhenManual ==
  inter_mcu_received_ap' =
    (inter_mcu_received_ap \/ (/\ ap_tick' % CTL_PERIOD = 0
                               /\ pprz_mode' \in Autonomous))

(* The AP restarts the FBW's watchdog when it sends, not when it is heard.   *)
MutApTickRestarts ==
  /\ loop_at = "periodic_ap" /\ loop_at' = "radio"
  /\ periodic_task_ap
  /\ inter_mcu_received_ap' =
       (inter_mcu_received_ap \/ ap_tick' % CTL_PERIOD = 0)
  /\ time_since_last_ap' =
       IF ap_tick' % CTL_PERIOD = 0 THEN 0 ELSE time_since_last_ap
  /\ UNCHANGED <<rc_vars, fbw_own, tick_due, inter_mcu_received_fbw,
                 fbw_state, ap_ok>>

-----------------------------------------------------------------------------
FwInit == FbwInit /\ ApInit

(* The end of the control loop: the FBW may fetch the commands.             *)
SendToFbw ==
  inter_mcu_received_ap' =
    (inter_mcu_received_ap \/ ap_tick' % CTL_PERIOD = 0)

FbwTick ==
  /\ loop_at = "periodic"
  /\ IF tick_due
       THEN tick_due' = FALSE /\ periodic_task_fbw /\ loop_at' = "periodic_ap"
       ELSE /\ loop_at' = "radio"
            /\ UNCHANGED <<tick_due, rc_vars, inter_mcu_vars, fbw_own>>
  /\ UNCHANGED ap_vars

ApTick ==
  /\ loop_at = "periodic_ap" /\ loop_at' = "radio"
  /\ periodic_task_ap
  /\ SendToFbw
  /\ UNCHANGED <<rc_vars, fbw_own, tick_due, inter_mcu_received_fbw,
                 fbw_state, ap_ok, time_since_last_ap>>

FbwRadio == PollRadio /\ UNCHANGED ap_vars

FbwLink ==
  /\ loop_at = "link" /\ loop_at' = "event_ap"
  /\ IF inter_mcu_received_ap
       THEN ApMessage
       ELSE UNCHANGED <<rc_vars, inter_mcu_vars, fbw_own>>
  /\ UNCHANGED <<tick_due, ap_vars>>

(* event_task_ap: the mailbox, if it is full.  The throttle stick is not     *)
(* kept in the model, so any position of it is considered.                  *)
ApEvent ==
  /\ loop_at = "event_ap" /\ loop_at' = "periodic"
  /\ inter_mcu_received_fbw' = FALSE
  /\ IF inter_mcu_received_fbw
       THEN \E high \in BOOLEAN :
              telecommand_task([mode_channel  |-> fbw_state.mode_channel,
                                radio_ok      |-> fbw_state.radio_ok,
                                really_lost   |-> fbw_state.really_lost,
                                throttle_high |-> high])
       ELSE UNCHANGED ap_vars
  /\ UNCHANGED <<rc_vars, fbw_own, tick_due, inter_mcu_received_ap,
                 fbw_state, ap_ok, time_since_last_ap>>

(* event_task_ap: a setting came over the datalink; the mailbox comes next.  *)
ApDatalink == loop_at = "event_ap" /\ GroundSetting /\ UNCHANGED fbw_vars

FwMainLoop == FbwTick \/ ApTick \/ FbwRadio \/ FbwLink \/ ApEvent

World == \/ ClockTick /\ UNCHANGED ap_vars
         \/ ApWorld /\ UNCHANGED fbw_vars

FwNext == FwMainLoop \/ ApDatalink \/ World

(* The loop goes round and the timer keeps ticking.                         *)
FwFairness == WF_fw_vars(FwMainLoop) /\ WF_fw_vars(ClockTick /\ UNCHANGED ap_vars)

FwSpec == FwInit /\ [][FwNext]_fw_vars /\ FwFairness

-----------------------------------------------------------------------------
(* Safety.                                                                  *)

(* On one processor the AP cannot fall silent on its own: once heard, it is  *)
(* heard again at the latest after a control period, and the FBW never       *)
(* declares it stalled (the prescalers of periodic_task_ap against           *)
(* inter_mcu_periodic_task).                                                *)
ApNeverStalls ==
  [][ap_ok => ap_ok' /\ time_since_last_ap' <= CTL_PERIOD]_fw_vars

(* The firmware implements the FBW with an arbitrary AP: what is checked and *)
(* proved of Fbw holds of the whole.                                        *)
FbwLoopAt == CASE loop_at = "periodic_ap" -> "radio"
               [] loop_at = "event_ap"    -> "periodic"
               [] OTHER                   -> loop_at

F == INSTANCE Fbw WITH loop_at <- FbwLoopAt

FbwImplemented == F!FbwSpec

(* Liveness.                                                                *)

(* A launched aircraft whose radio is lost for good ends up under its        *)
(* autopilot on both sides: the FBW obeys the AP, and the AP is in a mode    *)
(* that flies by itself.                                                    *)
LostPilotFliesHome ==
  <>[](launch /\ rc_status = RC_REALLY_LOST)
    => <>[](fbw_mode = FBW_MODE_AUTO /\ pprz_mode \in Autonomous)

(* When the radio is good and the switch stays where it is, FBW and AP agree *)
(* for good on whether the pilot flies, unless a failsafe mode has the AP    *)
(* (two thresholds in two files decide it: main_fbw.h and autopilot.h).      *)
SwitchAgreed ==
  <>[](rc_status = RC_OK) /\ <>[][UNCHANGED rc_mode]_rc_mode
    /\ []<><<RadioFrame>>_fw_vars
    => <>[](pprz_mode \in SwitchModes =>
              (fbw_mode = FBW_MODE_MANUAL <=> pprz_mode = PPRZ_MODE_MANUAL))
=============================================================================
