------------------------------ MODULE InterMcu ------------------------------
(***************************************************************************)
(* inter_mcu.h: the data the fly-by-wire (FBW) process and the autopilot    *)
(* (AP) process of the fixed-wing firmware share, in the single-MCU build   *)
(* where both run in one main loop and exchange two buffers and two flags.  *)
(***************************************************************************)
EXTENDS Channels

CONSTANT AP_STALLED_TIME  \* ticks without an AP message before !ap_ok (30)

ASSUME ApStalledAssumption == AP_STALLED_TIME \in Nat

VARIABLES
  inter_mcu_received_fbw,  \* fbw_state holds something new for the AP
  inter_mcu_received_ap,   \* ap_state holds something new for the FBW
  fbw_state,               \* what the FBW last told the AP
  ap_ok,                   \* FBW: the AP is alive
  time_since_last_ap       \* FBW: ticks since the AP was last heard

inter_mcu_vars == <<inter_mcu_received_fbw, inter_mcu_received_ap, fbw_state,
                    ap_ok, time_since_last_ap>>

(* fbw_state.status is a byte of flags; the ones the AP reads are the two   *)
(* radio flags and the two mode flags.  AVERAGED_CHANNELS_SENT is set        *)
(* exactly when STATUS_RADIO_OK is, so the model keeps one of them.          *)
FbwState == [mode_channel : RadioModeValues \cup {0},
             radio_ok : BOOLEAN, really_lost : BOOLEAN,
             mode_auto : BOOLEAN, mode_failsafe : BOOLEAN]

InterMcuTypeOK ==
  /\ inter_mcu_received_fbw \in BOOLEAN
  /\ inter_mcu_received_ap \in BOOLEAN
  /\ fbw_state \in FbwState
  /\ ap_ok \in BOOLEAN
  /\ time_since_last_ap \in 0 .. AP_STALLED_TIME

-----------------------------------------------------------------------------
(* Plausible bugs, used to show that the properties can fail.              *)

(* The counter keeps running but the verdict is never drawn.               *)
MutStalledIgnored ==
  /\ time_since_last_ap' = IF time_since_last_ap >= AP_STALLED_TIME
                             THEN time_since_last_ap ELSE time_since_last_ap + 1
  /\ UNCHANGED ap_ok

-----------------------------------------------------------------------------
(* The zero-initialised globals, and inter_mcu_init.                        *)
inter_mcu_init ==
  /\ inter_mcu_received_fbw = FALSE
  /\ inter_mcu_received_ap = FALSE
  /\ fbw_state = [mode_channel |-> 0, radio_ok |-> FALSE,
                  really_lost |-> FALSE, mode_auto |-> FALSE,
                  mode_failsafe |-> FALSE]
  /\ ap_ok = FALSE
  /\ time_since_last_ap = 0

(* The AP is alive; in the single-MCU build the AP is told to read          *)
(* fbw_state in the same breath.                                            *)
inter_mcu_event_task ==
  /\ time_since_last_ap' = 0
  /\ ap_ok' = TRUE
  /\ inter_mcu_received_fbw' = TRUE

(* One tick without hearing the AP.                                         *)
inter_mcu_periodic_task ==
  IF time_since_last_ap >= AP_STALLED_TIME
    THEN ap_ok' = FALSE /\ UNCHANGED time_since_last_ap
    ELSE time_since_last_ap' = time_since_last_ap + 1 /\ UNCHANGED ap_ok

=============================================================================
