-------------------------------- MODULE Fbw --------------------------------
(***************************************************************************)
(* The fly-by-wire process of the fixed-wing firmware (main_fbw.c): who     *)
(* has the actuators.  In MANUAL the sticks do, in AUTO the autopilot does, *)
(* in FAILSAFE nobody does and the failsafe commands are applied.           *)
(*                                                                         *)
(* The main loop (main.c) polls the 60 Hz timer, then the radio, then the   *)
(* mailbox the AP fills; "loop_at" is the poll that comes next.  The AP is   *)
(* an environment here that may talk at any moment or never: FixedWing puts *)
(* the real one in its place.                                               *)
(*                                                                         *)
(* Commands are abstracted to where they came from.                         *)
(***************************************************************************)
EXTENDS RadioControl, InterMcu

FBW_MODE_MANUAL   == "FBW_MODE_MANUAL"
FBW_MODE_AUTO     == "FBW_MODE_AUTO"
FBW_MODE_FAILSAFE == "FBW_MODE_FAILSAFE"

FbwModes == {FBW_MODE_MANUAL, FBW_MODE_AUTO, FBW_MODE_FAILSAFE}
Origins  == {"failsafe", "rc", "ap"}

VARIABLES
  fbw_mode,
  commands,     \* origin of commands[]
  actuators,    \* origin of what the servos were last given
  rc_mode,      \* radio_control.values[RADIO_MODE]
  tick_due,     \* sys_time_periodic() will return TRUE
  loop_at       \* "periodic", "radio" or "link": the next step of the loop

fbw_own  == <<fbw_mode, commands, actuators, rc_mode>>
fbw_vars == <<rc_vars, inter_mcu_vars, fbw_own, tick_due, loop_at>>

FbwTypeOK ==
  /\ RcTypeOK /\ InterMcuTypeOK
  /\ fbw_mode \in FbwModes
  /\ commands \in Origins /\ actuators \in Origins \cup {"none"}
  /\ rc_mode \in RadioModeValues \cup {0}
  /\ tick_due \in BOOLEAN
  /\ loop_at \in {"periodic", "radio", "link"}

FBW_MODE_OF_PPRZ(mode) ==
  IF mode < TRESHOLD1 THEN FBW_MODE_MANUAL ELSE FBW_MODE_AUTO

-----------------------------------------------------------------------------
(* Plausible bugs, used to show that the properties can fail.              *)

(* The actuators are refreshed before the failsafe test.                   *)
MutActuatorsFirst ==
  /\ radio_control_periodic_task
  /\ inter_mcu_periodic_task
  /\ LET unheard == fbw_mode = FBW_MODE_MANUAL /\ rc_status' = RC_REALLY_LOST
         mode == IF unheard THEN FBW_MODE_AUTO ELSE fbw_mode
         failsafe == mode = FBW_MODE_AUTO /\ ~ap_ok'
     IN  /\ fbw_mode' = IF failsafe THEN FBW_MODE_FAILSAFE ELSE mode
         /\ commands' = IF failsafe THEN "failsafe" ELSE commands
  /\ actuators' = commands
  /\ UNCHANGED <<rc_mode, inter_mcu_received_fbw, inter_mcu_received_ap,
                 fbw_state>>

(* An AP message does not lift FAILSAFE.                                   *)
MutFailsafeSticks ==
  /\ inter_mcu_received_ap' = FALSE
  /\ inter_mcu_event_task
  /\ UNCHANGED fbw_mode
  /\ commands' = IF fbw_mode = FBW_MODE_AUTO THEN "ap" ELSE commands
  /\ UNCHANGED <<fbw_state, rc_vars, actuators, rc_mode>>

-----------------------------------------------------------------------------
FbwInit ==
  /\ radio_control_init
  /\ inter_mcu_init
  /\ fbw_mode = FBW_MODE_FAILSAFE
  /\ commands = "failsafe"
  /\ actuators = "none"
  /\ rc_mode = 0
  /\ tick_due = FALSE
  /\ loop_at = "periodic"

(* inter_mcu_fill_fbw_state: what the AP is told, from the mode and radio    *)
(* as they stand after the handler.                                         *)
inter_mcu_fill_fbw_state ==
  fbw_state' = [mode_channel  |-> rc_mode',
                radio_ok      |-> rc_status' = RC_OK,
                really_lost   |-> rc_status' = RC_REALLY_LOST,
                mode_auto     |-> fbw_mode' = FBW_MODE_AUTO,
                mode_failsafe |-> fbw_mode' = FBW_MODE_FAILSAFE]

(* periodic_task_fbw: silence first demotes the sticks to AUTO, then, in    *)
(* the same tick, AUTO without an AP to FAILSAFE; the servos follow.        *)
periodic_task_fbw ==
  /\ radio_control_periodic_task
  /\ inter_mcu_periodic_task
  /\ LET unheard == fbw_mode = FBW_MODE_MANUAL /\ rc_status' = RC_REALLY_LOST
         mode == IF unheard THEN FBW_MODE_AUTO ELSE fbw_mode
         failsafe == mode = FBW_MODE_AUTO /\ ~ap_ok'
     IN  /\ fbw_mode' = IF failsafe THEN FBW_MODE_FAILSAFE ELSE mode
         /\ commands' = IF failsafe THEN "failsafe" ELSE commands
  /\ actuators' = commands'
  /\ UNCHANGED <<rc_mode, inter_mcu_received_fbw, inter_mcu_received_ap,
                 fbw_state>>

(* handle_rc_frame, with v the filtered position of the mode switch.        *)
handle_rc_frame(v) ==
  /\ rc_mode' = v
  /\ fbw_mode' = FBW_MODE_OF_PPRZ(v)
  /\ commands' = IF fbw_mode' = FBW_MODE_MANUAL THEN "rc" ELSE commands

(* event_task_fbw, radio half: a frame that is counted, or one that is      *)
(* accepted and handled.                                                    *)
RadioFrame ==
  \/ /\ RcFrameCounted
     /\ UNCHANGED <<fbw_own, inter_mcu_vars>>
  \/ /\ RcFrameAccepted
     /\ \E v \in RadioModeValues : handle_rc_frame(v)
     /\ UNCHANGED <<actuators, inter_mcu_vars>>

(* event_task_fbw, AP half: the mailbox is full.                            *)
ApMessage ==
  /\ inter_mcu_received_ap
  /\ inter_mcu_received_ap' = FALSE
  /\ UNCHANGED <<rc_vars, actuators, rc_mode>>
  /\ inter_mcu_event_task
  /\ fbw_mode' = IF fbw_mode = FBW_MODE_FAILSAFE THEN FBW_MODE_AUTO ELSE fbw_mode
  /\ commands' = IF fbw_mode' = FBW_MODE_AUTO THEN "ap" ELSE commands
  /\ inter_mcu_fill_fbw_state

-----------------------------------------------------------------------------
(* The main loop.  Each poll either finds something or goes on.             *)
PollTick ==
  /\ loop_at = "periodic" /\ loop_at' = "radio"
  /\ IF tick_due
       THEN tick_due' = FALSE /\ periodic_task_fbw
       ELSE UNCHANGED <<tick_due, rc_vars, inter_mcu_vars, fbw_own>>

PollRadio ==
  /\ loop_at = "radio" /\ loop_at' = "link"
  /\ \/ RadioFrame
     \/ UNCHANGED <<rc_vars, inter_mcu_vars, fbw_own>>
  /\ UNCHANGED tick_due

PollLink ==
  /\ loop_at = "link" /\ loop_at' = "periodic"
  /\ IF inter_mcu_received_ap
       THEN ApMessage
       ELSE UNCHANGED <<rc_vars, inter_mcu_vars, fbw_own>>
  /\ UNCHANGED tick_due

MainLoop == PollTick \/ PollRadio \/ PollLink

(* The 60 Hz timer (sys_time_periodic).                                     *)
ClockTick ==
  /\ ~tick_due /\ tick_due' = TRUE
  /\ UNCHANGED <<rc_vars, inter_mcu_vars, fbw_own, loop_at>>

(* The AP, as the FBW sees it: it fills one mailbox and empties the other.  *)
ApSends ==
  /\ inter_mcu_received_ap' = TRUE
  /\ UNCHANGED <<rc_vars, fbw_own, tick_due, loop_at, inter_mcu_received_fbw,
                 fbw_state, ap_ok, time_since_last_ap>>

ApReads ==
  /\ inter_mcu_received_fbw /\ inter_mcu_received_fbw' = FALSE
  /\ UNCHANGED <<rc_vars, fbw_own, tick_due, loop_at, inter_mcu_received_ap,
                 fbw_state, ap_ok, time_since_last_ap>>

FbwNext == MainLoop \/ ClockTick \/ ApSends \/ ApReads

(* The loop goes round and the timer keeps ticking; the radio and the AP     *)
(* promise nothing.                                                         *)
FbwFairness == WF_fbw_vars(MainLoop) /\ WF_fbw_vars(ClockTick)

FbwSafety == FbwInit /\ [][FbwNext]_fbw_vars
FbwSpec   == FbwSafety /\ FbwFairness

-----------------------------------------------------------------------------
(* Safety.                                                                  *)

(* FAILSAFE means that nobody has the aircraft: the AP is known to be       *)
(* silent and the failsafe commands are loaded, whatever mixture of radio   *)
(* frames, AP messages and ticks came before (set_failsafe_mode and the     *)
(* two ways out of FAILSAFE).                                               *)
FailsafeMeansNobody ==
  fbw_mode = FBW_MODE_FAILSAFE => ~ap_ok /\ commands = "failsafe"

(* MANUAL means that the pilot has it: the commands are the sticks' and the *)
(* radio has not been declared REALLY_LOST.                                 *)
ManualMeansPilot ==
  fbw_mode = FBW_MODE_MANUAL =>
    commands = "rc" /\ rc_status # RC_REALLY_LOST

(* No servo refresh outside MANUAL uses anything but the failsafe commands  *)
(* once the AP has been declared silent, in the very tick that declares it.  *)
SilentApNeverFlies ==
  [][PollTick /\ tick_due => \/ actuators' = "failsafe"
                             \/ ap_ok'
                             \/ fbw_mode' = FBW_MODE_MANUAL]_fbw_vars

(* The authority over the actuators moves as module Authority says.         *)
Auth == INSTANCE Authority WITH mode <- fbw_mode, cmd <- commands, ap <- ap_ok

AuthoritySpec == Auth!Spec

(* Liveness.                                                                *)

(* When radio and AP both fall silent for good, the servos end up with the  *)
(* failsafe commands and stay there: the two timeouts run one after the     *)
(* other, and neither is restarted by the other.                            *)
BothSilentFailsafe ==
  <>[][~RadioFrame /\ ~ApSends]_fbw_vars
    => <>[](fbw_mode = FBW_MODE_FAILSAFE /\ actuators = "failsafe")
=============================================================================
