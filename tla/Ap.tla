--------------------------------- MODULE Ap ---------------------------------
(***************************************************************************)
(* The autopilot process of the fixed-wing firmware (main_ap.c): the         *)
(* pprz_mode automaton, the launch and kill_throttle latches, the GPS        *)
(* failsafe, and the throttle that goes to the FBW.                          *)
(*                                                                         *)
(* One 60 Hz tick runs, in this order, the 1 Hz safety checks, the 4 Hz      *)
(* navigation or the take-off detection, and the control loop; messages     *)
(* from the FBW (telecommand_task) and settings from the ground come        *)
(* between ticks.  A throttle is abstracted to who chose it, a position to  *)
(* how far from HOME it is, and GPS_FAILSAFE (FAILSAFE_DELAY_WITHOUT_GPS     *)
(* defined) is taken as on.                                                 *)
(***************************************************************************)
EXTENDS Channels

CONSTANTS
  UNLOCKED_HOME_MODE,   \* build flag: the pilot may leave HOME
  RC_LOST_MODE,         \* build flag: the mode when the radio is really lost
  CTL_PERIOD,           \* ticks between two control loops      (3 in the code)
  NAV_PERIOD,           \* ticks between two navigation tasks  (15 in the code)
  SEC_PERIOD,           \* ticks in a second                   (60 in the code)
  LOW_BATTERY_DELAY,    \* seconds of low battery before the kill           (5)
  BATTERY_WRAP,         \* the low battery counter is a byte              (256)
  GroundSettings,       \* settings the ground may send: see GroundSetting
  FlightPlan            \* what the flight plan sets: see navigation_task

PPRZ_MODE_MANUAL == "MANUAL"
PPRZ_MODE_AUTO1  == "AUTO1"
PPRZ_MODE_AUTO2  == "AUTO2"
PPRZ_MODE_HOME   == "HOME"
PPRZ_MODE_GPS_OUT_OF_ORDER == "GPS_OUT_OF_ORDER"

SwitchModes == {PPRZ_MODE_MANUAL, PPRZ_MODE_AUTO1, PPRZ_MODE_AUTO2}
Failsafes   == {PPRZ_MODE_HOME, PPRZ_MODE_GPS_OUT_OF_ORDER}
PprzModes   == SwitchModes \cup Failsafes
Autonomous  == {PPRZ_MODE_AUTO2} \cup Failsafes

ASSUME ApAssumption ==
  /\ UNLOCKED_HOME_MODE \in BOOLEAN
  /\ RC_LOST_MODE \in {PPRZ_MODE_HOME, PPRZ_MODE_AUTO2}
  /\ CTL_PERIOD \in Nat \ {0}
  /\ NAV_PERIOD \in Nat \ {0, 1} /\ NAV_PERIOD % CTL_PERIOD = 0
  /\ SEC_PERIOD \in Nat \ {0} /\ SEC_PERIOD % NAV_PERIOD = 0
  /\ LOW_BATTERY_DELAY \in Nat /\ BATTERY_WRAP \in Nat
  /\ LOW_BATTERY_DELAY < BATTERY_WRAP
  /\ GroundSettings \subseteq {"mode", "launch", "kill", "reset"}
  /\ FlightPlan \subseteq {"kill", "resurrect", "reset"}

Throttles == {"zero", "radio", "nav"}
Positions == {"near", "far", "gone"}   \* past MAX_DIST, past KILL_MODE_DISTANCE

VARIABLES
  pprz_mode, launch, kill_throttle,
  gps_lost, last_pprz_mode,  \* of navigation_task
  estimator_flight_time,     \* # 0: the take-off has been detected
  home_dist,                 \* dist2_to_home, when last computed
  low_battery,               \* the static t of periodic_task_ap
  v_ctl_throttle_setpoint,
  throttle,                  \* ap_state->commands[COMMAND_THROTTLE]
  ap_tick,                   \* the prescalers
  gps_timeout, position      \* the world: GpsTimeoutError, where we are

ap_modes == <<pprz_mode, launch, kill_throttle, gps_lost, last_pprz_mode,
              estimator_flight_time>>

ap_world == <<gps_timeout, position>>
ap_vars  == <<ap_modes, home_dist, low_battery, v_ctl_throttle_setpoint,
              throttle, ap_tick, ap_world>>

ApTypeOK ==
  /\ pprz_mode \in PprzModes /\ last_pprz_mode \in PprzModes
  /\ launch \in BOOLEAN /\ kill_throttle \in BOOLEAN /\ gps_lost \in BOOLEAN
  /\ estimator_flight_time \in BOOLEAN /\ gps_timeout \in BOOLEAN
  /\ home_dist \in Positions /\ position \in Positions
  /\ low_battery \in 0 .. BATTERY_WRAP - 1
  /\ v_ctl_throttle_setpoint \in Throttles /\ throttle \in Throttles
  /\ ap_tick \in 0 .. SEC_PERIOD - 1

too_far_from_home == home_dist # "near"

(* What the FBW tells (struct fbw_state); the two radio flags exclude each  *)
(* other, and throttle_high is RADIO_THROTTLE > THROTTLE_THRESHOLD_TAKEOFF.  *)
Telecommands ==
  {s \in [mode_channel : RadioModeValues \cup {0}, radio_ok : BOOLEAN,
          really_lost : BOOLEAN, throttle_high : BOOLEAN] :
     ~(s.radio_ok /\ s.really_lost)}

-----------------------------------------------------------------------------
(* Plausible bugs, used to show that the properties can fail.              *)

(* The radio that is really lost goes unnoticed in AUTO1.                   *)
MutLostNotInAuto1(s) ==
  IF pprz_mode \in Failsafes \/ ~launch THEN pprz_mode
  ELSE IF s.really_lost /\ pprz_mode = PPRZ_MODE_MANUAL THEN RC_LOST_MODE
  ELSE IF too_far_from_home THEN PPRZ_MODE_HOME
  ELSE pprz_mode

(* MANUAL and AUTO1 are cut at the wrong threshold.                         *)
MutSwitchCut(pprz) ==
  IF pprz > TRESHOLD2 THEN PPRZ_MODE_AUTO2 ELSE PPRZ_MODE_MANUAL

(* The GPS comes back, but its loss is not forgotten.                       *)
MutGpsLossKept ==
  \/ /\ launch /\ gps_timeout
     /\ pprz_mode \in {PPRZ_MODE_AUTO2, PPRZ_MODE_HOME}
     /\ last_pprz_mode' = pprz_mode
     /\ pprz_mode' = PPRZ_MODE_GPS_OUT_OF_ORDER
     /\ gps_lost' = TRUE
  \/ /\ launch /\ ~gps_timeout /\ gps_lost
     /\ pprz_mode' = last_pprz_mode
     /\ UNCHANGED <<gps_lost, last_pprz_mode>>
  \/ /\ ~launch \/ IF gps_timeout
                     THEN pprz_mode \notin {PPRZ_MODE_AUTO2, PPRZ_MODE_HOME}
                     ELSE ~gps_lost
     /\ UNCHANGED <<pprz_mode, last_pprz_mode, gps_lost>>

(* The mode is saved again while the failsafe already has it.               *)
MutModeSavedAgain ==
  \/ /\ launch /\ gps_timeout /\ pprz_mode \in Autonomous
     /\ last_pprz_mode' = pprz_mode
     /\ pprz_mode' = PPRZ_MODE_GPS_OUT_OF_ORDER
     /\ gps_lost' = TRUE
  \/ /\ launch /\ ~gps_timeout /\ gps_lost
     /\ pprz_mode' = last_pprz_mode
     /\ gps_lost' = FALSE
     /\ UNCHANGED last_pprz_mode
  \/ /\ ~launch \/ (IF gps_timeout THEN pprz_mode \notin Autonomous
                                   ELSE ~gps_lost)
     /\ UNCHANGED <<pprz_mode, last_pprz_mode, gps_lost>>

(* The distance check spares the pilot's modes.                             *)
MutTooFarOnlyInAuto2(s) ==
  IF pprz_mode \in Failsafes \/ ~launch THEN pprz_mode
  ELSE IF s.really_lost /\ pprz_mode \in {PPRZ_MODE_AUTO1, PPRZ_MODE_MANUAL}
         THEN RC_LOST_MODE
  ELSE IF too_far_from_home /\ pprz_mode = PPRZ_MODE_AUTO2
         THEN PPRZ_MODE_HOME
  ELSE pprz_mode

(* The throttle is cut by the kill switch but not before the launch.        *)
MutThrottleOnGround(killed) ==
  IF pprz_mode' \notin Autonomous
    THEN UNCHANGED v_ctl_throttle_setpoint
    ELSE IF killed
      THEN v_ctl_throttle_setpoint' = "zero"
      ELSE v_ctl_throttle_setpoint' \in {"nav"} \cup
             (IF pprz_mode' = PPRZ_MODE_AUTO2
                THEN {v_ctl_throttle_setpoint} ELSE {})

(* The distance kills on the way out of GPS_OUT_OF_ORDER only.              *)
MutDistanceNotKilling(checked) ==
  kill_throttle \/ (checked /\ low_battery' >= LOW_BATTERY_DELAY)

-----------------------------------------------------------------------------
ApInit ==
  /\ pprz_mode = PPRZ_MODE_AUTO2
  /\ last_pprz_mode = PPRZ_MODE_MANUAL
  /\ launch = FALSE /\ kill_throttle = FALSE /\ gps_lost = FALSE
  /\ estimator_flight_time = FALSE
  /\ home_dist = "near"
  /\ low_battery = 0
  /\ v_ctl_throttle_setpoint = "zero" /\ throttle = "zero"
  /\ ap_tick = 0
  /\ gps_timeout \in BOOLEAN /\ position = "near"

(* The three positions of the mode switch.                                  *)
PPRZ_MODE_OF_PULSE(pprz) ==
  IF pprz > TRESHOLD2 THEN PPRZ_MODE_AUTO2
  ELSE IF pprz > TRESHOLD1 THEN PPRZ_MODE_AUTO1 ELSE PPRZ_MODE_MANUAL

(* telecommand_task, first half: too far or radio lost, when launched.      *)
ModeAfterChecks(s) ==
  IF pprz_mode \in Failsafes \/ ~launch THEN pprz_mode
  ELSE IF s.really_lost /\ pprz_mode \in {PPRZ_MODE_AUTO1, PPRZ_MODE_MANUAL}
         THEN RC_LOST_MODE
  ELSE IF too_far_from_home THEN PPRZ_MODE_HOME
  ELSE pprz_mode

(* pprz_mode_update: the switch, unless a failsafe mode locks it out.       *)
pprz_mode_update(mode, s) ==
  IF s.radio_ok /\ (UNLOCKED_HOME_MODE \/ mode \notin Failsafes)
    THEN PPRZ_MODE_OF_PULSE(s.mode_channel) ELSE mode

telecommand_task(s) ==
  /\ pprz_mode' = pprz_mode_update(ModeAfterChecks(s), s)
  /\ v_ctl_throttle_setpoint' =
       IF pprz_mode' \in {PPRZ_MODE_MANUAL, PPRZ_MODE_AUTO1}
         THEN "radio" ELSE v_ctl_throttle_setpoint
  /\ launch' = (launch \/ (/\ ~estimator_flight_time
                           /\ pprz_mode' = PPRZ_MODE_AUTO2
                           /\ s.throttle_high))
  /\ UNCHANGED <<kill_throttle, gps_lost, last_pprz_mode,
                 estimator_flight_time, home_dist, low_battery, throttle,
                 ap_tick, ap_world>>

(* navigation_task, GPS failsafe: it takes the modes that need a position,  *)
(* and gives the mode back when the GPS returns.                            *)
GpsFailsafe ==
  \/ /\ launch /\ gps_timeout
     /\ pprz_mode \in {PPRZ_MODE_AUTO2, PPRZ_MODE_HOME}
     /\ last_pprz_mode' = pprz_mode
     /\ pprz_mode' = PPRZ_MODE_GPS_OUT_OF_ORDER
     /\ gps_lost' = TRUE
  \/ /\ launch /\ ~gps_timeout /\ gps_lost
     /\ pprz_mode' = last_pprz_mode
     /\ gps_lost' = FALSE
     /\ UNCHANGED last_pprz_mode
  \/ /\ ~launch \/ IF gps_timeout
                     THEN pprz_mode \notin {PPRZ_MODE_AUTO2, PPRZ_MODE_HOME}
                     ELSE ~gps_lost
     /\ UNCHANGED <<pprz_mode, last_pprz_mode, gps_lost>>

(* The throttle of the autonomous modes, at the end of navigation_task; a    *)
(* flight plan may leave it alone.                                          *)
NavThrottle(killed) ==
  IF pprz_mode' \notin Autonomous
    THEN UNCHANGED v_ctl_throttle_setpoint
    ELSE IF killed \/ (~estimator_flight_time' /\ ~launch)
      THEN v_ctl_throttle_setpoint' = "zero"
      ELSE v_ctl_throttle_setpoint' \in {"nav"} \cup
             (IF pprz_mode' = PPRZ_MODE_AUTO2
                THEN {v_ctl_throttle_setpoint} ELSE {})

(* navigation_task: nav_home, nav_without_gps or nav_periodic_task, whose    *)
(* flight plan may set kill_throttle ("kill", "resurrect") and clear         *)
(* estimator_flight_time ("reset").  "killed" is kill_throttle as the 1 Hz   *)
(* checks leave it.                                                         *)
navigation_task(killed) ==
  /\ GpsFailsafe
  /\ LET plan == IF pprz_mode' \in Failsafes THEN {} ELSE FlightPlan
     IN  /\ \/ kill_throttle' = killed
            \/ "kill" \in plan /\ kill_throttle' = TRUE
            \/ "resurrect" \in plan /\ kill_throttle' = FALSE
         /\ \/ UNCHANGED estimator_flight_time
            \/ "reset" \in plan /\ estimator_flight_time' = FALSE
  /\ home_dist' = IF pprz_mode' = PPRZ_MODE_GPS_OUT_OF_ORDER
                    THEN home_dist ELSE position
  /\ NavThrottle(kill_throttle')
  /\ UNCHANGED launch

(* The ground speed passes MIN_SPEED_FOR_TAKEOFF, or does not.              *)
TakeoffDetection ==
  \/ /\ ~estimator_flight_time
     /\ estimator_flight_time' = TRUE /\ launch' = TRUE
  \/ UNCHANGED <<estimator_flight_time, launch>>

(* periodic_task_ap, the prescalers and the 1 Hz checks: "checked" says that *)
(* this tick makes them.                                                    *)
NextTick == ap_tick' = (ap_tick + 1) % SEC_PERIOD

Killed(checked) ==
  \/ kill_throttle
  \/ checked /\ \/ low_battery' >= LOW_BATTERY_DELAY
                \/ launch /\ home_dist = "gone"

periodic_task_ap ==
  /\ NextTick
  /\ IF ap_tick' = 0
       THEN low_battery' \in {0, (low_battery + 1) % BATTERY_WRAP}
       ELSE UNCHANGED low_battery
  /\ LET killed == Killed(ap_tick' = 0)
     IN  IF ap_tick' % NAV_PERIOD = 0
           THEN navigation_task(killed)
           ELSE /\ kill_throttle' = killed
                /\ IF ap_tick' % NAV_PERIOD = 1
                     THEN TakeoffDetection
                     ELSE UNCHANGED <<estimator_flight_time, launch>>
                /\ UNCHANGED <<pprz_mode, last_pprz_mode, gps_lost, home_dist,
                               v_ctl_throttle_setpoint>>
  /\ throttle' = IF ap_tick' % CTL_PERIOD = 0
                   THEN v_ctl_throttle_setpoint' ELSE throttle
  /\ UNCHANGED ap_world

(* A setting from the ground station (dl_parse_msg, conf/settings).         *)
GroundSetting ==
  /\ \/ /\ "mode" \in GroundSettings
        /\ pprz_mode' \in SwitchModes
        /\ UNCHANGED <<launch, kill_throttle, estimator_flight_time>>
     \/ /\ "launch" \in GroundSettings
        /\ launch' \in BOOLEAN
        /\ UNCHANGED <<pprz_mode, kill_throttle, estimator_flight_time>>
     \/ /\ "kill" \in GroundSettings
        /\ kill_throttle' \in BOOLEAN
        /\ UNCHANGED <<pprz_mode, launch, estimator_flight_time>>
     \/ /\ "reset" \in GroundSettings
        /\ estimator_flight_time' = FALSE /\ launch' = FALSE
        /\ UNCHANGED <<pprz_mode, kill_throttle>>
  /\ UNCHANGED <<gps_lost, last_pprz_mode, home_dist, low_battery,
                 v_ctl_throttle_setpoint, throttle, ap_tick, ap_world>>

(* The aircraft moves by one ring at a time, the GPS comes and goes.        *)
Neighbours(p) == IF p = "far" THEN {"near", "gone"} ELSE {"far"}

ApWorld ==
  /\ \/ gps_timeout' = ~gps_timeout /\ UNCHANGED position
     \/ position' \in Neighbours(position) /\ UNCHANGED gps_timeout
  /\ UNCHANGED <<ap_modes, home_dist, low_battery, v_ctl_throttle_setpoint,
                 throttle, ap_tick>>

Telecommand == \E s \in Telecommands : telecommand_task(s)

ApNext == periodic_task_ap \/ Telecommand \/ GroundSetting \/ ApWorld

(* The main loop serves every tick; with an FBW that is served too, messages *)
(* keep coming.                                                             *)
ApFairness == WF_ap_vars(periodic_task_ap) /\ WF_ap_vars(Telecommand)

ApSafety == ApInit /\ [][ApNext]_ap_vars
ApSpec   == ApSafety /\ ApFairness

-----------------------------------------------------------------------------
(* Safety.                                                                  *)

(* Whoever finds the aircraft in GPS_OUT_OF_ORDER can bring it back: the     *)
(* loss is on record, and so is an autonomous mode to return to             *)
(* (navigation_task, whatever the ground changes meanwhile).                *)
OutOfOrderIsSaved ==
  pprz_mode = PPRZ_MODE_GPS_OUT_OF_ORDER =>
    gps_lost /\ last_pprz_mode \in {PPRZ_MODE_AUTO2, PPRZ_MODE_HOME}

(* In a build that locks HOME, and with no mode setting from the ground,     *)
(* HOME is for ever: no detour over a GPS loss gives the aircraft back to    *)
(* the switch (pprz_mode_update, and the mode navigation_task restores).    *)
HomeIsForever ==
  [](pprz_mode = PPRZ_MODE_HOME => [](pprz_mode \in Failsafes))

(* main_ap.c:280, "If aircraft was in failsafe mode, come back in previous   *)
(* mode": the return of the GPS changes the mode only of an aircraft that    *)
(* was in the GPS failsafe mode.                                            *)
GpsReturnOnlyFromFailsafe ==
  [][gps_lost /\ ~gps_lost' /\ pprz_mode' # pprz_mode
       => pprz_mode = PPRZ_MODE_GPS_OUT_OF_ORDER]_ap_vars

(* Liveness.                                                                *)

(* A launched aircraft whose GPS is back for good leaves GPS_OUT_OF_ORDER    *)
(* for good.                                                                *)
GpsReturns ==
  <>[](launch /\ ~gps_timeout) => <>[](pprz_mode # PPRZ_MODE_GPS_OUT_OF_ORDER)

(* In a build that locks HOME, a launched aircraft that stays too far away   *)
(* with a GPS that works ends up in HOME, whatever the pilot and the GPS     *)
(* did before.                                                              *)
TooFarGoesHome ==
  <>[](launch /\ ~gps_timeout /\ position # "near")
    => <>[](pprz_mode = PPRZ_MODE_HOME)
=============================================================================
