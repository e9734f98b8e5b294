----------------------------- MODULE Rotorcraft -----------------------------
(***************************************************************************)
(* The rotorcraft firmware's autopilot (autopilot.c, main.c, and the mode    *)
(* switches of guidance_h.c and guidance_v.c): the mode automaton, arming    *)
(* and disarming the motors with the sticks, the in-flight detection, and   *)
(* the failsafes on a lost radio or GPS.                                    *)
(*                                                                         *)
(* Between two periodic tasks the main loop polls its events many times, so  *)
(* radio frames, settings and accelerometer spikes are actions of their own *)
(* in any order.  A radio frame is abstracted to what the code tests: the   *)
(* third the switch is in, the kill switch, and two stick positions.        *)
(***************************************************************************)
EXTENDS RadioControl

CONSTANTS
  MODE_MANUAL, MODE_AUTO1, MODE_AUTO2,  \* airframe: modes of the switch
  Auto2Modes,                  \* what the ground may make of MODE_AUTO2
  AUTOPILOT_MOTOR_ON_TIME,     \* frames in the corner to arm, to disarm (40)
  AUTOPILOT_IN_FLIGHT_TIME,    \* frames to detect flight and landing   (40)
  RC_PRESCALE,                 \* periodic tasks per radio task         (10)
  KILL_AS_FAILSAFE, FAILSAFE_GROUND_DETECT, RADIO_KILL_SWITCH,
  USE_GPS,                     \* build flags
  GroundSwitches,              \* settings the ground may send: "kill", "rc"
  FlightPlan                   \* the flight plan's calls, see main_periodic

AP_MODE_FAILSAFE          == "FAILSAFE"
AP_MODE_KILL              == "KILL"
AP_MODE_RATE_DIRECT       == "RATE_DIRECT"
AP_MODE_ATTITUDE_DIRECT   == "ATTITUDE_DIRECT"
AP_MODE_RATE_RC_CLIMB     == "RATE_RC_CLIMB"
AP_MODE_ATTITUDE_RC_CLIMB == "ATTITUDE_RC_CLIMB"
AP_MODE_ATTITUDE_CLIMB    == "ATTITUDE_CLIMB"
AP_MODE_RATE_Z_HOLD       == "RATE_Z_HOLD"
AP_MODE_ATTITUDE_Z_HOLD   == "ATTITUDE_Z_HOLD"
AP_MODE_HOVER_DIRECT      == "HOVER_DIRECT"
AP_MODE_HOVER_CLIMB       == "HOVER_CLIMB"
AP_MODE_HOVER_Z_HOLD      == "HOVER_Z_HOLD"
AP_MODE_NAV               == "NAV"

RateModes     == {AP_MODE_RATE_DIRECT, AP_MODE_RATE_Z_HOLD}
AttitudeModes == {AP_MODE_ATTITUDE_DIRECT, AP_MODE_ATTITUDE_CLIMB,
                  AP_MODE_ATTITUDE_Z_HOLD}

HoverModes    == {AP_MODE_HOVER_DIRECT, AP_MODE_HOVER_CLIMB,
                  AP_MODE_HOVER_Z_HOLD}

RcClimbModes  == {AP_MODE_RATE_RC_CLIMB, AP_MODE_ATTITUDE_RC_CLIMB}
ApModes == {AP_MODE_FAILSAFE, AP_MODE_KILL, AP_MODE_NAV}
             \cup RateModes \cup AttitudeModes \cup HoverModes \cup RcClimbModes

HModes == {"H_KILL", "H_RATE", "H_ATTITUDE", "H_HOVER", "H_NAV"}
VModes == {"V_KILL", "V_RC_DIRECT", "V_RC_CLIMB", "V_CLIMB", "V_HOVER", "V_NAV"}

ASSUME RotorcraftAssumption ==
  /\ {MODE_MANUAL, MODE_AUTO1, MODE_AUTO2} \cup Auto2Modes \subseteq ApModes
  /\ AUTOPILOT_MOTOR_ON_TIME \in Nat \ {0}
  /\ AUTOPILOT_IN_FLIGHT_TIME \in Nat \ {0}
  /\ RC_PRESCALE \in Nat \ {0}
  /\ KILL_AS_FAILSAFE \in BOOLEAN /\ FAILSAFE_GROUND_DETECT \in BOOLEAN
  /\ RADIO_KILL_SWITCH \in BOOLEAN /\ USE_GPS \in BOOLEAN
  /\ GroundSwitches \subseteq {"kill", "rc"}
  /\ FlightPlan \subseteq {"kill", "resurrect", "start_detect", "detect"}

VARIABLES
  autopilot_mode, guidance_h_mode, guidance_v_mode,
  autopilot_motors_on, autopilot_motors_on_counter,
  autopilot_in_flight, autopilot_in_flight_counter,
  autopilot_mode_auto2, autopilot_rc,
  autopilot_detect_ground, autopilot_detect_ground_once,
  actuators,      \* "zero", "failsafe", or the vertical law behind the thrust
  rc_prescale,    \* PeriodicPrescaleBy10
  gps_is_lost     \* the world: GpsIsLost()

mode_vars   == <<autopilot_mode, guidance_h_mode, guidance_v_mode>>
count_vars  == <<autopilot_motors_on_counter, autopilot_in_flight,
                 autopilot_in_flight_counter>>

ground_vars == <<autopilot_detect_ground, autopilot_detect_ground_once>>
set_vars    == <<autopilot_mode_auto2, autopilot_rc>>
out_vars    == <<actuators, rc_prescale>>
rotor_vars  == <<rc_vars, mode_vars, autopilot_motors_on, count_vars,
                 ground_vars, set_vars, out_vars, gps_is_lost>>

RotorTypeOK ==
  /\ RcTypeOK
  /\ autopilot_mode \in ApModes
  /\ guidance_h_mode \in HModes /\ guidance_v_mode \in VModes
  /\ autopilot_motors_on \in BOOLEAN
  /\ autopilot_motors_on_counter \in 0 .. AUTOPILOT_MOTOR_ON_TIME
  /\ autopilot_in_flight \in BOOLEAN
  /\ autopilot_in_flight_counter \in 0 .. AUTOPILOT_IN_FLIGHT_TIME
  /\ autopilot_mode_auto2 \in ApModes /\ autopilot_rc \in BOOLEAN
  /\ autopilot_detect_ground \in BOOLEAN
  /\ autopilot_detect_ground_once \in BOOLEAN
  /\ actuators \in {"zero", "failsafe"} \cup VModes
  /\ rc_prescale \in 0 .. RC_PRESCALE - 1
  /\ gps_is_lost \in BOOLEAN

-----------------------------------------------------------------------------
(* autopilot_set_mode, as a function of what it changes.                    *)

Modes == [mode |-> autopilot_mode, h |-> guidance_h_mode,
          v |-> guidance_v_mode, motors |-> autopilot_motors_on]

Become(st) ==
  /\ autopilot_mode' = st.mode
  /\ guidance_h_mode' = st.h
  /\ guidance_v_mode' = st.v
  /\ autopilot_motors_on' = st.motors

(* FAILSAFE keeps the attitude level and descends, unless the airframe says  *)
(* KILL_AS_FAILSAFE.                                                        *)
Kills(mode) == mode = AP_MODE_KILL \/ (mode = AP_MODE_FAILSAFE /\ KILL_AS_FAILSAFE)

(* The horizontal switch: it has no case for the two RC_CLIMB modes, which   *)
(* keep the law h that was there.                                           *)
HModeOf(mode, h) ==
  CASE Kills(mode)                                             -> "H_KILL"
    [] mode \in RateModes                                      -> "H_RATE"
    [] mode \in AttitudeModes                                  -> "H_ATTITUDE"
    [] mode = AP_MODE_FAILSAFE /\ ~KILL_AS_FAILSAFE            -> "H_ATTITUDE"
    [] mode \in HoverModes                                     -> "H_HOVER"
    [] mode = AP_MODE_NAV                                      -> "H_NAV"
    [] mode \in RcClimbModes                                   -> h

(* The vertical switch.                                                     *)
VModeOf(mode) ==
  CASE Kills(mode)                                             -> "V_KILL"
    [] mode = AP_MODE_FAILSAFE /\ ~KILL_AS_FAILSAFE            -> "V_CLIMB"
    [] mode \in {AP_MODE_RATE_DIRECT, AP_MODE_ATTITUDE_DIRECT,
                 AP_MODE_HOVER_DIRECT}                         -> "V_RC_DIRECT"
    [] mode \in RcClimbModes                                   -> "V_RC_CLIMB"
    [] mode \in {AP_MODE_ATTITUDE_CLIMB, AP_MODE_HOVER_CLIMB}  -> "V_CLIMB"
    [] mode \in {AP_MODE_RATE_Z_HOLD, AP_MODE_ATTITUDE_Z_HOLD,
                 AP_MODE_HOVER_Z_HOLD}                         -> "V_HOVER"
    [] mode = AP_MODE_NAV                                      -> "V_NAV"

(* One count towards a limit, and one count back towards zero.              *)
Up(n, limit) == IF n < limit THEN n + 1 ELSE n
Down(n)      == IF n > 0 THEN n - 1 ELSE n

(* Plausible bugs, used to show that the properties can fail.              *)

(* The vertical switch has no case for FAILSAFE.                            *)
MutSetModeKeepsV(st, mode) ==
  IF mode = st.mode THEN st
  ELSE [mode |-> mode, h |-> HModeOf(mode, st.h),
        v |-> IF mode = AP_MODE_FAILSAFE THEN st.v ELSE VModeOf(mode),
        motors |-> st.motors /\ ~Kills(mode)]

(* KILL stops the control laws but not the motors.                          *)
MutSetModeKillSpins(st, mode) ==
  IF mode = st.mode THEN st
  ELSE [mode |-> mode, h |-> HModeOf(mode, st.h), v |-> VModeOf(mode),
        motors |-> st.motors /\ mode # AP_MODE_FAILSAFE]

(* The ground only counts when no flight is detected.                       *)
MutLandedOnlyOnGround(call) ==
  /\ FAILSAFE_GROUND_DETECT /\ ~autopilot_in_flight
  /\ autopilot_mode = AP_MODE_FAILSAFE
  /\ autopilot_detect_ground /\ call # "detect"

(* A lost radio is only looked at when the mode flies by the sticks.        *)
MutRadioFailsafe(st) ==
  IF rc_status' # RC_OK /\ st.mode \in RateModes \cup AttitudeModes
    THEN AP_MODE_FAILSAFE ELSE st.mode

(* The GPS is not looked at.                                                *)
MutGpsFailsafeOff(st) == st.mode

(* Frames out of the corner do not clear the arming counter.                *)
MutArmNoReset(on, corner) ==
  CASE on /\ corner   -> Down(autopilot_motors_on_counter)
    [] on /\ ~corner  -> AUTOPILOT_MOTOR_ON_TIME
    [] ~on /\ corner  -> Up(autopilot_motors_on_counter, AUTOPILOT_MOTOR_ON_TIME)
    [] ~on /\ ~corner -> autopilot_motors_on_counter

(* The flight counter runs although the motors are off.                     *)
MutFlightWithoutMotors(on, down) ==
  IF autopilot_in_flight
    THEN IF down THEN Down(autopilot_in_flight_counter)
                 ELSE AUTOPILOT_IN_FLIGHT_TIME
    ELSE IF down THEN 0
                 ELSE Up(autopilot_in_flight_counter, AUTOPILOT_IN_FLIGHT_TIME)
-----------------------------------------------------------------------------

autopilot_set_mode(st, mode) ==
  IF mode = st.mode THEN st
  ELSE [mode |-> mode, h |-> HModeOf(mode, st.h), v |-> VModeOf(mode),
        motors |-> st.motors /\ ~Kills(mode)]

autopilot_init ==
  /\ autopilot_mode = AP_MODE_KILL
  /\ guidance_h_mode = "H_KILL" /\ guidance_v_mode = "V_KILL"
  /\ autopilot_motors_on = FALSE
  /\ autopilot_motors_on_counter = 0
  /\ autopilot_in_flight = FALSE /\ autopilot_in_flight_counter = 0
  /\ autopilot_mode_auto2 = MODE_AUTO2 /\ autopilot_rc = TRUE
  /\ autopilot_detect_ground = FALSE /\ autopilot_detect_ground_once = FALSE

RotorInit ==
  /\ radio_control_init
  /\ autopilot_init
  /\ actuators = "zero" /\ rc_prescale = 0
  /\ gps_is_lost \in BOOLEAN

-----------------------------------------------------------------------------
(* main_periodic                                                            *)

(* nav_periodic_task runs the flight plan in every mode.  Its calls that     *)
(* reach the autopilot, per block (FlightPlan names those the plan holds):   *)
(* NavKillThrottle and NavResurrect, which look at the mode,                *)
(* NavStartDetectGround, and the exception on NavDetectGround, which clears  *)
(* what it reads.                                                           *)
NavMotors(call) ==
  CASE autopilot_mode = AP_MODE_NAV /\ call = "kill"      -> FALSE
    [] autopilot_mode = AP_MODE_NAV /\ call = "resurrect" -> TRUE
    [] OTHER -> autopilot_motors_on

(* FAILSAFE ends on the ground.                                             *)
Landed(call) ==
  /\ FAILSAFE_GROUND_DETECT
  /\ autopilot_mode = AP_MODE_FAILSAFE
  /\ autopilot_detect_ground /\ call # "detect"

(* SetCommands, then actuators_set: nothing turns with the motors off.       *)
CommandsOf(st) ==
  CASE ~st.motors -> "zero"
    [] st.motors /\ \/ st.mode = AP_MODE_KILL
                    \/ st.mode = AP_MODE_FAILSAFE /\ ~FAILSAFE_GROUND_DETECT
         -> "failsafe"
    [] OTHER -> st.v

(* The radio's slot of the prescaler: a link that is not OK (after this      *)
(* tick's radio task) takes the vehicle out of the modes flown by hand.      *)
RadioFailsafe(st) ==
  IF rc_status' # RC_OK /\ st.mode \notin {AP_MODE_KILL, AP_MODE_NAV}
    THEN AP_MODE_FAILSAFE ELSE st.mode

(* NAV survives the radio, but not the radio and the GPS.                   *)
GpsFailsafe(st) ==
  IF USE_GPS /\ rc_status' # RC_OK /\ st.mode = AP_MODE_NAV /\ gps_is_lost
    THEN AP_MODE_FAILSAFE ELSE st.mode

main_periodic ==
  \E call \in FlightPlan \cup {"none"} :
    LET nav    == [Modes EXCEPT !.motors = NavMotors(call)]
        flown  == IF Landed(call) THEN autopilot_set_mode(nav, AP_MODE_KILL)
                  ELSE nav
        slot   == (rc_prescale + 1) % RC_PRESCALE
        radio  == IF slot = 0 THEN autopilot_set_mode(flown, RadioFailsafe(flown))
                  ELSE flown
    IN /\ autopilot_detect_ground' =
            (autopilot_detect_ground /\ call # "detect" /\ ~Landed(call))
       /\ autopilot_detect_ground_once' =
            (autopilot_detect_ground_once \/ call = "start_detect")
       /\ actuators' = CommandsOf(flown)
       /\ rc_prescale' = slot
       /\ IF slot = 0 THEN radio_control_periodic_task ELSE UNCHANGED rc_vars
       /\ Become(autopilot_set_mode(radio, GpsFailsafe(radio)))
       /\ UNCHANGED <<count_vars, set_vars, gps_is_lost>>

-----------------------------------------------------------------------------
(* The radio frame: autopilot_on_rc_frame                                   *)

AP_MODE_OF_PPRZ(switch) ==
  CASE switch = "manual" -> MODE_MANUAL
    [] switch = "auto1"  -> MODE_AUTO1
    [] switch = "auto2"  -> autopilot_mode_auto2

(* autopilot_check_motors_on: frames with the sticks in the corner arm, and  *)
(* once armed, disarm.                                                      *)
MotorsToggle(on, corner) ==
  /\ corner
  /\ autopilot_motors_on_counter = IF on THEN 1 ELSE AUTOPILOT_MOTOR_ON_TIME - 1

MotorsCounter(on, corner) ==
  CASE on /\ corner   -> Down(autopilot_motors_on_counter)
    [] on /\ ~corner  -> AUTOPILOT_MOTOR_ON_TIME
    [] ~on /\ corner  -> Up(autopilot_motors_on_counter, AUTOPILOT_MOTOR_ON_TIME)
    [] ~on /\ ~corner -> 0

(* autopilot_check_in_flight: frames with the throttle up and the motors on  *)
(* make a flight, frames with the throttle down a landing.                   *)
FlightCounter(on, down) ==
  CASE autopilot_in_flight /\ autopilot_in_flight_counter > 0 /\ down ->
         autopilot_in_flight_counter - 1
    [] autopilot_in_flight /\ autopilot_in_flight_counter > 0 /\ ~down ->
         AUTOPILOT_IN_FLIGHT_TIME
    [] ~autopilot_in_flight /\ on /\ ~down ->
         Up(autopilot_in_flight_counter, AUTOPILOT_IN_FLIGHT_TIME)
    [] ~autopilot_in_flight /\ on /\ down
         /\ autopilot_in_flight_counter < AUTOPILOT_IN_FLIGHT_TIME -> 0
    [] OTHER -> autopilot_in_flight_counter

(* The state flips with the count that reaches its end.                     *)
FlightAt(count) ==
  IF count = autopilot_in_flight_counter THEN autopilot_in_flight
  ELSE IF autopilot_in_flight THEN count > 0
       ELSE count = AUTOPILOT_IN_FLIGHT_TIME

autopilot_on_rc_frame(switch, kill, stick) ==
  LET down   == stick # "up"
      corner == stick = "corner"
      sw     == autopilot_set_mode(Modes, AP_MODE_OF_PPRZ(switch))
      st     == IF kill THEN autopilot_set_mode(sw, AP_MODE_KILL) ELSE sw
      on     == st.motors # MotorsToggle(st.motors, corner)
      count  == FlightCounter(on, down)
  IN /\ Become([st EXCEPT !.motors = on])
     /\ autopilot_motors_on_counter' = MotorsCounter(st.motors, corner)
     /\ autopilot_in_flight_counter' = count
     /\ autopilot_in_flight' = FlightAt(count)

(* RadioControlEvent, polled only while autopilot_rc is set.                *)
RadioFrameCounted ==
  /\ autopilot_rc
  /\ RcFrameCounted
  /\ UNCHANGED <<mode_vars, autopilot_motors_on, count_vars, ground_vars,
                 set_vars, out_vars, gps_is_lost>>

Sticks   == {"up", "down", "corner"}
Switches == {"manual", "auto1", "auto2"}

RadioFrameAccepted(switch, kill, stick) ==
  /\ autopilot_rc
  /\ kill => RADIO_KILL_SWITCH
  /\ RcFrameAccepted
  /\ autopilot_on_rc_frame(switch, kill, stick)
  /\ UNCHANGED <<ground_vars, set_vars, out_vars, gps_is_lost>>

-----------------------------------------------------------------------------
(* The other events of main_event, and the world.                           *)

(* DetectGroundEvent sees an acceleration past TRESHOLD_GROUND_DETECT.       *)
DetectGroundEvent ==
  /\ FAILSAFE_GROUND_DETECT
  /\ autopilot_mode = AP_MODE_FAILSAFE \/ autopilot_detect_ground_once
  /\ autopilot_detect_ground' = TRUE
  /\ autopilot_detect_ground_once' = FALSE
  /\ UNCHANGED <<rc_vars, mode_vars, autopilot_motors_on, count_vars, set_vars,
                 out_vars, gps_is_lost>>

(* DatalinkEvent: a setting from the ground.                                *)
SetAuto2 ==
  /\ autopilot_mode_auto2' \in Auto2Modes
  /\ UNCHANGED <<rc_vars, mode_vars, autopilot_motors_on, count_vars,
                 ground_vars, autopilot_rc, out_vars, gps_is_lost>>

SetAutopilotRc ==
  /\ "rc" \in GroundSwitches
  /\ autopilot_rc' \in BOOLEAN
  /\ UNCHANGED <<rc_vars, mode_vars, autopilot_motors_on, count_vars,
                 ground_vars, autopilot_mode_auto2, out_vars, gps_is_lost>>

autopilot_KillThrottle ==
  /\ "kill" \in GroundSwitches
  /\ autopilot_motors_on' \in BOOLEAN
  /\ UNCHANGED <<rc_vars, mode_vars, count_vars, ground_vars, set_vars,
                 out_vars, gps_is_lost>>

GpsWorld ==
  /\ USE_GPS
  /\ gps_is_lost' = ~gps_is_lost
  /\ UNCHANGED <<rc_vars, mode_vars, autopilot_motors_on, count_vars,
                 ground_vars, set_vars, out_vars>>

RadioFrame ==
  \/ RadioFrameCounted
  \/ \E switch \in Switches, kill \in BOOLEAN, stick \in Sticks :
       RadioFrameAccepted(switch, kill, stick)

RotorNext ==
  \/ main_periodic
  \/ RadioFrame
  \/ DetectGroundEvent
  \/ SetAuto2 \/ SetAutopilotRc \/ autopilot_KillThrottle
  \/ GpsWorld

RotorSafety == RotorInit /\ [][RotorNext]_rotor_vars

(* The periodic task is driven by the system timer; nothing else need       *)
(* happen.                                                                  *)
RotorSpec == RotorSafety /\ WF_rotor_vars(main_periodic)

-----------------------------------------------------------------------------
(* Correctness.                                                             *)

(* Whatever the interleaving of frames, settings, shocks and lost GPS, the   *)
(* vertical law is the one of the mode, and so is the horizontal law in      *)
(* every mode that has one: autopilot_set_mode does nothing for the mode it  *)
(* is in already, so a law left behind would stay.                          *)
GuidanceMatches ==
  /\ guidance_v_mode = VModeOf(autopilot_mode)
  /\ autopilot_mode \notin RcClimbModes =>
       guidance_h_mode = HModeOf(autopilot_mode, guidance_h_mode)

(* While the radio is not OK, at most NAV flies: a vehicle that only the     *)
(* pilot could fly is in FAILSAFE or KILL, from the very tick that declared  *)
(* the loss, whatever the ground does to MODE_AUTO2 or autopilot_rc.         *)
LostRadioMode ==
  rc_status # RC_OK => autopilot_mode \in {AP_MODE_FAILSAFE, AP_MODE_KILL, AP_MODE_NAV}

(* A flight in progress always has frames left to count before its landing,  *)
(* and none in progress always has frames left before a takeoff, so that     *)
(* neither detection can be stuck (autopilot_check_in_flight counts only      *)
(* strictly inside its limits).                                             *)
FlightNeverStuck ==
  IF autopilot_in_flight THEN autopilot_in_flight_counter > 0
  ELSE autopilot_in_flight_counter < AUTOPILOT_IN_FLIGHT_TIME

(* The motors never run on a thrust that no law computes: guidance_v_run     *)
(* has no case for KILL and would leave the last thrust in the commands (in  *)
(* builds where FAILSAFE does not both kill and wait for the ground).        *)
ThrustHasLaw == actuators # "V_KILL"

(* Radio and GPS both gone for good, the vehicle ends up in FAILSAFE or      *)
(* KILL.                                                                    *)
NobodyLeftFailsafe ==
  <>[](rc_status # RC_OK /\ gps_is_lost)
    => <>[](autopilot_mode \in {AP_MODE_FAILSAFE, AP_MODE_KILL})

(* The ground seen in FAILSAFE kills the vehicle, unless a frame takes it    *)
(* out of FAILSAFE first.                                                   *)
GroundKills ==
  (autopilot_mode = AP_MODE_FAILSAFE /\ autopilot_detect_ground)
    ~> (autopilot_mode = AP_MODE_KILL \/ rc_status = RC_OK)

(* "Attitude Stabilized Roll,Pitch,Yaw", say the airframes that fly in       *)
(* ATTITUDE_RC_CLIMB, of what the horizontal law is there.                   *)
RcClimbStabilized ==
  autopilot_mode = AP_MODE_ATTITUDE_RC_CLIMB => guidance_h_mode = "H_ATTITUDE"
=============================================================================
