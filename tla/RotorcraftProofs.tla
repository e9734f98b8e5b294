-------------------------- MODULE RotorcraftProofs --------------------------
(***************************************************************************)
(* Proofs about the rotorcraft autopilot, for every assignment of modes to  *)
(* the switch, every build and every length of the counts: first the         *)
(* automaton, then what an observer of the sticks sees of it.  Liveness is   *)
(* proved from the recurrence of main_periodic, which its fairness gives.    *)
(***************************************************************************)
EXTENDS RotorMonitor, TLAPS

(* What a mode change and the counts may leave.                             *)
ModesOK(st) ==
  /\ st \in [mode : ApModes, h : HModes, v : VModes, motors : BOOLEAN]
  /\ st.v = VModeOf(st.mode)
  /\ st.mode \notin RcClimbModes => st.h = HModeOf(st.mode, st.h)

RotorInv == RotorTypeOK /\ GuidanceMatches /\ LostRadioMode /\ FlightNeverStuck

-----------------------------------------------------------------------------
(* The radio link monitor.                                                  *)

(* The radio watchdog keeps its three variables in range.                   *)
LEMMA RcPeriodicType ==
  ASSUME RcTypeOK, radio_control_periodic_task
  PROVE  RcTypeOK'
  BY RcTimesAssumption, SMT
     DEF RcTypeOK, radio_control_periodic_task, RC_OK, RC_LOST, RC_REALLY_LOST

(* So does a frame, counted or accepted.                                    *)
LEMMA RcFrameType ==
  ASSUME RcTypeOK, RcFrameCounted \/ RcFrameAccepted
  PROVE  RcTypeOK'
  BY RcTimesAssumption, SMT
     DEF RcTypeOK, RcFrameCounted, RcFrameAccepted, RC_OK, RC_LOST,
         RC_REALLY_LOST

-----------------------------------------------------------------------------
(* autopilot_set_mode.                                                      *)

(* Each mode has its laws.                                                  *)
LEMMA LawsAreLaws ==
  ASSUME NEW mode \in ApModes, NEW h \in HModes
  PROVE  /\ HModeOf(mode, h) \in HModes /\ VModeOf(mode) \in VModes
         /\ mode \notin RcClimbModes => \A k : HModeOf(mode, k) = HModeOf(mode, h)
  BY SMT DEF HModeOf, VModeOf, HModes, VModes, Kills, ApModes, RateModes,
     AttitudeModes, HoverModes, RcClimbModes, AP_MODE_FAILSAFE, AP_MODE_KILL,
     AP_MODE_RATE_DIRECT, AP_MODE_ATTITUDE_DIRECT, AP_MODE_RATE_RC_CLIMB,
     AP_MODE_ATTITUDE_RC_CLIMB, AP_MODE_ATTITUDE_CLIMB, AP_MODE_RATE_Z_HOLD,
     AP_MODE_ATTITUDE_Z_HOLD, AP_MODE_HOVER_DIRECT, AP_MODE_HOVER_CLIMB,
     AP_MODE_HOVER_Z_HOLD, AP_MODE_NAV

(* Whatever mode is asked for, the laws are its own afterwards.             *)
LEMMA SetModeOK ==
  ASSUME NEW st, ModesOK(st), NEW mode \in ApModes
  PROVE  /\ ModesOK(autopilot_set_mode(st, mode))
         /\ autopilot_set_mode(st, mode).mode = mode
<1>1. CASE mode = st.mode
  BY <1>1 DEF autopilot_set_mode
<1>2. CASE mode # st.mode
  <2> DEFINE new == autopilot_set_mode(st, mode)
  <2>1. new = [mode |-> mode, h |-> HModeOf(mode, st.h), v |-> VModeOf(mode),
               motors |-> st.motors /\ ~Kills(mode)]
    BY <1>2 DEF autopilot_set_mode
  <2>2. st.h \in HModes /\ st.motors \in BOOLEAN
    BY DEF ModesOK
  <2>3. (st.motors /\ ~Kills(mode)) \in BOOLEAN
    BY <2>2
  <2>4. HModeOf(mode, st.h) \in HModes /\ VModeOf(mode) \in VModes
    BY <2>2, LawsAreLaws
  <2>5. mode \notin RcClimbModes => HModeOf(mode, HModeOf(mode, st.h)) = HModeOf(mode, st.h)
    BY <2>2, LawsAreLaws
  <2>6. QED
    BY <2>1, <2>3, <2>4, <2>5 DEF ModesOK
<1>3. QED
  BY <1>1, <1>2

(* The state the program is in is such a state, and becomes such a state.    *)
LEMMA ModesNow ==
  ASSUME RotorTypeOK, GuidanceMatches
  PROVE  ModesOK(Modes)
  BY DEF RotorTypeOK, GuidanceMatches, ModesOK, Modes

LEMMA ModesNext ==
  ASSUME NEW st, ModesOK(st), Become(st)
  PROVE  /\ autopilot_mode' \in ApModes
         /\ guidance_h_mode' \in HModes /\ guidance_v_mode' \in VModes
         /\ autopilot_motors_on' \in BOOLEAN
         /\ GuidanceMatches'
  BY DEF ModesOK, Become, GuidanceMatches

-----------------------------------------------------------------------------
(* The counts of a radio frame.                                             *)

LEMMA MotorsCounterType ==
  ASSUME RotorTypeOK, NEW on \in BOOLEAN, NEW corner \in BOOLEAN
  PROVE  MotorsCounter(on, corner) \in 0 .. AUTOPILOT_MOTOR_ON_TIME
  BY RotorcraftAssumption, SMT DEF RotorTypeOK, MotorsCounter, Up, Down

(* The flight count and what it concludes move together.                    *)
LEMMA FlightCounts ==
  ASSUME RotorTypeOK, FlightNeverStuck, NEW on \in BOOLEAN, NEW down \in BOOLEAN,
         autopilot_in_flight_counter' = FlightCounter(on, down),
         autopilot_in_flight' = FlightAt(FlightCounter(on, down))
  PROVE  /\ autopilot_in_flight_counter' \in 0 .. AUTOPILOT_IN_FLIGHT_TIME
         /\ autopilot_in_flight' \in BOOLEAN
         /\ FlightNeverStuck'
<1> DEFINE T == AUTOPILOT_IN_FLIGHT_TIME
           c == autopilot_in_flight_counter
           d == FlightCounter(on, down)
<1> T \in Nat \ {0} /\ c \in 0 .. T /\ autopilot_in_flight \in BOOLEAN
  BY RotorcraftAssumption DEF RotorTypeOK
<1>1. CASE autopilot_in_flight
  <2>1. c > 0
    BY <1>1 DEF FlightNeverStuck
  <2>2. d = IF down THEN c - 1 ELSE T
    BY <1>1, <2>1 DEF FlightCounter
  <2>3. d \in 0 .. T
    BY <2>1, <2>2
  <2>4. autopilot_in_flight' = (d > 0)
    <3>1. CASE d = c
      BY <1>1, <2>1, <3>1 DEF FlightAt
    <3>2. CASE d # c
      BY <1>1, <3>2 DEF FlightAt
    <3>3. QED
      BY <3>1, <3>2
  <2>5. autopilot_in_flight_counter' = d /\ autopilot_in_flight' \in BOOLEAN
    BY <2>4
  <2>6. IF autopilot_in_flight' THEN d > 0 ELSE d < T
    <3>1. IF d > 0 THEN d > 0 ELSE d < T
      BY <2>1, <2>2, <2>3
    <3>2. QED
      BY <2>4, <3>1, Zenon
  <2>7. FlightNeverStuck'
    BY <2>5, <2>6 DEF FlightNeverStuck
  <2>8. QED
    BY <2>3, <2>5, <2>7
<1>2. CASE ~autopilot_in_flight
  <2>1. c < T
    BY <1>2 DEF FlightNeverStuck
  <2>2. d \in {0, c, c + 1}
    BY <1>2, <2>1 DEF FlightCounter, Up
  <2>3. d \in 0 .. T
    BY <2>1, <2>2
  <2>4. autopilot_in_flight' = (d = T)
    <3>1. CASE d = c
      BY <1>2, <2>1, <3>1 DEF FlightAt
    <3>2. CASE d # c
      BY <1>2, <3>2 DEF FlightAt
    <3>3. QED
      BY <3>1, <3>2
  <2>5. autopilot_in_flight_counter' = d /\ autopilot_in_flight' \in BOOLEAN
    BY <2>4
  <2>6. IF autopilot_in_flight' THEN d > 0 ELSE d < T
    <3>1. IF d = T THEN d > 0 ELSE d < T
      BY <2>3
    <3>2. QED
      BY <2>4, <3>1, Zenon
  <2>7. FlightNeverStuck'
    BY <2>5, <2>6 DEF FlightNeverStuck
  <2>8. QED
    BY <2>3, <2>5, <2>7
<1>3. QED
  BY <1>1, <1>2

-----------------------------------------------------------------------------
(* The steps.                                                               *)

(* The modes a radio frame can ask for are modes.                           *)
LEMMA SwitchModes ==
  ASSUME RotorTypeOK, NEW switch \in Switches
  PROVE  AP_MODE_OF_PPRZ(switch) \in ApModes
  BY RotorcraftAssumption DEF RotorTypeOK, AP_MODE_OF_PPRZ, Switches

LEMMA PlainModes ==
  AP_MODE_FAILSAFE \in ApModes /\ AP_MODE_KILL \in ApModes
  BY DEF ApModes

(* The periodic task: the radio that is not OK after it leaves only a mode   *)
(* that needs no pilot.                                                     *)
LEMMA PeriodicInv ==
  ASSUME RotorInv, main_periodic
  PROVE  RotorInv'
<1>1. PICK call \in FlightPlan \cup {"none"} : main_periodic!(call)
  BY DEF main_periodic
<1> DEFINE nav   == [Modes EXCEPT !.motors = NavMotors(call)]
           flown == IF Landed(call) THEN autopilot_set_mode(nav, AP_MODE_KILL)
                    ELSE nav
           slot  == (rc_prescale + 1) % RC_PRESCALE
           radio == IF slot = 0
                      THEN autopilot_set_mode(flown, RadioFailsafe(flown))
                      ELSE flown
           gps   == autopilot_set_mode(radio, GpsFailsafe(radio))
<1>2. ModesOK(nav) /\ nav.mode = autopilot_mode
  <2>1. ModesOK(Modes)
    BY ModesNow DEF RotorInv
  <2>2. NavMotors(call) \in BOOLEAN
    BY DEF NavMotors, RotorInv, RotorTypeOK
  <2>3. QED
    BY <2>1, <2>2 DEF ModesOK, Modes
<1>3. /\ ModesOK(flown)
      /\ flown.mode \in {autopilot_mode, AP_MODE_KILL}
  BY <1>2, SetModeOK, PlainModes
<1>4. /\ ModesOK(radio)
      /\ radio.mode = IF slot = 0 THEN RadioFailsafe(flown) ELSE flown.mode
  <2>1. RadioFailsafe(flown) \in ApModes
    BY <1>3, PlainModes DEF RadioFailsafe, ModesOK
  <2>2. QED
    BY <1>3, <2>1, SetModeOK
<1>5. /\ ModesOK(gps)
      /\ gps.mode = GpsFailsafe(radio)
  <2>1. GpsFailsafe(radio) \in ApModes
    BY <1>4, PlainModes DEF GpsFailsafe, ModesOK
  <2>2. QED
    BY <1>4, <2>1, SetModeOK
<1>6. Become(gps)
  BY <1>1
<1>7. RcTypeOK'
  <2>1. CASE slot = 0
    BY <1>1, <2>1, RcPeriodicType DEF RotorInv, RotorTypeOK
  <2>2. CASE slot # 0
    BY <1>1, <2>2 DEF RotorInv, RotorTypeOK, RcTypeOK, rc_vars
  <2>3. QED
    BY <2>1, <2>2
<1>8. RotorTypeOK'
  <2>1. rc_prescale' \in 0 .. RC_PRESCALE - 1
    BY <1>1, RotorcraftAssumption, SMT DEF RotorInv, RotorTypeOK
  <2>2. actuators' \in {"zero", "failsafe"} \cup VModes
    BY <1>1, <1>3 DEF CommandsOf, ModesOK
  <2>3. /\ autopilot_detect_ground' \in BOOLEAN
        /\ autopilot_detect_ground_once' \in BOOLEAN
    BY <1>1
  <2>4. QED
    BY <1>1, <1>5, <1>6, <1>7, <2>1, <2>2, <2>3, ModesNext
       DEF RotorInv, RotorTypeOK, count_vars, set_vars
<1>9. GuidanceMatches'
  BY <1>5, <1>6, ModesNext
<1>10. LostRadioMode'
  <2>1. autopilot_mode' = GpsFailsafe(radio)
    BY <1>5, <1>6 DEF Become
  <2>2. CASE slot = 0
    BY <1>4, <2>1, <2>2 DEF LostRadioMode, RadioFailsafe, GpsFailsafe
  <2>3. CASE slot # 0
    <3>1. rc_status' = rc_status
      BY <1>1, <2>3 DEF rc_vars
    <3>2. QED
      BY <1>3, <1>4, <2>1, <2>3, <3>1 DEF RotorInv, LostRadioMode, GpsFailsafe
  <2>4. QED
    BY <2>2, <2>3
<1>11. FlightNeverStuck'
  BY <1>1 DEF RotorInv, FlightNeverStuck, count_vars
<1>12. QED
  BY <1>8, <1>9, <1>10, <1>11 DEF RotorInv

(* An accepted frame: whatever mode it puts, the radio is OK from here.      *)
LEMMA FrameInv ==
  ASSUME RotorInv, NEW switch \in Switches, NEW kill \in BOOLEAN,
         NEW stick \in Sticks, RadioFrameAccepted(switch, kill, stick)
  PROVE  RotorInv'
<1> DEFINE down   == stick # "up"
           corner == stick = "corner"
           sw     == autopilot_set_mode(Modes, AP_MODE_OF_PPRZ(switch))
           st     == IF kill THEN autopilot_set_mode(sw, AP_MODE_KILL) ELSE sw
           on     == st.motors # MotorsToggle(st.motors, corner)
<1>1. autopilot_on_rc_frame(switch, kill, stick)
  BY DEF RadioFrameAccepted
<1>2. ModesOK(st)
  <2>1. ModesOK(sw)
    BY ModesNow, SetModeOK, SwitchModes DEF RotorInv
  <2>2. QED
    BY <2>1, SetModeOK, PlainModes
<1>3. ModesOK([st EXCEPT !.motors = on])
  BY <1>2 DEF ModesOK
<1>4. /\ autopilot_mode' \in ApModes
      /\ guidance_h_mode' \in HModes /\ guidance_v_mode' \in VModes
      /\ autopilot_motors_on' \in BOOLEAN
      /\ GuidanceMatches'
  BY <1>1, <1>3, ModesNext DEF autopilot_on_rc_frame
<1>5. autopilot_motors_on_counter' \in 0 .. AUTOPILOT_MOTOR_ON_TIME
  <2>1. st.motors \in BOOLEAN
    BY <1>2 DEF ModesOK
  <2>2. autopilot_motors_on_counter' = MotorsCounter(st.motors, corner)
    BY <1>1 DEF autopilot_on_rc_frame
  <2>3. QED
    BY <2>1, <2>2, MotorsCounterType DEF RotorInv
<1>6. /\ autopilot_in_flight_counter' \in 0 .. AUTOPILOT_IN_FLIGHT_TIME
      /\ autopilot_in_flight' \in BOOLEAN
      /\ FlightNeverStuck'
  <2>1. /\ autopilot_in_flight_counter' = FlightCounter(on, down)
        /\ autopilot_in_flight' = FlightAt(FlightCounter(on, down))
    BY <1>1 DEF autopilot_on_rc_frame
  <2>2. on \in BOOLEAN /\ down \in BOOLEAN
    OBVIOUS
  <2>3. QED
    BY <2>1, <2>2, FlightCounts DEF RotorInv
<1>7. RcTypeOK' /\ rc_status' = RC_OK
  BY RcFrameType DEF RadioFrameAccepted, RcFrameAccepted, RotorInv, RotorTypeOK
<1>8. RotorTypeOK'
  BY <1>4, <1>5, <1>6, <1>7
     DEF RadioFrameAccepted, RotorInv, RotorTypeOK, ground_vars, set_vars,
         out_vars
<1>9. QED
  BY <1>4, <1>6, <1>7, <1>8 DEF RotorInv, LostRadioMode

-----------------------------------------------------------------------------
(* The invariant.                                                           *)

LEMMA RotorInitInv == RotorInit => RotorInv
<1> SUFFICES ASSUME RotorInit PROVE RotorInv
  OBVIOUS
<1> USE DEF RotorInit, autopilot_init, radio_control_init
<1>1. RcTypeOK
  BY RcTimesAssumption, SMT DEF RcTypeOK, RC_OK, RC_LOST, RC_REALLY_LOST
<1>2. RotorTypeOK
  <2>1. autopilot_mode \in ApModes /\ autopilot_mode_auto2 \in ApModes
    BY PlainModes, RotorcraftAssumption
  <2>2. /\ autopilot_motors_on_counter \in 0 .. AUTOPILOT_MOTOR_ON_TIME
        /\ autopilot_in_flight_counter \in 0 .. AUTOPILOT_IN_FLIGHT_TIME
        /\ rc_prescale \in 0 .. RC_PRESCALE - 1
    BY RotorcraftAssumption, SMT
  <2>3. QED
    BY <1>1, <2>1, <2>2 DEF RotorTypeOK, HModes, VModes
<1>3. GuidanceMatches
  <2>1. VModeOf(AP_MODE_KILL) = "V_KILL"
    BY DEF VModeOf, Kills, RcClimbModes, AP_MODE_FAILSAFE, AP_MODE_KILL,
       AP_MODE_RATE_DIRECT, AP_MODE_ATTITUDE_DIRECT, AP_MODE_RATE_RC_CLIMB,
       AP_MODE_ATTITUDE_RC_CLIMB, AP_MODE_ATTITUDE_CLIMB, AP_MODE_RATE_Z_HOLD,
       AP_MODE_ATTITUDE_Z_HOLD, AP_MODE_HOVER_DIRECT, AP_MODE_HOVER_CLIMB,
       AP_MODE_HOVER_Z_HOLD, AP_MODE_NAV
  <2>2. HModeOf(AP_MODE_KILL, "H_KILL") = "H_KILL"
    BY DEF HModeOf, Kills, RateModes, AttitudeModes, HoverModes, RcClimbModes,
       AP_MODE_FAILSAFE, AP_MODE_KILL,
       AP_MODE_RATE_DIRECT, AP_MODE_ATTITUDE_DIRECT, AP_MODE_RATE_RC_CLIMB,
       AP_MODE_ATTITUDE_RC_CLIMB, AP_MODE_ATTITUDE_CLIMB, AP_MODE_RATE_Z_HOLD,
       AP_MODE_ATTITUDE_Z_HOLD, AP_MODE_HOVER_DIRECT, AP_MODE_HOVER_CLIMB,
       AP_MODE_HOVER_Z_HOLD, AP_MODE_NAV
  <2>3. QED
    BY <2>1, <2>2 DEF GuidanceMatches
<1>4. LostRadioMode /\ FlightNeverStuck
  BY RotorcraftAssumption, SMT DEF LostRadioMode, FlightNeverStuck
<1>5. QED
  BY <1>2, <1>3, <1>4 DEF RotorInv

LEMMA RotorNextInv == RotorInv /\ [RotorNext]_rotor_vars => RotorInv'
<1> SUFFICES ASSUME RotorInv, [RotorNext]_rotor_vars PROVE RotorInv'
  OBVIOUS
<1> USE DEF RotorInv, GuidanceMatches, LostRadioMode, FlightNeverStuck,
            rc_vars, mode_vars, count_vars, ground_vars, set_vars, out_vars
<1>1. CASE main_periodic
  BY <1>1, PeriodicInv
<1>2. CASE RadioFrame
  <2>1. CASE RadioFrameCounted
    <3>1. RcTypeOK' /\ rc_status' = rc_status
      BY <2>1, RcFrameType DEF RadioFrameCounted, RcFrameCounted, RotorTypeOK
    <3>2. QED
      BY <2>1, <3>1 DEF RadioFrameCounted, RotorTypeOK
  <2>2. CASE \E switch \in Switches, kill \in BOOLEAN, stick \in Sticks :
               RadioFrameAccepted(switch, kill, stick)
    BY <2>2, FrameInv
  <2>3. QED
    BY <1>2, <2>1, <2>2 DEF RadioFrame
<1>3. CASE DetectGroundEvent
  BY <1>3 DEF DetectGroundEvent, RotorTypeOK, RcTypeOK
<1>4. CASE SetAuto2
  BY <1>4, RotorcraftAssumption DEF SetAuto2, RotorTypeOK, RcTypeOK
<1>5. CASE SetAutopilotRc
  BY <1>5 DEF SetAutopilotRc, RotorTypeOK, RcTypeOK
<1>6. CASE autopilot_KillThrottle
  BY <1>6 DEF autopilot_KillThrottle, RotorTypeOK, RcTypeOK
<1>7. CASE GpsWorld
  BY <1>7 DEF GpsWorld, RotorTypeOK, RcTypeOK
<1>8. CASE UNCHANGED rotor_vars
  BY <1>8 DEF rotor_vars, RotorTypeOK, RcTypeOK
<1>9. QED
  BY <1>1, <1>2, <1>3, <1>4, <1>5, <1>6, <1>7, <1>8 DEF RotorNext

LEMMA RotorInvariant == RotorSafety => []RotorInv
  BY RotorInitInv, RotorNextInv, PTL DEF RotorSafety

(* Type correctness of the rotorcraft autopilot.                            *)
THEOREM RotorTypes == RotorSafety => []RotorTypeOK
  BY RotorInvariant, PTL DEF RotorInv

(* The laws in force are those of the mode, whatever modes the airframe put  *)
(* on the switch.                                                           *)
THEOREM GuidanceFollowsMode == RotorSafety => []GuidanceMatches
  BY RotorInvariant, PTL DEF RotorInv

(* Without a radio no mode that needs the pilot is ever in force.            *)
THEOREM LostRadioSafe == RotorSafety => []LostRadioMode
  BY RotorInvariant, PTL DEF RotorInv

(* The flight detection cannot get stuck on either side.                    *)
THEOREM FlightDetectionLive == RotorSafety => []FlightNeverStuck
  BY RotorInvariant, PTL DEF RotorInv

-----------------------------------------------------------------------------
(* The only laws without a thrust are those of the modes that kill.         *)
LEMMA ThrustOfMode ==
  ASSUME NEW mode \in ApModes, VModeOf(mode) = "V_KILL"
  PROVE  Kills(mode)
  BY SMT DEF VModeOf, Kills, ApModes, RateModes, AttitudeModes, HoverModes,
     RcClimbModes, AP_MODE_FAILSAFE, AP_MODE_KILL,
     AP_MODE_RATE_DIRECT, AP_MODE_ATTITUDE_DIRECT, AP_MODE_RATE_RC_CLIMB,
     AP_MODE_ATTITUDE_RC_CLIMB, AP_MODE_ATTITUDE_CLIMB, AP_MODE_RATE_Z_HOLD,
     AP_MODE_ATTITUDE_Z_HOLD, AP_MODE_HOVER_DIRECT, AP_MODE_HOVER_CLIMB,
     AP_MODE_HOVER_Z_HOLD, AP_MODE_NAV

(* Commands taken from a state whose law is its mode's.                     *)
LEMMA CommandsHaveLaw ==
  ASSUME ~(KILL_AS_FAILSAFE /\ FAILSAFE_GROUND_DETECT),
         NEW st, ModesOK(st)
  PROVE  CommandsOf(st) # "V_KILL"
<1>1. st.motors \in BOOLEAN /\ st.mode \in ApModes /\ st.v = VModeOf(st.mode)
  BY DEF ModesOK
<1>2. CASE ~st.motors
  BY <1>2 DEF CommandsOf
<1>3. CASE st.motors /\ Kills(st.mode)
  <2>1. \/ st.mode = AP_MODE_KILL
        \/ st.mode = AP_MODE_FAILSAFE /\ ~FAILSAFE_GROUND_DETECT
    BY <1>3 DEF Kills
  <2>2. QED
    BY <1>3, <2>1 DEF CommandsOf
<1>4. CASE st.motors /\ ~Kills(st.mode)
  <2>1. st.v # "V_KILL"
    BY <1>1, <1>4, ThrustOfMode
  <2>2. QED
    BY <1>4, <2>1 DEF CommandsOf
<1>5. QED
  BY <1>1, <1>2, <1>3, <1>4

(* The thrust follows the mode the periodic task left after its ground test. *)
LEMMA ThrustStep ==
  ASSUME ~(KILL_AS_FAILSAFE /\ FAILSAFE_GROUND_DETECT),
         RotorInv, ThrustHasLaw, [RotorNext]_rotor_vars
  PROVE  ThrustHasLaw'
<1>1. CASE main_periodic
  <2>1. PICK call \in FlightPlan \cup {"none"} : main_periodic!(call)
    BY <1>1 DEF main_periodic
  <2> DEFINE nav   == [Modes EXCEPT !.motors = NavMotors(call)]
             flown == IF Landed(call) THEN autopilot_set_mode(nav, AP_MODE_KILL)
                      ELSE nav
  <2>2. ModesOK(nav)
    <3>1. ModesOK(Modes)
      BY ModesNow DEF RotorInv
    <3>2. NavMotors(call) \in BOOLEAN
      BY DEF NavMotors, RotorInv, RotorTypeOK
    <3>3. QED
      BY <3>1, <3>2 DEF ModesOK, Modes
  <2>3. ModesOK(flown)
    BY <2>2, SetModeOK, PlainModes
  <2>4. actuators' = CommandsOf(flown)
    BY <2>1
  <2>5. QED
    BY <2>3, <2>4, CommandsHaveLaw DEF ThrustHasLaw
<1>2. CASE UNCHANGED actuators
  BY <1>2 DEF ThrustHasLaw
<1>3. main_periodic \/ UNCHANGED actuators
  BY DEF RotorNext, RadioFrame, RadioFrameCounted, RadioFrameAccepted,
         DetectGroundEvent, SetAuto2, SetAutopilotRc, autopilot_KillThrottle,
         GpsWorld, rotor_vars, out_vars
<1>4. QED
  BY <1>1, <1>2, <1>3

(* In every build in which FAILSAFE does not both kill and wait for the       *)
(* ground, the motors never run on a thrust that no law computes.            *)
THEOREM ThrustAlwaysHasLaw ==
  ASSUME ~(KILL_AS_FAILSAFE /\ FAILSAFE_GROUND_DETECT)
  PROVE  RotorSafety => []ThrustHasLaw
<1>1. RotorInit => ThrustHasLaw
  BY DEF RotorInit, ThrustHasLaw
<1>2. RotorInv /\ ThrustHasLaw /\ [RotorNext]_rotor_vars => ThrustHasLaw'
  BY ThrustStep
<1>3. QED
  BY <1>1, <1>2, RotorInvariant, PTL DEF RotorSafety
-----------------------------------------------------------------------------
(* What the main loop brings about.  That it turns again and again is stated  *)
(* as a premise, []<><<main_periodic>>: the prover does not know that a task   *)
(* without a guard is enabled.                                              *)

(* After one turn with radio and GPS both gone, nobody flies: the modes of the *)
(* pilot are over since the radio was lost, and NAV ends.                     *)
LEMMA TurnWithNobody ==
  ASSUME USE_GPS, RotorInv, main_periodic, gps_is_lost, rc_status' # RC_OK,
         LostRadioMode'
  PROVE  autopilot_mode' \in {AP_MODE_FAILSAFE, AP_MODE_KILL}
<1>1. PICK call \in FlightPlan \cup {"none"} :
        LET nav    == [Modes EXCEPT !.motors = NavMotors(call)]
            flown  == IF Landed(call) THEN autopilot_set_mode(nav, AP_MODE_KILL)
                      ELSE nav
            slot   == (rc_prescale + 1) % RC_PRESCALE
            radio  == IF slot = 0
                        THEN autopilot_set_mode(flown, RadioFailsafe(flown))
                        ELSE flown
        IN  Become(autopilot_set_mode(radio, GpsFailsafe(radio)))
  BY DEF main_periodic
<1> DEFINE nav    == [Modes EXCEPT !.motors = NavMotors(call)]
           flown  == IF Landed(call) THEN autopilot_set_mode(nav, AP_MODE_KILL)
                     ELSE nav
           slot   == (rc_prescale + 1) % RC_PRESCALE
           radio  == IF slot = 0
                       THEN autopilot_set_mode(flown, RadioFailsafe(flown))
                       ELSE flown
<1>2. Become(autopilot_set_mode(radio, GpsFailsafe(radio)))
  BY <1>1
<1> HIDE DEF radio
<1>3. autopilot_mode' = GpsFailsafe(radio)
  BY <1>2 DEF Become, autopilot_set_mode
<1>4. GpsFailsafe(radio) # AP_MODE_NAV
  BY DEF GpsFailsafe, AP_MODE_FAILSAFE, AP_MODE_NAV
<1>5. autopilot_mode' \in {AP_MODE_FAILSAFE, AP_MODE_KILL, AP_MODE_NAV}
  BY DEF LostRadioMode
<1>6. QED
  BY <1>3, <1>4, <1>5

(* Every other step leaves the mode alone, or is a frame that was accepted.   *)
LEMMA OtherStepsKeepMode ==
  ASSUME [RotorNext]_rotor_vars, ~main_periodic, rc_status' # RC_OK
  PROVE  /\ autopilot_mode' = autopilot_mode
         /\ autopilot_detect_ground => autopilot_detect_ground'
<1>1. CASE RadioFrame
  BY <1>1 DEF RadioFrame, RadioFrameCounted, RadioFrameAccepted,
     RcFrameAccepted, mode_vars, ground_vars
<1>2. CASE ~RadioFrame
  BY <1>2 DEF RotorNext, DetectGroundEvent, SetAuto2, SetAutopilotRc,
     autopilot_KillThrottle, GpsWorld, rotor_vars, mode_vars, ground_vars
<1>3. QED
  BY <1>1, <1>2

(* Radio and GPS both gone for good, a build with GPS ends up in FAILSAFE or   *)
(* KILL and stays there (main_periodic, the last test of the tick).          *)
THEOREM NobodyLeftIsFailsafe ==
  ASSUME USE_GPS
  PROVE  RotorSafety /\ []<><<main_periodic>>_rotor_vars => NobodyLeftFailsafe
<1> DEFINE Gone == rc_status # RC_OK /\ gps_is_lost
           Safe == autopilot_mode \in {AP_MODE_FAILSAFE, AP_MODE_KILL}
<1>1. RotorInv /\ RotorInv' /\ Gone /\ Gone' /\ <<main_periodic>>_rotor_vars
        => Safe'
  BY TurnWithNobody DEF RotorInv
<1>2. RotorInv /\ RotorInv' /\ Gone /\ Gone' /\ Safe /\ [RotorNext]_rotor_vars
        => Safe'
  BY TurnWithNobody, OtherStepsKeepMode DEF RotorInv
<1> HIDE DEF Gone, Safe
<1>3. RotorSafety /\ []<><<main_periodic>>_rotor_vars => (<>[]Gone => <>[]Safe)
  BY <1>1, <1>2, RotorInvariant, PTL DEF RotorSafety
<1>4. QED
  BY <1>3 DEF NobodyLeftFailsafe, Gone, Safe

(* A turn of the main loop sees the flag and kills.                           *)
LEMMA TurnOnGround ==
  ASSUME FAILSAFE_GROUND_DETECT, "detect" \notin FlightPlan, main_periodic,
         autopilot_mode = AP_MODE_FAILSAFE, autopilot_detect_ground
  PROVE  autopilot_mode' = AP_MODE_KILL
<1>1. PICK call \in FlightPlan \cup {"none"} :
        LET nav    == [Modes EXCEPT !.motors = NavMotors(call)]
            flown  == IF Landed(call) THEN autopilot_set_mode(nav, AP_MODE_KILL)
                      ELSE nav
            slot   == (rc_prescale + 1) % RC_PRESCALE
            radio  == IF slot = 0
                        THEN autopilot_set_mode(flown, RadioFailsafe(flown))
                        ELSE flown
        IN  Become(autopilot_set_mode(radio, GpsFailsafe(radio)))
  BY DEF main_periodic
<1> DEFINE nav    == [Modes EXCEPT !.motors = NavMotors(call)]
           flown  == autopilot_set_mode(nav, AP_MODE_KILL)
           slot   == (rc_prescale + 1) % RC_PRESCALE
           radio  == IF slot = 0
                       THEN autopilot_set_mode(flown, RadioFailsafe(flown))
                       ELSE flown
<1>2. Landed(call)
  BY <1>1 DEF Landed
<1>3. Become(autopilot_set_mode(radio, GpsFailsafe(radio)))
  BY <1>1, <1>2
<1>4. flown.mode = AP_MODE_KILL
  BY DEF autopilot_set_mode
<1> HIDE DEF flown
<1>5. radio.mode = AP_MODE_KILL
  <2>1. RadioFailsafe(flown) = AP_MODE_KILL
    BY <1>4 DEF RadioFailsafe
  <2>2. QED
    BY <1>4, <2>1 DEF autopilot_set_mode
<1> HIDE DEF radio
<1>6. GpsFailsafe(radio) = AP_MODE_KILL
  BY <1>5 DEF GpsFailsafe, AP_MODE_KILL, AP_MODE_NAV
<1>7. QED
  BY <1>3, <1>6 DEF Become, autopilot_set_mode

(* The ground seen in FAILSAFE kills the vehicle, unless a frame comes first,  *)
(* in a build that detects it and whose flight plan has no exception on       *)
(* NavDetectGround, which clears the flag it reads.                          *)
THEOREM GroundIsSeen ==
  ASSUME FAILSAFE_GROUND_DETECT, "detect" \notin FlightPlan
  PROVE  RotorSafety /\ []<><<main_periodic>>_rotor_vars => GroundKills
<1> DEFINE Landing == autopilot_mode = AP_MODE_FAILSAFE /\ autopilot_detect_ground
           Over == autopilot_mode = AP_MODE_KILL \/ rc_status = RC_OK
<1>1. Landing /\ <<main_periodic>>_rotor_vars => Over'
  BY TurnOnGround
<1>2. Landing /\ [RotorNext]_rotor_vars => Landing' \/ Over'
  BY TurnOnGround, OtherStepsKeepMode
<1> HIDE DEF Landing, Over
<1>3. RotorSafety /\ []<><<main_periodic>>_rotor_vars => (Landing ~> Over)
  BY <1>1, <1>2, PTL DEF RotorSafety
<1>4. QED
  BY <1>3 DEF GroundKills, Landing, Over
-----------------------------------------------------------------------------
(* What the observer of the sticks sees.                                    *)

(* No position of the switch, and nothing the ground may put on it, kills.   *)
SwitchModeSet == {MODE_MANUAL, MODE_AUTO1, MODE_AUTO2} \cup Auto2Modes
SwitchFlies   == \A mode \in SwitchModeSet : ~Kills(mode)

(* The state in which a frame counts: the switch's mode, then the kill       *)
(* switch's.                                                                *)
Asked(switch, kill) ==
  LET sw == autopilot_set_mode(Modes, AP_MODE_OF_PPRZ(switch))
  IN IF kill THEN autopilot_set_mode(sw, AP_MODE_KILL) ELSE sw

AskedMotors(switch, kill) == Asked(switch, kill).motors

Observed == RotorInv /\ autopilot_mode_auto2 \in SwitchModeSet

LEMMA MonStepIsStep ==
  ASSUME [MonNext]_mon_vars
  PROVE  [RotorNext]_rotor_vars
  BY DEF MonNext, mon_vars, Watched, FrameWith, Unwatched, RotorNext, RadioFrame

LEMMA ObservedStep == Observed /\ [MonNext]_mon_vars => Observed'
<1> SUFFICES ASSUME Observed, [MonNext]_mon_vars PROVE Observed'
  OBVIOUS
<1>1. [RotorNext]_rotor_vars
  BY MonStepIsStep
<1>2. RotorInv'
  BY <1>1, RotorNextInv DEF Observed
<1>3. \/ autopilot_mode_auto2' \in Auto2Modes
      \/ autopilot_mode_auto2' = autopilot_mode_auto2
  BY <1>1 DEF RotorNext, main_periodic, RadioFrame, RadioFrameCounted,
     RadioFrameAccepted, DetectGroundEvent, SetAuto2, SetAutopilotRc,
     autopilot_KillThrottle, GpsWorld, rotor_vars, set_vars
<1>4. QED
  BY <1>2, <1>3 DEF Observed, SwitchModeSet

LEMMA ObservedInit == MonInit => Observed
  BY RotorInitInv DEF MonInit, Observed, RotorInit, autopilot_init, SwitchModeSet

(* A mode change never starts the motors, and stops them if the mode kills.  *)
LEMMA SetModeMotors ==
  ASSUME NEW st, ModesOK(st), NEW mode \in ApModes
  PROVE  LET new == autopilot_set_mode(st, mode)
         IN /\ new.motors \in BOOLEAN
            /\ new.motors => st.motors
            /\ ~Kills(mode) => new.motors = st.motors
            /\ mode # st.mode /\ Kills(mode) => ~new.motors
  BY DEF autopilot_set_mode, ModesOK

(* What an accepted frame does, by the motors it counts with.                *)
LEMMA FrameCounts ==
  ASSUME Observed, NEW switch \in Switches, NEW kill \in BOOLEAN,
         NEW s \in Sticks, RadioFrameAccepted(switch, kill, s)
  PROVE  LET on == AskedMotors(switch, kill)
         IN /\ on \in BOOLEAN
            /\ on => autopilot_motors_on
            /\ autopilot_mode' = Asked(switch, kill).mode
            /\ autopilot_motors_on' = (on # MotorsToggle(on, s = "corner"))
            /\ autopilot_motors_on_counter' = MotorsCounter(on, s = "corner")
            /\ autopilot_in_flight_counter'
                 = FlightCounter(autopilot_motors_on', s # "up")
            /\ autopilot_in_flight'
                 = FlightAt(FlightCounter(autopilot_motors_on', s # "up"))
<1> DEFINE sw == autopilot_set_mode(Modes, AP_MODE_OF_PPRZ(switch))
           st == Asked(switch, kill)
           on == AskedMotors(switch, kill)
<1>1. ModesOK(Modes) /\ AP_MODE_OF_PPRZ(switch) \in ApModes
  BY ModesNow, SwitchModes DEF Observed, RotorInv
<1>2. ModesOK(sw) /\ (sw.motors => autopilot_motors_on)
  BY <1>1, SetModeOK, SetModeMotors DEF Modes
<1>3. ModesOK(st) /\ (st.motors => autopilot_motors_on)
  BY <1>2, SetModeOK, SetModeMotors, PlainModes DEF Asked
<1>4. on \in BOOLEAN /\ (on => autopilot_motors_on)
  BY <1>3 DEF AskedMotors, ModesOK
<1>5. autopilot_on_rc_frame(switch, kill, s)
  BY DEF RadioFrameAccepted
<1>6. Become([st EXCEPT !.motors = (on # MotorsToggle(on, s = "corner"))])
  BY <1>5 DEF autopilot_on_rc_frame, Asked, AskedMotors
<1>7. /\ autopilot_mode' = st.mode
      /\ autopilot_motors_on' = (on # MotorsToggle(on, s = "corner"))
  BY <1>3, <1>6 DEF Become, ModesOK
<1>8. /\ autopilot_motors_on_counter' = MotorsCounter(on, s = "corner")
      /\ autopilot_in_flight_counter'
           = FlightCounter(on # MotorsToggle(on, s = "corner"), s # "up")
      /\ autopilot_in_flight'
           = FlightAt(FlightCounter(on # MotorsToggle(on, s = "corner"), s # "up"))
  BY <1>5 DEF autopilot_on_rc_frame, Asked, AskedMotors
<1>9. QED
  BY <1>4, <1>7, <1>8

(* With a switch that does not kill, only the kill switch takes the motors   *)
(* away, and the frame that leaves KILL in force has taken them.             *)
LEMMA SwitchLeavesMotors ==
  ASSUME SwitchFlies, Observed, NEW switch \in Switches, NEW kill \in BOOLEAN
  PROVE  /\ ~kill => AskedMotors(switch, kill) = autopilot_motors_on
         /\ Asked(switch, kill).mode = AP_MODE_KILL => ~AskedMotors(switch, kill)
<1> DEFINE sw == autopilot_set_mode(Modes, AP_MODE_OF_PPRZ(switch))
<1>1. AP_MODE_OF_PPRZ(switch) \in SwitchModeSet
  BY DEF Observed, SwitchModeSet, AP_MODE_OF_PPRZ, Switches
<1>2. ~Kills(AP_MODE_OF_PPRZ(switch)) /\ AP_MODE_OF_PPRZ(switch) # AP_MODE_KILL
  BY <1>1 DEF SwitchFlies, Kills
<1>3. ModesOK(Modes) /\ AP_MODE_OF_PPRZ(switch) \in ApModes
  BY ModesNow, SwitchModes DEF Observed, RotorInv
<1>4. /\ ModesOK(sw) /\ sw.mode = AP_MODE_OF_PPRZ(switch)
      /\ sw.motors = autopilot_motors_on
  BY <1>2, <1>3, SetModeOK, SetModeMotors DEF Modes
<1>5. CASE kill
  <2>1. ~autopilot_set_mode(sw, AP_MODE_KILL).motors
    BY <1>2, <1>4, SetModeMotors, PlainModes DEF Kills
  <2>2. QED
    BY <1>5, <2>1 DEF Asked, AskedMotors
<1>6. CASE ~kill
  BY <1>2, <1>4, <1>6 DEF Asked, AskedMotors
<1>7. QED
  BY <1>5, <1>6
-----------------------------------------------------------------------------
(* KILL.                                                                    *)

(* A step that is no frame keeps the mode and the motors, or kills with the  *)
(* motors off, or leaves a mode that is not KILL.                           *)
LEMMA UnwatchedKill ==
  ASSUME "kill" \notin GroundSwitches, Observed, Unwatched,
         autopilot_mode' = AP_MODE_KILL, autopilot_motors_on'
  PROVE  autopilot_mode = AP_MODE_KILL /\ autopilot_motors_on
<1>1. CASE main_periodic
  <2>1. PICK call \in FlightPlan \cup {"none"} : main_periodic!(call)
    BY <1>1 DEF main_periodic
  <2> DEFINE nav   == [Modes EXCEPT !.motors = NavMotors(call)]
             flown == IF Landed(call) THEN autopilot_set_mode(nav, AP_MODE_KILL)
                      ELSE nav
             slot  == (rc_prescale + 1) % RC_PRESCALE
             radio == IF slot = 0
                        THEN autopilot_set_mode(flown, RadioFailsafe(flown))
                        ELSE flown
             gps   == autopilot_set_mode(radio, GpsFailsafe(radio))
  <2>2. AP_MODE_FAILSAFE # AP_MODE_KILL /\ AP_MODE_NAV # AP_MODE_KILL
    BY DEF AP_MODE_FAILSAFE, AP_MODE_KILL, AP_MODE_NAV
  <2>3. /\ ModesOK(nav) /\ nav.mode = autopilot_mode
        /\ nav.motors = NavMotors(call)
    <3>1. ModesOK(Modes)
      BY ModesNow DEF Observed, RotorInv
    <3>2. NavMotors(call) \in BOOLEAN
      BY DEF NavMotors, Observed, RotorInv, RotorTypeOK
    <3>3. QED
      BY <3>1, <3>2 DEF ModesOK, Modes
  <2>4. gps.mode = AP_MODE_KILL /\ gps.motors
    BY <2>1 DEF Become
  <2>5. ModesOK(flown)
    BY <2>3, SetModeOK, PlainModes
  <2>6. RadioFailsafe(flown) \in ApModes /\ ModesOK(radio)
    <3>1. RadioFailsafe(flown) \in ApModes
      BY <2>5, PlainModes DEF RadioFailsafe, ModesOK
    <3>2. QED
      BY <2>5, <3>1, SetModeOK
  <2>7. GpsFailsafe(radio) \in ApModes
    BY <2>6, PlainModes DEF GpsFailsafe, ModesOK
  <2>8. radio.mode = AP_MODE_KILL /\ radio.motors
    <3>1. gps.mode = GpsFailsafe(radio) /\ (gps.motors => radio.motors)
      BY <2>6, <2>7, SetModeOK, SetModeMotors
    <3>2. QED
      BY <2>2, <2>4, <3>1 DEF GpsFailsafe
  <2>9. flown.mode = AP_MODE_KILL /\ flown.motors
    <3>1. CASE slot = 0
      <4>1. radio.mode = RadioFailsafe(flown) /\ (radio.motors => flown.motors)
        BY <2>5, <2>6, <3>1, SetModeOK, SetModeMotors
      <4>2. QED
        BY <2>2, <2>8, <4>1 DEF RadioFailsafe
    <3>2. CASE slot # 0
      BY <2>8, <3>2
    <3>3. QED
      BY <3>1, <3>2
  <2>10. ~Landed(call)
    <3>1. SUFFICES ASSUME Landed(call) PROVE FALSE
      OBVIOUS
    <3>2. nav.mode # AP_MODE_KILL /\ Kills(AP_MODE_KILL)
      BY <2>2, <2>3, <3>1 DEF Landed, Kills
    <3>3. QED
      BY <2>3, <2>9, <3>1, <3>2, SetModeMotors, PlainModes
  <2>11. autopilot_mode = AP_MODE_KILL /\ NavMotors(call)
    BY <2>3, <2>9, <2>10
  <2>12. QED
    BY <2>2, <2>11 DEF NavMotors
<1>2. CASE ~main_periodic
  BY <1>2 DEF Unwatched, RadioFrameCounted, DetectGroundEvent, SetAuto2,
     SetAutopilotRc, autopilot_KillThrottle, GpsWorld, mode_vars
<1>3. QED
  BY <1>1, <1>2

(* In KILL the motors never run against the sticks, in an airframe whose      *)
(* switch does not kill and without the ground's kill setting, which also     *)
(* starts them.  A switch that asks for KILL in KILL would leave the motors   *)
(* that a frame in the corner has started.                                  *)
THEOREM KilledMotorsAreHeld ==
  ASSUME SwitchFlies, "kill" \notin GroundSwitches
  PROVE  MonSpec => []KilledRunsInCorner
<1> DEFINE Held == KilledRunsInCorner /\ corner_run \in Nat
<1>1. MonInit => Held
  BY DEF MonInit, RotorInit, autopilot_init, KilledRunsInCorner
<1>2. Observed /\ Held /\ [MonNext]_mon_vars => Held'
  <2> SUFFICES ASSUME Observed, Held, [MonNext]_mon_vars PROVE Held'
    OBVIOUS
  <2>1. ASSUME NEW s \in Sticks, NEW kill \in BOOLEAN, Watched(s, kill)
        PROVE  Held'
    <3>1. PICK switch \in Switches : RadioFrameAccepted(switch, kill, s)
      BY <2>1 DEF Watched, FrameWith
    <3>2. AUTOPILOT_MOTOR_ON_TIME \in Nat \ {0}
      BY RotorcraftAssumption
    <3>3. corner_run' = IF s = "corner" THEN Up(corner_run, AUTOPILOT_MOTOR_ON_TIME)
                        ELSE 0
      BY <2>1 DEF Watched, Run
    <3>4. corner_run' \in Nat /\ (s = "corner" => corner_run' > 0)
      BY <3>2, <3>3 DEF Up
    <3>5. autopilot_mode' = AP_MODE_KILL /\ autopilot_motors_on' => s = "corner"
      <4> DEFINE on     == AskedMotors(switch, kill)
                 toggle == MotorsToggle(on, s = "corner")
      <4>1. /\ on \in BOOLEAN
            /\ autopilot_mode' = Asked(switch, kill).mode
            /\ autopilot_motors_on' = (on # toggle)
        BY <3>1, FrameCounts
      <4>2. Asked(switch, kill).mode = AP_MODE_KILL => ~on
        BY SwitchLeavesMotors
      <4>3. toggle \in BOOLEAN /\ (toggle => s = "corner")
        BY Zenon DEF MotorsToggle
      <4> HIDE DEF on, toggle
      <4>4. QED
        BY <4>1, <4>2, <4>3
    <3>6. QED
      BY <3>4, <3>5 DEF KilledRunsInCorner
  <2>2. CASE Unwatched
    <3>1. corner_run' = corner_run
      BY <2>2 DEF Unwatched
    <3>2. QED
      BY <2>2, <3>1, UnwatchedKill DEF KilledRunsInCorner
  <2>3. CASE UNCHANGED mon_vars
    BY <2>3 DEF mon_vars, rotor_vars, mode_vars, KilledRunsInCorner
  <2>4. QED
    BY <2>1, <2>2, <2>3 DEF MonNext
<1>3. Held => KilledRunsInCorner
  OBVIOUS
<1>4. QED
  BY <1>1, <1>2, <1>3, ObservedInit, ObservedStep, PTL DEF MonSpec
-----------------------------------------------------------------------------
(* Flights.                                                                 *)

(* What has still to be counted is never less than what the sticks owe.      *)
ThrottleInv ==
  /\ up_run \in 0 .. AUTOPILOT_IN_FLIGHT_TIME
  /\ down_run \in 0 .. AUTOPILOT_IN_FLIGHT_TIME
  /\ autopilot_motors_on /\ ~autopilot_in_flight =>
       autopilot_in_flight_counter <= up_run
  /\ autopilot_in_flight =>
       AUTOPILOT_IN_FLIGHT_TIME - autopilot_in_flight_counter <= down_run

(* Only a frame starts the motors when neither the flight plan nor the       *)
(* ground does.                                                             *)
LEMMA UnwatchedMotors ==
  ASSUME "resurrect" \notin FlightPlan, "kill" \notin GroundSwitches,
         Observed, Unwatched, autopilot_motors_on'
  PROVE  autopilot_motors_on
<1>1. CASE main_periodic
  <2>1. PICK call \in FlightPlan \cup {"none"} : main_periodic!(call)
    BY <1>1 DEF main_periodic
  <2> DEFINE nav   == [Modes EXCEPT !.motors = NavMotors(call)]
             flown == IF Landed(call) THEN autopilot_set_mode(nav, AP_MODE_KILL)
                      ELSE nav
             slot  == (rc_prescale + 1) % RC_PRESCALE
             radio == IF slot = 0
                        THEN autopilot_set_mode(flown, RadioFailsafe(flown))
                        ELSE flown
             gps   == autopilot_set_mode(radio, GpsFailsafe(radio))
  <2>2. ModesOK(nav) /\ nav.motors = NavMotors(call)
    <3>1. ModesOK(Modes)
      BY ModesNow DEF Observed, RotorInv
    <3>2. NavMotors(call) \in BOOLEAN
      BY DEF NavMotors, Observed, RotorInv, RotorTypeOK
    <3>3. QED
      BY <3>1, <3>2 DEF ModesOK, Modes
  <2>3. ModesOK(flown) /\ (flown.motors => nav.motors)
    BY <2>2, SetModeOK, SetModeMotors, PlainModes
  <2>4. RadioFailsafe(flown) \in ApModes
    BY <2>3, PlainModes DEF RadioFailsafe, ModesOK
  <2>5. ModesOK(radio) /\ (radio.motors => flown.motors)
    BY <2>3, <2>4, SetModeOK, SetModeMotors
  <2>6. GpsFailsafe(radio) \in ApModes
    BY <2>5, PlainModes DEF GpsFailsafe, ModesOK
  <2>7. gps.motors => radio.motors
    BY <2>5, <2>6, SetModeMotors
  <2>8. gps.motors
    BY <2>1 DEF Become
  <2>9. NavMotors(call)
    BY <2>2, <2>3, <2>5, <2>7, <2>8
  <2>10. call # "resurrect"
    OBVIOUS
  <2>11. QED
    BY <2>9, <2>10 DEF NavMotors
<1>2. CASE ~main_periodic
  BY <1>2 DEF Unwatched, RadioFrameCounted, DetectGroundEvent, SetAuto2,
     SetAutopilotRc, autopilot_KillThrottle, GpsWorld
<1>3. QED
  BY <1>1, <1>2

(* A frame, in or out of flight.                                            *)
LEMMA FrameThrottle ==
  ASSUME Observed, ThrottleInv, NEW s \in Sticks, NEW kill \in BOOLEAN,
         Watched(s, kill)
  PROVE  /\ ThrottleInv'
         /\ ~autopilot_in_flight /\ autopilot_in_flight'
              => up_run' = AUTOPILOT_IN_FLIGHT_TIME
         /\ autopilot_in_flight /\ ~autopilot_in_flight'
              => down_run' = AUTOPILOT_IN_FLIGHT_TIME
<1>1. PICK switch \in Switches : RadioFrameAccepted(switch, kill, s)
  BY DEF Watched, FrameWith
<1> DEFINE T  == AUTOPILOT_IN_FLIGHT_TIME
           c  == autopilot_in_flight_counter
           on == AskedMotors(switch, kill)
           d  == FlightCounter(autopilot_motors_on', s # "up")
<1>2. /\ T \in Nat \ {0} /\ c \in 0 .. T
      /\ autopilot_in_flight \in BOOLEAN /\ autopilot_motors_on \in BOOLEAN
      /\ FlightNeverStuck
  BY RotorcraftAssumption DEF Observed, RotorInv, RotorTypeOK
<1>3. /\ on \in BOOLEAN /\ (on => autopilot_motors_on)
      /\ autopilot_motors_on' = (on # MotorsToggle(on, s = "corner"))
      /\ autopilot_in_flight_counter' = d
      /\ autopilot_in_flight' = FlightAt(d)
  BY <1>1, FrameCounts
<1>4. autopilot_motors_on' /\ s = "up" => autopilot_motors_on
  <2> DEFINE toggle == MotorsToggle(on, s = "corner")
  <2>1. toggle \in BOOLEAN /\ (s = "up" => ~toggle)
    BY DEF MotorsToggle
  <2>2. /\ on \in BOOLEAN /\ (on => autopilot_motors_on)
        /\ autopilot_motors_on' = (on # toggle)
    BY <1>3
  <2> HIDE DEF on, toggle
  <2>3. QED
    BY <2>1, <2>2
<1>5. /\ up_run' = IF s = "up" /\ autopilot_motors_on' THEN Up(up_run, T) ELSE 0
      /\ down_run' = IF s # "up" THEN Up(down_run, T) ELSE 0
  BY DEF Watched, Run
<1>6. up_run' \in 0 .. T /\ down_run' \in 0 .. T
  BY <1>2, <1>5 DEF Up, ThrottleInv
<1>7. CASE autopilot_in_flight
  <2>1. c > 0 /\ T - c <= down_run
    BY <1>7, <1>2 DEF FlightNeverStuck, ThrottleInv
  <2>2. d = IF s # "up" THEN c - 1 ELSE T
    BY <1>7, <2>1 DEF FlightCounter
  <2>3. autopilot_in_flight' = (d > 0)
    <3>1. CASE d = c
      BY <1>3, <1>7, <2>1, <3>1 DEF FlightAt
    <3>2. CASE d # c
      BY <1>3, <1>7, <3>2 DEF FlightAt
    <3>3. QED
      BY <3>1, <3>2
  <2>4. T - d <= down_run'
    BY <1>2, <1>5, <2>1, <2>2 DEF Up, ThrottleInv
  <2>5. d = 0 => down_run' = T
    BY <1>2, <1>6, <2>4
  <2>6. d <= 0 => d <= up_run'
    BY <1>2, <1>6, <2>2
  <2>7. d \in Int
    BY <1>2, <2>2
  <2>8. autopilot_in_flight' => d > 0
    BY <2>3
  <2>9. ~autopilot_in_flight' => d = 0
    <3>1. ~autopilot_in_flight' => ~(d > 0)
      BY <2>3
    <3>2. QED
      BY <3>1, <1>2, <2>1, <2>2
  <2>10. ThrottleInv'
    BY <1>3, <1>6, <2>4, <2>6, <2>9 DEF ThrottleInv
  <2>11. QED
    BY <1>7, <2>5, <2>9, <2>10
<1>8. CASE ~autopilot_in_flight
  <2>1. c < T
    BY <1>8, <1>2 DEF FlightNeverStuck
  <2>2. d = IF ~autopilot_motors_on' THEN c
            ELSE IF s # "up" THEN 0 ELSE c + 1
    BY <1>2, <1>8, <2>1 DEF FlightCounter, Up
  <2>3. autopilot_in_flight' = (d = T)
    <3>1. CASE d = c
      BY <1>2, <1>3, <1>8, <2>1, <3>1 DEF FlightAt
    <3>2. CASE d # c
      BY <1>3, <1>8, <3>2 DEF FlightAt
    <3>3. QED
      BY <3>1, <3>2
  <2> HIDE DEF d
  <2>4. autopilot_motors_on' => d <= up_run'
    <3>1. CASE s = "up" /\ autopilot_motors_on'
      <4>1. c <= up_run
        BY <1>4, <1>8, <3>1 DEF ThrottleInv
      <4>2. up_run' = Up(up_run, T) /\ d = c + 1
        BY <1>5, <2>2, <3>1
      <4>3. QED
        BY <4>1, <4>2, <1>2, <2>1 DEF Up, ThrottleInv
    <3>2. CASE s # "up" /\ autopilot_motors_on'
      <4>1. d = 0
        BY <2>2, <3>2
      <4>2. QED
        BY <4>1, <1>2, <1>6
    <3>3. QED
      BY <3>1, <3>2
  <2>5. autopilot_in_flight' => d = T /\ up_run' = T
    <3>1. autopilot_in_flight' => d = T
      BY <2>3
    <3>2. d = T => autopilot_motors_on'
      BY <1>2, <2>1, <2>2
    <3>3. d = T /\ d <= up_run' => up_run' = T
      BY <1>2, <1>6
    <3>4. QED
      BY <3>1, <3>2, <3>3, <2>4
  <2>6. ThrottleInv'
    BY <1>2, <1>3, <1>6, <2>4, <2>5 DEF ThrottleInv
  <2>7. QED
    BY <1>8, <2>5, <2>6
<1>9. QED
  BY <1>2, <1>7, <1>8

(* A takeoff is seen only after the whole count with the motors on and the    *)
(* throttle up, a landing after as many with it down, where neither the       *)
(* flight plan nor the ground starts the motors: arming by the sticks clears  *)
(* what an earlier run has left in the count, the other two do not.          *)
THEOREM FlightsAreFlown ==
  ASSUME "resurrect" \notin FlightPlan, "kill" \notin GroundSwitches
  PROVE  MonSpec => FlightTakesThrottle
<1>1. MonInit => ThrottleInv
  BY RotorcraftAssumption, SMT
     DEF MonInit, RotorInit, autopilot_init, ThrottleInv
<1>2. ASSUME Observed, ThrottleInv, [MonNext]_mon_vars
      PROVE  /\ ThrottleInv'
             /\ ~autopilot_in_flight /\ autopilot_in_flight'
                  => up_run' = AUTOPILOT_IN_FLIGHT_TIME
             /\ autopilot_in_flight /\ ~autopilot_in_flight'
                  => down_run' = AUTOPILOT_IN_FLIGHT_TIME
  <2>1. CASE \E s \in Sticks, kill \in BOOLEAN : Watched(s, kill)
    BY <1>2, <2>1, FrameThrottle
  <2>2. CASE Unwatched
    <3>1. UNCHANGED <<count_vars, up_run, down_run>>
      BY <2>2 DEF Unwatched, main_periodic, RadioFrameCounted,
         DetectGroundEvent, SetAuto2, SetAutopilotRc, autopilot_KillThrottle,
         GpsWorld
    <3>2. autopilot_motors_on' => autopilot_motors_on
      BY <1>2, <2>2, UnwatchedMotors
    <3>3. QED
      BY <1>2, <3>1, <3>2 DEF ThrottleInv, count_vars
  <2>3. CASE UNCHANGED mon_vars
    BY <1>2, <2>3 DEF mon_vars, rotor_vars, count_vars, ThrottleInv
  <2>4. QED
    BY <1>2, <2>1, <2>2, <2>3 DEF MonNext
<1>3. Observed /\ ThrottleInv /\ [MonNext]_mon_vars => ThrottleInv'
  BY <1>2
<1>4. Observed /\ ThrottleInv /\ [MonNext]_mon_vars
        => [/\ (~autopilot_in_flight /\ autopilot_in_flight'
                  => up_run' = AUTOPILOT_IN_FLIGHT_TIME)
            /\ (autopilot_in_flight /\ ~autopilot_in_flight'
                  => down_run' = AUTOPILOT_IN_FLIGHT_TIME)]_mon_vars
  BY <1>2
<1>5. QED
  BY <1>1, <1>3, <1>4, ObservedInit, ObservedStep, PTL
     DEF MonSpec, FlightTakesThrottle
-----------------------------------------------------------------------------
(* Arming.                                                                  *)

(* Unless the motors have been cut, the frames in the corner make up what     *)
(* the count has run, up from zero or down from its end.                     *)
CornerInv ==
  /\ corner_run \in 0 .. AUTOPILOT_MOTOR_ON_TIME
  /\ cut \in BOOLEAN
  /\ ~cut /\ ~autopilot_motors_on => autopilot_motors_on_counter <= corner_run
  /\ ~cut /\ autopilot_motors_on =>
       AUTOPILOT_MOTOR_ON_TIME - autopilot_motors_on_counter <= corner_run

(* A run of frames and a count that keep pace reach their ends together.     *)
LEMMA CountsMeet ==
  ASSUME NEW M \in Nat \ {0}, NEW c \in 0 .. M, NEW run \in 0 .. M
  PROVE  /\ M - c <= run => /\ M - Down(c) <= Up(run, M)
                            /\ c = 1 => Up(run, M) = M /\ Down(c) = 0
         /\ c <= run => /\ Up(c, M) <= Up(run, M)
                        /\ c = M - 1 => Up(run, M) = M /\ Up(c, M) = M
  BY DEF Up, Down

(* A frame in the corner.                                                   *)
LEMMA CornerCounts ==
  ASSUME Observed, CornerInv, ~cut
  PROVE  LET on  == autopilot_motors_on
             run == Up(corner_run, AUTOPILOT_MOTOR_ON_TIME)
             m   == MotorsCounter(on, TRUE)
         IN IF MotorsToggle(on, TRUE)
              THEN /\ run = AUTOPILOT_MOTOR_ON_TIME
                   /\ m = IF on THEN 0 ELSE AUTOPILOT_MOTOR_ON_TIME
              ELSE IF on THEN AUTOPILOT_MOTOR_ON_TIME - m <= run ELSE m <= run
<1> DEFINE M   == AUTOPILOT_MOTOR_ON_TIME
           c   == autopilot_motors_on_counter
           on  == autopilot_motors_on
           run == Up(corner_run, M)
           m   == MotorsCounter(on, TRUE)
<1>1. M \in Nat \ {0} /\ c \in 0 .. M /\ corner_run \in 0 .. M /\ on \in BOOLEAN
  BY RotorcraftAssumption DEF Observed, RotorInv, RotorTypeOK, CornerInv
<1>2. CASE on
  <2>1. M - c <= corner_run /\ m = Down(c) /\ (MotorsToggle(on, TRUE) <=> c = 1)
    BY <1>2 DEF CornerInv, MotorsCounter, MotorsToggle
  <2>2. M - Down(c) <= run /\ (c = 1 => run = M /\ Down(c) = 0)
    BY <1>1, <2>1, CountsMeet
  <2>3. QED
    BY <1>2, <2>1, <2>2
<1>3. CASE ~on
  <2>1. /\ c <= corner_run /\ m = Up(c, M)
        /\ MotorsToggle(on, TRUE) <=> c = M - 1
    BY <1>3 DEF CornerInv, MotorsCounter, MotorsToggle
  <2>2. Up(c, M) <= run /\ (c = M - 1 => run = M /\ Up(c, M) = M)
    BY <1>1, <2>1, CountsMeet
  <2>3. QED
    BY <1>3, <2>1, <2>2
<1>4. QED
  BY <1>2, <1>3

LEMMA FrameCorner ==
  ASSUME SwitchFlies, Observed, CornerInv, NEW s \in Sticks,
         NEW kill \in BOOLEAN, Watched(s, kill)
  PROVE  /\ CornerInv'
         /\ autopilot_motors_on' # autopilot_motors_on
              => corner_run' = AUTOPILOT_MOTOR_ON_TIME \/ cut \/ cut'
<1>1. PICK switch \in Switches : RadioFrameAccepted(switch, kill, s)
  BY DEF Watched, FrameWith
<1> DEFINE M      == AUTOPILOT_MOTOR_ON_TIME
           on     == AskedMotors(switch, kill)
           toggle == MotorsToggle(on, s = "corner")
<1>2. /\ M \in Nat \ {0} /\ autopilot_motors_on \in BOOLEAN
      /\ autopilot_motors_on_counter \in 0 .. M
  BY RotorcraftAssumption DEF Observed, RotorInv, RotorTypeOK
<1>3. /\ on \in BOOLEAN /\ (on => autopilot_motors_on)
      /\ autopilot_motors_on' = (on # toggle)
      /\ autopilot_motors_on_counter' = MotorsCounter(on, s = "corner")
  BY <1>1, FrameCounts
<1>4. /\ corner_run' = IF s = "corner" THEN Up(corner_run, M) ELSE 0
      /\ cut' = \/ kill /\ autopilot_motors_on
                \/ cut /\ s = "corner"
  BY DEF Watched, Run
<1>5. corner_run' \in 0 .. M /\ cut' \in BOOLEAN
  BY <1>2, <1>4 DEF Up, CornerInv
<1>6. (kill /\ autopilot_motors_on) \/ on = autopilot_motors_on
  <2>1. CASE kill /\ ~autopilot_motors_on
    <3>1. on = FALSE /\ autopilot_motors_on = FALSE
      BY <1>2, <1>3, <2>1
    <3>2. QED
      BY <3>1
  <2>2. CASE ~kill
    BY <2>2, SwitchLeavesMotors
  <2>3. QED
    BY <1>2, <2>1, <2>2
<1>7. CASE cut'
  BY <1>5, <1>7 DEF CornerInv
<1>8. CASE ~cut' /\ s # "corner"
  <2>1. on = autopilot_motors_on
    BY <1>4, <1>6, <1>8
  <2>2. toggle = FALSE
    BY <1>8 DEF MotorsToggle
  <2>3. autopilot_motors_on' = on
    BY <1>3, <2>2
  <2>4. autopilot_motors_on_counter' = IF on THEN M ELSE 0
    BY <1>3, <1>8 DEF MotorsCounter
  <2>5. QED
    BY <1>2, <1>4, <1>5, <2>1, <2>3, <2>4 DEF CornerInv
<1>9. CASE ~cut' /\ s = "corner"
  <2>1. on = autopilot_motors_on /\ ~cut
    BY <1>4, <1>6, <1>9
  <2>2. /\ toggle = MotorsToggle(on, TRUE) /\ toggle \in BOOLEAN
        /\ autopilot_motors_on_counter' = MotorsCounter(on, TRUE)
        /\ corner_run' = Up(corner_run, M)
    <3>1. (s = "corner") = TRUE
      BY <1>9
    <3>2. QED
      BY <1>3, <1>4, <1>9, <3>1 DEF MotorsToggle
  <2>3. IF toggle THEN /\ corner_run' = M
                       /\ autopilot_motors_on_counter' = IF on THEN 0 ELSE M
        ELSE IF on THEN M - autopilot_motors_on_counter' <= corner_run'
             ELSE autopilot_motors_on_counter' <= corner_run'
    <3>1. corner_run' \in Nat
      BY <1>2, <1>5
    <3>2. QED
      BY <1>3, <2>1, <2>2, <3>1, CornerCounts
  <2>4. autopilot_motors_on' = (on # toggle) /\ on \in BOOLEAN
    BY <1>3
  <2> HIDE DEF on, toggle
  <2>5. CASE toggle
    <3>1. autopilot_motors_on' = ~on
      BY <2>2, <2>4, <2>5
    <3>2. /\ on => ~autopilot_motors_on' /\ autopilot_motors_on_counter' = 0
          /\ ~on => autopilot_motors_on' /\ autopilot_motors_on_counter' = M
      BY <2>3, <2>5, <3>1
    <3>3. CornerInv'
      <4>1. corner_run' = M
        BY <2>3, <2>5
      <4>2. autopilot_motors_on' => autopilot_motors_on_counter' = M
        BY <2>4, <3>2
      <4>3. ~autopilot_motors_on' => autopilot_motors_on_counter' = 0
        BY <2>4, <3>2
      <4>4. QED
        BY <1>2, <1>5, <4>1, <4>2, <4>3 DEF CornerInv
    <3>4. QED
      BY <2>3, <2>5, <3>3
  <2>6. CASE ~toggle
    <3>1. autopilot_motors_on' = on
      BY <2>2, <2>4, <2>6
    <3>2. QED
      BY <1>5, <2>1, <2>3, <2>6, <3>1 DEF CornerInv
  <2>7. QED
    BY <2>5, <2>6
<1>10. QED
  BY <1>7, <1>8, <1>9

(* The motors start and stop by the sticks only after the whole count in the   *)
(* corner, in an airframe whose switch does not kill: whatever else stops or  *)
(* starts them in the middle of a count, the count is right again when the    *)
(* sticks have left the corner.                                             *)
THEOREM MotorsTakeCorner ==
  ASSUME SwitchFlies
  PROVE  MonSpec => ToggleTakesCorner
<1>1. MonInit => CornerInv
  <2> SUFFICES ASSUME MonInit PROVE CornerInv
    OBVIOUS
  <2>1. /\ ~autopilot_motors_on /\ autopilot_motors_on_counter = 0
        /\ corner_run = 0 /\ cut = FALSE
    BY DEF MonInit, RotorInit, autopilot_init
  <2>2. 0 \in 0 .. AUTOPILOT_MOTOR_ON_TIME
    BY RotorcraftAssumption
  <2>3. autopilot_motors_on_counter <= corner_run
    BY <2>1
  <2>4. QED
    BY <2>1, <2>2, <2>3, Zenon DEF CornerInv
<1>2. ASSUME Observed, CornerInv, [MonNext]_mon_vars
      PROVE  /\ CornerInv'
             /\ autopilot_motors_on' # autopilot_motors_on
                  => corner_run' = AUTOPILOT_MOTOR_ON_TIME \/ cut \/ cut'
  <2>1. CASE \E s \in Sticks, kill \in BOOLEAN : Watched(s, kill)
    BY <1>2, <2>1, FrameCorner
  <2>2. CASE Unwatched
    <3>1. autopilot_motors_on_counter' = autopilot_motors_on_counter
      BY <2>2 DEF Unwatched, main_periodic, RadioFrameCounted,
         DetectGroundEvent, SetAuto2, SetAutopilotRc, autopilot_KillThrottle,
         GpsWorld, count_vars
    <3>2. /\ corner_run' = corner_run
          /\ cut' = (cut \/ autopilot_motors_on' # autopilot_motors_on)
      BY <2>2 DEF Unwatched
    <3>3. CASE autopilot_motors_on' = autopilot_motors_on
      BY <1>2, <3>1, <3>2, <3>3 DEF CornerInv
    <3>4. CASE autopilot_motors_on' # autopilot_motors_on
      BY <1>2, <3>1, <3>2, <3>4 DEF CornerInv
    <3>5. QED
      BY <3>3, <3>4
  <2>3. CASE UNCHANGED mon_vars
    BY <1>2, <2>3 DEF mon_vars, rotor_vars, count_vars, CornerInv
  <2>4. QED
    BY <1>2, <2>1, <2>2, <2>3 DEF MonNext
<1>3. Observed /\ CornerInv /\ [MonNext]_mon_vars => CornerInv'
  BY <1>2
<1>4. Observed /\ CornerInv /\ [MonNext]_mon_vars
        => [autopilot_motors_on' # autopilot_motors_on
              => corner_run' = AUTOPILOT_MOTOR_ON_TIME \/ cut \/ cut']_mon_vars
  BY <1>2
<1>5. QED
  BY <1>1, <1>3, <1>4, ObservedInit, ObservedStep, PTL
     DEF MonSpec, ToggleTakesCorner
=============================================================================
