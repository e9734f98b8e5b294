SPECIFICATION RotorSafety
CONSTANTS
  RC_LOST_TIME = 1
  RC_REALLY_LOST_TIME = 2
  RC_OK_CPT = 1
  RC_PRESCALE = 2
  AUTOPILOT_MOTOR_ON_TIME = 2
  AUTOPILOT_IN_FLIGHT_TIME = 2
  KILL_AS_FAILSAFE = FALSE
  FAILSAFE_GROUND_DETECT = FALSE
  RADIO_KILL_SWITCH = FALSE
  USE_GPS = TRUE
  GroundSwitches = {}
  FlightPlan = {}
  MODE_MANUAL <- MCManual
  MODE_AUTO1 <- MCClimbAuto1
  MODE_AUTO2 <- MCClimbAuto2
  Auto2Modes <- MCClimbModes
INVARIANTS RcClimbStabilized
