SPECIFICATION RotorSafety
CONSTANTS
  RC_LOST_TIME = 1
  RC_REALLY_LOST_TIME = 2
  RC_OK_CPT = 1
  RC_PRESCALE = 2
  AUTOPILOT_MOTOR_ON_TIME = 2
  AUTOPILOT_IN_FLIGHT_TIME = 2
  KILL_AS_FAILSAFE = FALSE
  FAILSAFE_GROUND_DETECT = TRUE
  RADIO_KILL_SWITCH = TRUE
  USE_GPS = TRUE
  GroundSwitches = {"kill", "rc"}
  FlightPlan = {"kill", "resurrect", "start_detect", "detect"}
  MODE_MANUAL <- MCManual
  MODE_AUTO1 <- MCAuto1
  MODE_AUTO2 <- MCAuto2
  Auto2Modes <- MCAuto2Modes
INVARIANTS LostRadioMode ThrustHasLaw
