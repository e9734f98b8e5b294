SPECIFICATION MonSpec
CONSTANTS
  RC_LOST_TIME = 1
  RC_REALLY_LOST_TIME = 2
  RC_OK_CPT = 1
  RC_PRESCALE = 2
  AUTOPILOT_MOTOR_ON_TIME = 2
  AUTOPILOT_IN_FLIGHT_TIME = 2
  KILL_AS_FAILSAFE = TRUE
  FAILSAFE_GROUND_DETECT = TRUE
  RADIO_KILL_SWITCH = TRUE
  USE_GPS = TRUE
  GroundSwitches = {"rc"}
  FlightPlan = {"start_detect"}
  MODE_MANUAL <- MCManual
  MODE_AUTO1 <- MCAuto1
  MODE_AUTO2 <- MCAuto2
  Auto2Modes <- MCAuto2Modes
INVARIANTS KilledRunsInCorner
PROPERTIES ToggleTakesCorner FlightTakesThrottle NobodyLeftFailsafe GroundKills
