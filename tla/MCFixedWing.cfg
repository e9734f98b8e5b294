SPECIFICATION FwSpec
CONSTANTS
  RC_LOST_TIME = 1
  RC_REALLY_LOST_TIME = 2
  RC_OK_CPT = 1
  AP_STALLED_TIME = 2
  MIN_PPRZ <- MCMin
  MAX_PPRZ <- MCMax
  RadioModeValues <- MCTwoModes
  UNLOCKED_HOME_MODE = FALSE
  RC_LOST_MODE = "HOME"
  CTL_PERIOD = 1
  NAV_PERIOD = 2
  SEC_PERIOD = 2
  LOW_BATTERY_DELAY = 0
  BATTERY_WRAP = 1
  GroundSettings = {"launch"}
  FlightPlan = {}
PROPERTIES ApNeverStalls FbwImplemented LostPilotFliesHome 
