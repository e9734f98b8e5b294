SPECIFICATION ApSpec
CONSTANTS
  MIN_PPRZ <- MCMin
  MAX_PPRZ <- MCMax
  RadioModeValues <- MCModes
  UNLOCKED_HOME_MODE = TRUE
  RC_LOST_MODE = "HOME"
  CTL_PERIOD = 2
  NAV_PERIOD = 4
  SEC_PERIOD = 8
  LOW_BATTERY_DELAY = 2
  BATTERY_WRAP = 4
  GroundSettings <- MCNoSettings
  FlightPlan = {"kill", "resurrect"}
PROPERTIES GpsReturnOnlyFromFailsafe
