SPECIFICATION ApMonSpec
CONSTANTS
  MIN_PPRZ <- MCMin
  MAX_PPRZ <- MCMax
  RadioModeValues <- MCModes
  UNLOCKED_HOME_MODE = FALSE
  RC_LOST_MODE = "HOME"
  CTL_PERIOD = 2
  NAV_PERIOD = 4
  SEC_PERIOD = 8
  LOW_BATTERY_DELAY = 2
  BATTERY_WRAP = 4
  GroundSettings <- MCModeFreeSettings
  FlightPlan = {"kill", "resurrect", "reset"}
INVARIANTS  GoneKills
PROPERTIES HomeIsForever GpsReturns TooFarGoesHome
