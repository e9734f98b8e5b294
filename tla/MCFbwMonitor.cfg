SPECIFICATION MonSpec
CONSTANTS
  RC_LOST_TIME = 2
  RC_REALLY_LOST_TIME = 4
  RC_OK_CPT = 3
  AP_STALLED_TIME = 4
  MIN_PPRZ <- MCMin
  MAX_PPRZ <- MCMax
  RadioModeValues <- MCModes
INVARIANTS StaleAutoBounded
PROPERTIES SilentApNeverFlies AuthoritySpec RegainNeedsFrames LinkRegained BothSilentFailsafe
