SPECIFICATION FpSpec
CONSTANTS
  NB_BLOCK = 6
  Plan <- MCPlan
  GlobalExceptions <- MCExceptions
  Sensed <- MCSensed
  NAV_PER_SEC = 4
  TIME_WRAP = 3
  STAGE_WRAP = 8
INVARIANTS NoReturnLoop
PROPERTIES StagesAreFlown  LostLinkObeyed
