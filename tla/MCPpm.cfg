SPECIFICATION PpmSpec
CONSTANTS
  RC_LOST_TIME = 2
  RC_REALLY_LOST_TIME = 4
  RC_OK_CPT = 2
  PPM_NB_CHANNEL = 3
PROPERTIES FramesAreWhole ValuesFromFrame CleanLinkComesUp NoiseIsNoLink
