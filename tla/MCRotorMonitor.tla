--------------------------- MODULE MCRotorMonitor ---------------------------
(* RotorMonitor on a small instance: a build in which the kill switch, the   *)
(* ground and FAILSAFE cut the motors that the sticks start and stop.        *)
EXTENDS RotorMonitor

MCManual == AP_MODE_ATTITUDE_DIRECT
MCAuto1  == AP_MODE_RATE_RC_CLIMB
MCAuto2  == AP_MODE_NAV
MCAuto2Modes == {AP_MODE_NAV, AP_MODE_HOVER_Z_HOLD}
=============================================================================
