---------------------------- MODULE MCRotorcraft ----------------------------
(* Rotorcraft on small instances.  The ground may make AUTO2 a mode flown by *)
(* NAV, one without a horizontal law, or FAILSAFE itself.                    *)
EXTENDS Rotorcraft

MCManual == AP_MODE_ATTITUDE_DIRECT
MCAuto1  == AP_MODE_RATE_RC_CLIMB
MCAuto2  == AP_MODE_NAV
MCAuto2Modes == {AP_MODE_NAV, AP_MODE_FAILSAFE, AP_MODE_HOVER_Z_HOLD}
MCClimbAuto1 == AP_MODE_ATTITUDE_RC_CLIMB
MCClimbAuto2 == AP_MODE_ATTITUDE_Z_HOLD
MCClimbModes == {AP_MODE_ATTITUDE_Z_HOLD}
=============================================================================
