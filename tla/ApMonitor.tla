----------------------------- MODULE ApMonitor -----------------------------
(***************************************************************************)
(* Ap with an observer that measures, in ticks, how long the aircraft has   *)
(* been told to keep its motor off, and how long it has been gone.          *)
(***************************************************************************)
EXTENDS Ap

VARIABLES
  off_for,   \* ticks in which the motor had to be off
  gone_for   \* ticks launched, located, past the kill distance, unpardoned

apmon_vars == <<ap_vars, off_for, gone_for>>

(* An autonomous aircraft that is killed, or that nobody launched.          *)
MotorOff == /\ pprz_mode \in Autonomous
            /\ kill_throttle \/ (~estimator_flight_time /\ ~launch)

Gone == /\ launch /\ position = "gone"
        /\ pprz_mode # PPRZ_MODE_GPS_OUT_OF_ORDER
        /\ ~gps_timeout

(* The ground or the flight plan takes the kill back, be it in the very tick  *)
(* that killed, and the check begins anew.                                  *)
Pardoned == /\ ~kill_throttle'
            /\ kill_throttle \/ (NextTick /\ ap_tick' = 0 /\ Killed(TRUE))

KillDelay == NAV_PERIOD + SEC_PERIOD

(* Ticks a condition has lasted, up to a limit.                             *)
Lasted(n, holds, limit) ==
  IF ~holds THEN 0
  ELSE IF ap_tick' # ap_tick /\ n < limit THEN n + 1 ELSE n

ApMonInit == ApInit /\ off_for = 0 /\ gone_for = 0

ApMonNext ==
  /\ ApNext
  /\ off_for' = Lasted(off_for, MotorOff', NAV_PERIOD)
  /\ gone_for' = Lasted(gone_for, Gone' /\ ~Pardoned, KillDelay)

ApMonSpec == ApMonInit /\ [][ApMonNext]_apmon_vars /\ ApFairness

-----------------------------------------------------------------------------
(* The throttle sent to the FBW is zero at the latest one navigation period  *)
(* after the motor has to be off, and stays zero while it has to: a stick    *)
(* throttle left behind by AUTO1 does not survive, nor one the flight plan    *)
(* chose (navigation_task's last test against telecommand_task's copy).      *)
KillHolds == off_for = NAV_PERIOD => throttle = "zero"

(* Past the kill distance, the motor is killed within a second and one       *)
(* navigation period, although the check uses the distance navigation left,  *)
(* and again within as much if the ground or the flight plan takes the kill   *)
(* back.                                                                    *)
GoneKills == gone_for = KillDelay => kill_throttle
=============================================================================
