---------------------------- MODULE RotorMonitor ----------------------------
(***************************************************************************)
(* Rotorcraft with an observer of the sticks: what the pilot really did, in *)
(* frames that reached the autopilot, against what the autopilot concludes  *)
(* from it about the motors and the flight.                                 *)
(***************************************************************************)
EXTENDS Rotorcraft

VARIABLES
  corner_run,  \* accepted frames in a row with the sticks in the corner
  up_run,      \* the last accepted frames in a row with the throttle up ...
  down_run,    \* ... and with it down
  cut          \* the motors were cut, and the sticks have not left the corner

mon_vars == <<rotor_vars, corner_run, up_run, down_run, cut>>

(* An accepted frame with the sticks at s and the kill switch at kill.      *)
FrameWith(s, kill) == \E switch \in Switches : RadioFrameAccepted(switch, kill, s)

Run(n, limit, goes_on) == IF goes_on THEN Up(n, limit) ELSE 0

Watched(s, kill) ==
  /\ FrameWith(s, kill)
  /\ corner_run' = Run(corner_run, AUTOPILOT_MOTOR_ON_TIME, s = "corner")
  /\ up_run'     = Run(up_run, AUTOPILOT_IN_FLIGHT_TIME,
                       s = "up" /\ autopilot_motors_on')
  /\ down_run'   = Run(down_run, AUTOPILOT_IN_FLIGHT_TIME, s # "up")
  /\ cut' = \/ kill /\ autopilot_motors_on
            \/ cut /\ s = "corner"

Unwatched ==
  /\ \/ main_periodic \/ RadioFrameCounted \/ DetectGroundEvent
     \/ SetAuto2 \/ SetAutopilotRc \/ autopilot_KillThrottle \/ GpsWorld
  /\ cut' = (cut \/ autopilot_motors_on' # autopilot_motors_on)
  /\ UNCHANGED <<corner_run, up_run, down_run>>

MonInit == RotorInit /\ corner_run = 0 /\ up_run = 0 /\ down_run = 0
                     /\ cut = FALSE
MonNext == (\E s \in Sticks, kill \in BOOLEAN : Watched(s, kill)) \/ Unwatched
MonSpec == MonInit /\ [][MonNext]_mon_vars /\ WF_rotor_vars(main_periodic)

-----------------------------------------------------------------------------
(* The motors start and stop only after AUTOPILOT_MOTOR_ON_TIME frames in a  *)
(* row in the corner, unless the kill switch or FAILSAFE cuts them: one      *)
(* count serves both directions, and what it holds when one ends is where    *)
(* the other begins.  A cut in the middle of a count leaves a count that is  *)
(* right again only when the sticks have left the corner.                   *)
ToggleTakesCorner ==
  [][autopilot_motors_on' # autopilot_motors_on
       => corner_run' = AUTOPILOT_MOTOR_ON_TIME \/ cut \/ cut']_mon_vars

(* In KILL, where frames in the corner still arm, the motors never run       *)
(* against the sticks: the last frame was in the corner, and the first one   *)
(* out of it, or the next with the kill switch on, stops them                *)
(* (autopilot_on_rc_frame cuts before it looks at the corner).               *)
KilledRunsInCorner ==
  autopilot_mode = AP_MODE_KILL /\ autopilot_motors_on => corner_run > 0

(* A flight is detected only after AUTOPILOT_IN_FLIGHT_TIME frames in a row  *)
(* with the motors on and the throttle up, although frames with the motors   *)
(* off leave the count as it is: arming by the sticks takes frames with the  *)
(* throttle down, and they clear it.  (Motors that NavResurrect or a ground  *)
(* setting starts find the old count, so this holds where neither does.)     *)
(* A landing takes as many frames with the throttle down.                   *)
FlightTakesThrottle ==
  [][/\ (~autopilot_in_flight /\ autopilot_in_flight'
           => up_run' = AUTOPILOT_IN_FLIGHT_TIME)
     /\ (autopilot_in_flight /\ ~autopilot_in_flight'
           => down_run' = AUTOPILOT_IN_FLIGHT_TIME)]_mon_vars
=============================================================================
