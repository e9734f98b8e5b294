----------------------------- MODULE Authority -----------------------------
(***************************************************************************)
(* What the fly-by-wire process promises, with no radio, no counters and no *)
(* main loop: who commands the actuators.  Only a stick frame gives them to  *)
(* the pilot; only an AP message gives life to the AP, and it never takes    *)
(* the actuators from the pilot; when the pilot is given up they go to the  *)
(* AP if it is alive and otherwise to the failsafe commands.                *)
(***************************************************************************)
VARIABLES mode, cmd, ap

MANUAL   == "FBW_MODE_MANUAL"
AUTO     == "FBW_MODE_AUTO"
FAILSAFE == "FBW_MODE_FAILSAFE"

vars == <<mode, cmd, ap>>

Init ==
  /\ mode = FAILSAFE /\ cmd = "failsafe" /\ ap = FALSE

(* A frame from the pilot: the switch says MANUAL or not.                   *)
Pilot ==
  /\ mode' \in {MANUAL, AUTO}
  /\ cmd' = IF mode' = MANUAL THEN "rc" ELSE cmd
  /\ UNCHANGED ap

(* A message from the AP.                                                   *)
Autopilot ==
  /\ ap' = TRUE
  /\ mode' = IF mode = MANUAL THEN MANUAL ELSE AUTO
  /\ cmd' = IF mode' = AUTO THEN "ap" ELSE cmd

(* Time passes: the AP may be found dead, the pilot may be given up.        *)
Silence ==
  /\ ap' \in {ap, FALSE}
  /\ \/ mode = MANUAL /\ mode' = MANUAL
     \/ mode' = IF ap' THEN AUTO ELSE FAILSAFE
  /\ cmd' = IF mode' = FAILSAFE THEN "failsafe" ELSE cmd

Next == Pilot \/ Autopilot \/ Silence

Spec == Init /\ [][Next]_vars
=============================================================================
