------------------------------ MODULE Channels ------------------------------
(***************************************************************************)
(* The mode switch as the fixed-wing firmware sees it: a radio channel cut   *)
(* in three by two thresholds (autopilot.h).                                *)
(***************************************************************************)
EXTENDS Integers

CONSTANTS
  MIN_PPRZ, MAX_PPRZ,   \* range of a radio channel (-9600 and 9600)
  RadioModeValues       \* the values of RADIO_MODE that are considered

ASSUME ChannelsAssumption ==
  /\ MIN_PPRZ \in Int /\ MAX_PPRZ \in Int
  /\ RadioModeValues \subseteq MIN_PPRZ .. MAX_PPRZ

TRESHOLD1 == MIN_PPRZ \div 2
TRESHOLD2 == MAX_PPRZ \div 2
=============================================================================
