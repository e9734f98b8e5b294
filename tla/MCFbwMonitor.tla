---------------------------- MODULE MCFbwMonitor ----------------------------
(* FbwMonitor on a small instance: the timeouts keep their order (LOST       *)
(* before REALLY_LOST), and the mode switch takes the values on both sides   *)
(* of the MANUAL threshold and the threshold itself.                         *)
EXTENDS FbwMonitor

MCMin == -4
MCMax == 4
MCModes == {-4, -2, 4}
=============================================================================
