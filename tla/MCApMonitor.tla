---------------------------- MODULE MCApMonitor ----------------------------
(* ApMonitor on a small instance: the periods keep their divisors (a second  *)
(* is two navigation periods, a navigation period two control periods), the  *)
(* switch has one value in each third, and HOME is locked.                  *)
EXTENDS ApMonitor

MCMin == -4
MCMax == 4
MCModes == {-4, 0, 4}
MCModeFreeSettings == {"launch", "kill", "reset"}
=============================================================================
