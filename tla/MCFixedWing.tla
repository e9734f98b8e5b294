---------------------------- MODULE MCFixedWing ----------------------------
(* FixedWing on a small instance.  The switch has a value in each third but *)
(* not the MANUAL threshold itself, on which FBW and AP disagree.           *)
EXTENDS FixedWing

MCMin == -4
MCMax == 4
MCTwoModes == {-4, 0}
=============================================================================
