-------------------------------- MODULE MCAp --------------------------------
(* Ap alone, in a build that can leave HOME and with a ground that changes no *)
(* setting.  The periods keep their divisors (a second is two navigation      *)
(* periods, a navigation period two control periods) and the switch has one   *)
(* value in each third.                                                      *)
EXTENDS Ap

MCMin == -4
MCMax == 4
MCModes == {-4, 0, 4}
MCNoSettings == {}
=============================================================================
