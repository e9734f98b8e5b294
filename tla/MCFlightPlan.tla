---------------------------- MODULE MCFlightPlan ----------------------------
(* A plan in the manner of conf/flight_plans: a wait (nordlys.xml), a line    *)
(* flown several times, a standby, a block that returns (tcas.xml), two       *)
(* failsafe blocks reached by guarded exceptions (failsafe_modes.xml), a lost *)
(* datalink or low power that lead to the standby (mav08.xml), and the        *)
(* generated HOME.                                                          *)
EXTENDS FlightPlan

Cond(s, c, n, o) == [sensed |-> s, clock |-> c, limit |-> n, over |-> o]
Always == Cond("TRUE", "none", 0, TRUE)
Done   == Cond("done", "none", 0, TRUE)

Fly(cond)      == [op |-> "until", cond |-> cond]
Loop(cond, to) == [op |-> "while", cond |-> cond, to |-> to]
Jump(to)       == [op |-> "goto", to |-> to]
Endless        == <<Fly(Cond("TRUE", "stage_time", TIME_WRAP, TRUE))>>

Body(exceptions, stages) == [exceptions |-> exceptions, stages |-> stages]

WAIT    == 0
LINE    == 1
TCAS    == 2
STANDBY == 3
KILL    == 4
HOME    == 5

MCPlan ==
  [b \in 0 .. 5 |->
     CASE b = WAIT -> Body(<<>>,
            <<Loop(Cond("TRUE", "stage_time", 0, FALSE), 2), Jump(0)>>)
       [] b = LINE -> Body(<<[cond |-> Done, deroute |-> STANDBY]>>,
            <<Jump(1), Loop(Done, 4), Fly(Done), Jump(1),
              [op |-> "deroute", to |-> WAIT]>>)
       [] b = TCAS -> Body(<<>>, <<Fly(Done), [op |-> "return"]>>)
       [] OTHER -> Body(<<>>, Endless)]

MCExceptions ==
  <<[cond |-> Cond("far", "block_time", 1, TRUE), deroute |-> HOME],
    [cond |-> Cond("very far", "block_time", 1, TRUE), deroute |-> KILL],
    [cond |-> Cond("TRUE", "datalink_time", 1, TRUE), deroute |-> STANDBY],
    [cond |-> Cond("low power", "none", 0, TRUE), deroute |-> STANDBY]>>

MCSensed == {"done", "far", "very far", "low power"}
=============================================================================
