--------------------------- MODULE MCStatusStream ----------------------------
(* An instance of StatusStream for TLC: a robot told to stand, or to go    *)
(* forwards and turn faster than it may, so that the wheels need two and   *)
(* three steps of the ramp, the last a smaller one; its statuses report it *)
(* standing, pushed, or turning to either side.                            *)
EXTENDS StatusStream

SomeTwists == {[linear |-> 9, angular |-> 9]}

Report(lDisp, rDisp, lVel, rVel, estop) ==
  [lDisp |-> lDisp, rDisp |-> rDisp, lVel |-> lVel, rVel |-> rVel, estop |-> estop]

SomeStatuses ==
  {Report(0, 0, 0, 0, FALSE), Report(1, 1, 0, 0, TRUE), Report(1, 1, 1, 1, FALSE),
   Report(0, 1, 0, 1, TRUE), Report(1, 0, 1, 0, FALSE)}
=============================================================================
