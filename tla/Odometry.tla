------------------------------ MODULE Odometry -------------------------------
(***************************************************************************)
(* publishOdomXY of ugv_controller_node.cpp: from how far each wheel has   *)
(* come to where the robot is.  A displacement counts the difference of    *)
(* the wheels that turns the robot by a quarter, so a heading is a number  *)
(* of quarter turns; positions count halves of it.  Velocities and         *)
(* covariances are only passed on, and are left out.                       *)
(*                                                                         *)
(* "fault:" marks a plausible bug in the definition after it, against      *)
(* which the properties are tested; it is no part of the model.            *)
(***************************************************************************)
EXTENDS Integers

Odometries == [oldDL : Int, oldDR : Int, heading : 0 .. 3, x : Int, y : Int]
Origin == [oldDL |-> 0, oldDR |-> 0, heading |-> 0, x |-> 0, y |-> 0]

Cos(heading) == CASE heading = 0 -> 1 [] heading = 2 -> -1 [] OTHER -> 0
Sin(heading) == CASE heading = 1 -> 1 [] heading = 3 -> -1 [] OTHER -> 0

\* fault: the difference of the wheels, as for the heading
DistanceMinus(l, r) == 2 * l - 2 * r

(* ds, in halves: l + r / 2.                                               *)
Distance(l, r) == 2 * l + r

\* fault: the right wheel's displacement is kept only when the robot turned
PublishOdomXYKeepsRight(odom, lDisp, rDisp) ==
  LET l == lDisp - odom.oldDL
      r == rDisp - odom.oldDR
      heading == (odom.heading + r - l) % 4
  IN  [oldDL |-> lDisp, oldDR |-> IF r = l THEN odom.oldDR ELSE rDisp, heading |-> heading,
       x |-> odom.x + Distance(l, r) * Cos(heading),
       y |-> odom.y + Distance(l, r) * Sin(heading)]

(* The heading is read back from the quaternion, which forgets whole turns; *)
(* the robot then moves along the new one.                                 *)
PublishOdomXY(odom, lDisp, rDisp) ==
  LET l == lDisp - odom.oldDL
      r == rDisp - odom.oldDR
      heading == (odom.heading + r - l) % 4
  IN  [oldDL |-> lDisp, oldDR |-> rDisp, heading |-> heading,
       x |-> odom.x + Distance(l, r) * Cos(heading),
       y |-> odom.y + Distance(l, r) * Sin(heading)]
=============================================================================
