---------------------------- MODULE MCRobotCommands ----------------------------
(* Instances of RobotCommands for TLC: the buttons the drivers use in a run. *)
EXTENDS RobotCommands

SharedMotors == {1, 8, 12}    \* climb on button1; one shooter on rightButton1 and x
NucFlipDrive == {2, 5, 6, 10} \* OneStickTank, TwoStickArcade, ReceiveTCPPacket and Flip
=============================================================================
