------------------------------- MODULE MCUgvNode -------------------------------
(* Instances of UgvNode for TLC: the topics published on, the lamps looked at. *)
EXTENDS UgvNode

OnlyCmdVel      == {"cmd_vel"}
CmdVelAndSafety == {"cmd_vel", "safety"}
CmdVelAndLights == {"cmd_vel", "colour", "blue", "pan_cmd"}

NoLamps         == {}
BatteryLamp     == {1}
SafetyLamp      == {2}
=============================================================================
