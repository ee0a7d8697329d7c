--------------------------- MODULE MCDriveSubsystem ---------------------------
(* Instances of DriveSubsystem for TLC: where the two joysticks may be.    *)
EXTENDS DriveSubsystem

Joysticks(lx, ly, rx, ry) == [leftX |-> lx, leftY |-> ly, rightX |-> rx, rightY |-> ry]

Released == Joysticks(0, 0, 0, 0)
Forward  == Joysticks(0, One, 0, One)
Spin     == Joysticks(0, One, -One, -One)
Turning  == Joysticks(0, 0, One, 0)
Creep    == Joysticks(0, 1, 0, -5)      \* the left one within the dead zone

Driven == {Released, Forward, Spin, Creep}
Turned == {Released, Turning}
=============================================================================
