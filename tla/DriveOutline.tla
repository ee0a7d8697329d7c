---------------------------- MODULE DriveOutline ----------------------------
(***************************************************************************)
(* What the scheduler needs to know of the drive: whether its motors were  *)
(* last set to something other than zero, and whether tank() still holds   *)
(* a power it was once driven with.  RobotCommands runs on this outline;   *)
(* DriveSubsystem has the speeds behind it, and implements it.             *)
(***************************************************************************)
EXTENDS Integers

VARIABLES
  driving,        \* the drive motors' last set() was not zero
  tankLatched     \* leftFinal or rightFinal is not zero

AtRest == ~driving /\ ~tankLatched

(* arcade(): a pushed stick may move the drive, a released one stops it.   *)
Arcade ==
  /\ driving' \in BOOLEAN
  /\ UNCHANGED tankLatched

(* tank(): leftFinal and rightFinal follow a stick beyond the dead zone and *)
(* keep their value inside it; the motors get what they hold.  Nothing     *)
(* takes them back to zero.                                                *)
Tank ==
  /\ tankLatched' \in {tankLatched, TRUE}
  /\ driving' = tankLatched'

(* Test mode sets the motors to zero and leaves the subsystem's fields.    *)
MotorsCut ==
  /\ driving' = FALSE
  /\ UNCHANGED tankLatched

Outline == AtRest /\ [][Arcade \/ Tank \/ MotorsCut]_<<driving, tankLatched>>
=============================================================================
