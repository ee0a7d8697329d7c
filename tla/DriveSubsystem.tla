---------------------------- MODULE DriveSubsystem ----------------------------
(***************************************************************************)
(* DriveSubsystem.java: the speeds its two drive methods ramp, the powers  *)
(* they keep from one call to the next and the powers they set.  The four  *)
(* drive commands call them with what the sticks read, one command at a    *)
(* time and in any order (RobotCommands has the scheduling), and Flip      *)
(* reverses the drive between two calls.                                   *)
(*                                                                         *)
(* 1.0 is the integer One.  The step of a ramp is rounded up: like the     *)
(* double it stands for, a speed never passes its target and does get      *)
(* there.  A power is rounded down.                                        *)
(*                                                                         *)
(* Definitions marked "fault:" are no part of the model.  Each is a        *)
(* plausible bug in the definition after it, against which the properties  *)
(* are tested.                                                             *)
(***************************************************************************)
EXTENDS Integers

CONSTANTS
  One,        \* the integer that stands for 1.0
  Readings    \* what the axes of the two joysticks may read

Axis == -One .. One

ASSUME OneAssumption == One \in Nat \ {0}
ASSUME ReadingsAssumption ==
  Readings \subseteq [leftX : Axis, leftY : Axis, rightX : Axis, rightY : Axis]

VARIABLES
  leftSpeed, rightSpeed,    \* the ramps of tank()
  leftFinal, rightFinal,    \* the powers tank() keeps
  moveSpeed, turnSpeed,     \* the ramps of arcade(), which keeps no power
  flipped,                  \* Robot.flipped
  leftMotors, rightMotors,  \* the last set() of the left and of the right pair
  called                    \* the last call: the method and its two arguments

tankState   == <<leftSpeed, rightSpeed, leftFinal, rightFinal>>
arcadeState == <<moveSpeed, turnSpeed>>
motors      == <<leftMotors, rightMotors>>
vars == <<tankState, arcadeState, motors, flipped, called>>

Abs(x) == IF x < 0 THEN -x ELSE x

Init ==
  /\ leftSpeed = 0 /\ rightSpeed = 0 /\ leftFinal = 0 /\ rightFinal = 0
  /\ moveSpeed = 0 /\ turnSpeed = 0
  /\ flipped = FALSE
  /\ leftMotors = 0 /\ rightMotors = 0
  /\ called = [method |-> "none", first |-> 0, second |-> 0]

----------------------------------------------------------------------------
(* speed += (desired - speed) * ACCELERATION                               *)

AccelerateTooFast(speed, desired) ==                \* fault: 1.5 for 0.15
  IF desired >= speed
  THEN speed + ((desired - speed) * 150 + 99) \div 100
  ELSE speed - ((speed - desired) * 150 + 99) \div 100

AccelerateAssigns(speed, desired) ==                \* fault: = for +=
  ((desired - speed) * 15) \div 100

Accelerate(speed, desired) ==
  IF desired >= speed
  THEN speed + ((desired - speed) * 15 + 99) \div 100
  ELSE speed - ((speed - desired) * 15 + 99) \div 100

RampBothWays(speed, desired) == Accelerate(speed, desired)     \* fault: no clipping

(* Only speeding up is ramped: a smaller demand is met at once, even one in *)
(* the opposite direction.                                                 *)
Ramp(speed, desired) ==
  Accelerate(IF Abs(desired) < Abs(speed) THEN desired ELSE speed, desired)

(* Beyond the dead zone 0.15 a speed s gives the power 0.7 s + 0.3.        *)
Pushed(speed) == Abs(speed) * 100 > 15 * One

PowerUnscaled(speed) == IF speed > 0 THEN (10 * speed + 3 * One) \div 10   \* fault: no 0.7
                                     ELSE -((3 * One - 10 * speed) \div 10)

Power(speed) == IF speed > 0 THEN (7 * speed + 3 * One) \div 10
                             ELSE -((3 * One - 7 * speed) \div 10)

Kept(final, speed) == IF Pushed(speed) THEN Power(speed) ELSE final

----------------------------------------------------------------------------
\* fault: the motors are set before the powers are computed
TankSetsFirst(desiredLeft, desiredRight) ==
  /\ leftSpeed' = Ramp(leftSpeed, desiredLeft)
  /\ rightSpeed' = Ramp(rightSpeed, desiredRight)
  /\ leftFinal' = Kept(leftFinal, leftSpeed')
  /\ rightFinal' = Kept(rightFinal, rightSpeed')
  /\ leftMotors' = (IF flipped THEN leftFinal ELSE -rightFinal)
  /\ rightMotors' = (IF flipped THEN -rightFinal ELSE leftFinal)
  /\ called' = [method |-> "tank", first |-> desiredLeft, second |-> desiredRight]
  /\ UNCHANGED <<arcadeState, flipped>>

Tank(desiredLeft, desiredRight) ==
  /\ leftSpeed' = Ramp(leftSpeed, desiredLeft)
  /\ rightSpeed' = Ramp(rightSpeed, desiredRight)
  /\ leftFinal' = Kept(leftFinal, leftSpeed')
  /\ rightFinal' = Kept(rightFinal, rightSpeed')
  /\ leftMotors' = (IF flipped THEN leftFinal' ELSE -rightFinal')
  /\ rightMotors' = (IF flipped THEN -rightFinal' ELSE leftFinal')
  /\ called' = [method |-> "tank", first |-> desiredLeft, second |-> desiredRight]
  /\ UNCHANGED <<arcadeState, flipped>>

(* The powers arcade() computes from the dead zone are overwritten by the  *)
(* speeds themselves before they are used.                                 *)
Arcade(desiredMove, desiredTurn) ==
  /\ moveSpeed' = Ramp(moveSpeed, desiredMove)
  /\ turnSpeed' = Ramp(turnSpeed, desiredTurn)
  /\ leftMotors' = (IF flipped THEN moveSpeed' - turnSpeed' ELSE -moveSpeed' + turnSpeed')
  /\ rightMotors' = (IF flipped THEN -moveSpeed' + turnSpeed' ELSE moveSpeed' + turnSpeed')
  /\ called' = [method |-> "arcade", first |-> desiredMove, second |-> desiredTurn]
  /\ UNCHANGED <<tankState, flipped>>

(* execute() of the drive commands, and initialize() of Flip.              *)
OneStickTank   == \E r \in Readings : Tank(r.leftY, r.leftY)
TwoStickTank   == \E r \in Readings : Tank(r.leftY, r.rightY)
OneStickArcade == \E r \in Readings : Arcade(r.leftY, r.leftX)
TwoStickArcade == \E r \in Readings : Arcade(r.leftY, r.rightX)

Flip == flipped' = ~flipped /\ UNCHANGED <<tankState, arcadeState, motors, called>>

(* Entering test mode, LiveWindow sets the motors to zero.                 *)
TestInit ==
  /\ leftMotors' = 0 /\ rightMotors' = 0
  /\ UNCHANGED <<tankState, arcadeState, flipped, called>>

Next == OneStickTank \/ TwoStickTank \/ OneStickArcade \/ TwoStickArcade \/ Flip \/ TestInit

Spec == Init /\ [][Next]_vars

(* While the sticks are held the same call is made again and again.        *)
CallAgain ==
  \/ called.method = "tank" /\ Tank(called.first, called.second)
  \/ called.method = "arcade" /\ Arcade(called.first, called.second)

(* The scheduler executes the current drive command on every run, 20 ms    *)
(* apart.  A button that flips again must be seen released and then        *)
(* pressed, on two runs, so flips do not for ever fall between two calls:  *)
(* a call that again and again would change something is made, which weak  *)
(* fairness would not ask for.  A drive that lost its command to a disable *)
(* (DriveLostToDisable of RobotCommands) has neither calls nor held sticks. *)
FairSpec == Spec /\ SF_vars(CallAgain)

----------------------------------------------------------------------------
TypeOK ==
  /\ leftSpeed \in Axis /\ rightSpeed \in Axis
  /\ leftFinal \in Axis /\ rightFinal \in Axis
  /\ moveSpeed \in Axis /\ turnSpeed \in Axis
  /\ flipped \in BOOLEAN
  /\ leftMotors \in -(2 * One) .. 2 * One /\ rightMotors \in -(2 * One) .. 2 * One
  /\ called \in [method : {"none", "tank", "arcade"}, first : Axis,
                  second : Axis]

(* A power tank() keeps is zero or at least 0.7 * 0.15 + 0.3, to within the   *)
(* rounding, and never more than full, whatever ramp and clipping led to it. *)
Strong(power) == Abs(power) <= One /\ (Abs(power) + 1) * 1000 > 405 * One

PowerInRange == \A final \in {leftFinal, rightFinal} : final # 0 => Strong(final)

(* Sticks released under arcade() leave the motors at zero after that very *)
(* call, from whatever speed, flipped or not.                              *)
ReleasedArcadeStops ==
  called = [method |-> "arcade", first |-> 0, second |-> 0] =>
    leftMotors = 0 /\ rightMotors = 0

(* The outline RobotCommands runs on is this subsystem with its numbers    *)
(* left out.  So, once driven, tank() never stops the motors again.        *)
Numbers == INSTANCE DriveOutline WITH
  driving <- leftMotors # 0 \/ rightMotors # 0,
  tankLatched <- leftFinal # 0 \/ rightFinal # 0
DrivesAsOutlined == Numbers!Outline

(* Sticks held beyond the dead zone under tank() end in the powers of those  *)
(* sticks, whatever earlier calls left in the ramps and the kept powers.   *)
HeldSettles ==
  \A r \in {held \in Readings : Pushed(held.leftY) /\ Pushed(held.rightY)} :
    <>[](called = [method |-> "tank", first |-> r.leftY, second |-> r.rightY]) =>
      <>[](leftFinal = Power(r.leftY) /\ rightFinal = Power(r.rightY))

(* AutoTurnToBoilerBlue.java:47 turns by arcade(0, 1): "if not in centre,  *)
(* turn".  A stick held to turn and not to move turns the robot, whichever *)
(* way round it is driven: the two sides, mounted as mirror images, keep   *)
(* being given powers that do not cancel.  A robot that was flipped before *)
(* and stays so drives straight instead.                                   *)
TurnTurns ==
  \A r \in {held \in Readings : held.leftY = 0 /\ held.rightX # 0}, way \in BOOLEAN :
    <>[](called = [method |-> "arcade", first |-> 0, second |-> r.rightX] /\ flipped = way) =>
      []<>(leftMotors + rightMotors # 0)
=============================================================================
