------------------------- MODULE DriveSubsystemProofs -------------------------
(***************************************************************************)
(* Theorems about DriveSubsystem, for every scale One and every set of     *)
(* joystick readings.                                                      *)
(*                                                                         *)
(* What the ramp and the kept power return is stated once, as lemmas on    *)
(* integers.  The invariants and the refinement of DriveOutline follow     *)
(* from them and from Kept alone deciding what tank() sets.                *)
(***************************************************************************)
EXTENDS DriveSubsystem, TLAPS

(* Kept powers are zero or strong enough, as a set.                        *)
Powers == {p \in Axis : p # 0 => Strong(p)}

(* What the motors hold is what the last call computed from the kept       *)
(* powers or the ramps, unless test mode cut them.                         *)
DriveInv ==
  /\ leftSpeed \in Axis /\ rightSpeed \in Axis
  /\ moveSpeed \in Axis /\ turnSpeed \in Axis
  /\ leftFinal \in Powers /\ rightFinal \in Powers
  /\ flipped \in BOOLEAN
  /\ leftMotors \in -(2 * One) .. 2 * One /\ rightMotors \in -(2 * One) .. 2 * One
  /\ called \in [method : {"none", "tank", "arcade"}, first : Axis, second : Axis]
  /\ ReleasedArcadeStops

(* A ramp between -1.0 and 1.0 stays there: it never passes its target.    *)
LEMMA AccelerateRange ==
  ASSUME NEW speed \in Axis, NEW desired \in Axis
  PROVE  /\ Accelerate(speed, desired) \in Axis
         /\ desired >= speed => Accelerate(speed, desired) \in speed .. desired
         /\ desired < speed => Accelerate(speed, desired) \in desired .. speed
<1>0. One \in Nat \ {0}
  BY OneAssumption
<1>1. CASE desired >= speed
  <2> DEFINE d == desired - speed
  <2>1. d \in Nat /\ (d * 15 + 99) \div 100 \in 0 .. d
    BY <1>0, <1>1, SMT DEF Axis
  <2>2. Accelerate(speed, desired) = speed + (d * 15 + 99) \div 100
    BY <1>1 DEF Accelerate
  <2> HIDE DEF d
  <2>3. desired = speed + d
    BY <1>0 DEF d, Axis
  <2> QED
    BY <1>0, <1>1, <2>1, <2>2, <2>3, SMT DEF Axis
<1>2. CASE desired < speed
  <2> DEFINE d == speed - desired
  <2>1. d \in Nat /\ (d * 15 + 99) \div 100 \in 0 .. d
    BY <1>0, <1>2, SMT DEF Axis
  <2>2. Accelerate(speed, desired) = speed - (d * 15 + 99) \div 100
    BY <1>0, <1>2, SMT DEF Accelerate, Axis
  <2> HIDE DEF d
  <2>3. desired = speed - d
    BY <1>0 DEF d, Axis
  <2> QED
    BY <1>0, <1>2, <2>1, <2>2, <2>3, SMT DEF Axis
<1> QED
  BY <1>0, <1>1, <1>2, SMT DEF Axis

(* A stick that is let go of is met at once, from any speed.               *)
LEMMA RampRange ==
  ASSUME NEW speed \in Axis, NEW desired \in Axis
  PROVE  /\ Ramp(speed, desired) \in Axis
         /\ desired = 0 => Ramp(speed, desired) = 0
<1>0. One \in Nat \ {0}
  BY OneAssumption
<1> DEFINE start == IF Abs(desired) < Abs(speed) THEN desired ELSE speed
<1>1. start \in Axis
  OBVIOUS
<1>2. Ramp(speed, desired) = Accelerate(start, desired)
  BY DEF Ramp
<1>3. desired = 0 => start = 0
  BY <1>0, SMT DEF Abs, Axis
<1> HIDE DEF start
<1>4. Accelerate(start, desired) \in Axis
  BY <1>1, AccelerateRange
<1>5. desired = 0 => Accelerate(start, desired) \in 0 .. 0
  BY <1>0, <1>1, <1>3, AccelerateRange, SMT DEF Axis
<1> QED
  BY <1>2, <1>4, <1>5, SMT

(* Beyond the dead zone the power is strong enough and at most full; so the *)
(* kept power always is zero or that, and once not zero stays so.          *)
LEMMA KeptRange ==
  ASSUME NEW final \in Powers, NEW speed \in Axis
  PROVE  /\ Kept(final, speed) \in Powers
         /\ final # 0 => Kept(final, speed) # 0
<1>0. One \in Nat \ {0}
  BY OneAssumption
<1>1. CASE Pushed(speed)
  <2>1. speed # 0
    BY <1>0, <1>1, SMT DEF Pushed, Abs
  <2>2. Power(speed) # 0 /\ Power(speed) \in Axis /\ Strong(Power(speed))
    BY <1>0, <1>1, <2>1, SMT DEF Power, Pushed, Strong, Abs, Axis
  <2> QED
    BY <1>1, <2>2 DEF Kept, Powers
<1>2. CASE ~Pushed(speed)
  BY <1>2 DEF Kept
<1> QED
  BY <1>1, <1>2

(* Two speeds add up to twice full power at most.                          *)
LEMMA MixRange ==
  ASSUME NEW x \in Axis, NEW y \in Axis
  PROVE  /\ -x \in Axis
         /\ -x = 0 <=> x = 0
         /\ x \in -(2 * One) .. 2 * One
         /\ x + y \in -(2 * One) .. 2 * One
         /\ x - y \in -(2 * One) .. 2 * One
         /\ -x + y \in -(2 * One) .. 2 * One
<1>0. One \in Nat \ {0}
  BY OneAssumption
<1> QED
  BY <1>0, SMT DEF Axis

----------------------------------------------------------------------------
(* The start is at rest.                                                   *)
LEMMA InitDrive == Init => DriveInv
<1> SUFFICES ASSUME Init PROVE DriveInv
  OBVIOUS
<1>0. One \in Nat \ {0}
  BY OneAssumption
<1>1. 0 \in Axis /\ 0 \in Powers /\ 0 \in -(2 * One) .. 2 * One
  BY <1>0, SMT DEF Axis, Powers
<1> QED
  BY <1>1 DEF Init, DriveInv, ReleasedArcadeStops

(* A call of tank() keeps the invariant and sets what it keeps.            *)
LEMMA TankStep ==
  ASSUME DriveInv, NEW left \in Axis, NEW right \in Axis, Tank(left, right)
  PROVE  /\ DriveInv'
         /\ leftFinal # 0 => leftFinal' # 0
         /\ rightFinal # 0 => rightFinal' # 0
         /\ leftMotors' # 0 \/ rightMotors' # 0 <=> leftFinal' # 0 \/ rightFinal' # 0
<1>0. One \in Nat \ {0}
  BY OneAssumption
<1>1. leftSpeed' \in Axis /\ rightSpeed' \in Axis
  BY RampRange DEF DriveInv, Tank
<1>2. /\ leftFinal' \in Powers /\ rightFinal' \in Powers
      /\ leftFinal # 0 => leftFinal' # 0
      /\ rightFinal # 0 => rightFinal' # 0
  BY <1>1, KeptRange DEF DriveInv, Tank
<1>3. /\ leftMotors' = (IF flipped THEN leftFinal' ELSE -rightFinal')
      /\ rightMotors' = (IF flipped THEN -rightFinal' ELSE leftFinal')
  BY DEF Tank
<1>4. leftFinal' \in Axis /\ rightFinal' \in Axis
  BY <1>2 DEF Powers
<1>5. /\ leftMotors' \in -(2 * One) .. 2 * One /\ rightMotors' \in -(2 * One) .. 2 * One
      /\ leftMotors' # 0 \/ rightMotors' # 0 <=> leftFinal' # 0 \/ rightFinal' # 0
  <2>1. -rightFinal' \in Axis /\ (-rightFinal' = 0 <=> rightFinal' = 0)
    BY <1>4, MixRange
  <2>2. leftMotors' \in Axis /\ rightMotors' \in Axis
    BY <1>3, <1>4, <2>1
  <2>3. leftMotors' # 0 \/ rightMotors' # 0 <=> leftFinal' # 0 \/ rightFinal' # 0
    BY <1>3, <2>1
  <2> QED
    BY <2>2, <2>3, MixRange
<1>6. /\ called' \in [method : {"none", "tank", "arcade"}, first : Axis, second : Axis]
      /\ called'.method = "tank"
  BY DEF Tank
<1>7. ReleasedArcadeStops'
  BY <1>6 DEF ReleasedArcadeStops
<1> QED
  BY <1>1, <1>2, <1>5, <1>6, <1>7 DEF DriveInv, Tank, arcadeState

(* A call of arcade() keeps the invariant; a released one stops the motors. *)
LEMMA ArcadeStep ==
  ASSUME DriveInv, NEW move \in Axis, NEW turn \in Axis, Arcade(move, turn)
  PROVE  DriveInv'
<1>0. One \in Nat \ {0}
  BY OneAssumption
<1>1. /\ moveSpeed' \in Axis /\ turnSpeed' \in Axis
      /\ move = 0 => moveSpeed' = 0
      /\ turn = 0 => turnSpeed' = 0
  BY RampRange DEF DriveInv, Arcade
<1>2. /\ leftMotors' = (IF flipped THEN moveSpeed' - turnSpeed' ELSE -moveSpeed' + turnSpeed')
      /\ rightMotors' = (IF flipped THEN -moveSpeed' + turnSpeed' ELSE moveSpeed' + turnSpeed')
  BY DEF Arcade
<1>3. leftMotors' \in -(2 * One) .. 2 * One /\ rightMotors' \in -(2 * One) .. 2 * One
  <2>1. /\ moveSpeed' + turnSpeed' \in -(2 * One) .. 2 * One
        /\ moveSpeed' - turnSpeed' \in -(2 * One) .. 2 * One
        /\ -moveSpeed' + turnSpeed' \in -(2 * One) .. 2 * One
    BY <1>1, MixRange
  <2> QED
    BY <1>2, <2>1
<1>4. called' = [method |-> "arcade", first |-> move, second |-> turn]
  BY DEF Arcade
<1>5. move = 0 /\ turn = 0 => leftMotors' = 0 /\ rightMotors' = 0
  BY <1>1, <1>2, SMT
<1>6. ReleasedArcadeStops'
  BY <1>4, <1>5 DEF ReleasedArcadeStops
<1> QED
  BY <1>1, <1>3, <1>4, <1>6 DEF DriveInv, Arcade, tankState

(* Flip and test mode touch no ramp and no kept power.                     *)
LEMMA OtherSteps ==
  ASSUME DriveInv, Flip \/ TestInit \/ UNCHANGED vars
  PROVE  DriveInv'
<1>0. 0 \in -(2 * One) .. 2 * One
  BY OneAssumption, SMT
<1>1. CASE Flip
  BY <1>1 DEF Flip, DriveInv, ReleasedArcadeStops, tankState, arcadeState, motors
<1>2. CASE TestInit
  BY <1>0, <1>2 DEF TestInit, DriveInv, ReleasedArcadeStops, tankState, arcadeState
<1>3. CASE UNCHANGED vars
  BY <1>3 DEF vars, DriveInv, ReleasedArcadeStops, tankState, arcadeState, motors
<1> QED
  BY <1>1, <1>2, <1>3

(* The drive commands call with what the sticks read.                      *)
LEMMA Calls ==
  /\ OneStickTank \/ TwoStickTank => \E left, right \in Axis : Tank(left, right)
  /\ OneStickArcade \/ TwoStickArcade => \E move, turn \in Axis : Arcade(move, turn)
<1>1. \A r \in Readings :
        r.leftX \in Axis /\ r.leftY \in Axis /\ r.rightX \in Axis /\ r.rightY \in Axis
  BY ReadingsAssumption
<1> QED
  BY <1>1 DEF OneStickTank, TwoStickTank, OneStickArcade, TwoStickArcade

(* Every step keeps the invariant.                                         *)
LEMMA NextDrive == DriveInv /\ [Next]_vars => DriveInv'
<1> SUFFICES ASSUME DriveInv, [Next]_vars PROVE DriveInv'
  OBVIOUS
<1>1. CASE OneStickTank \/ TwoStickTank
  BY <1>1, Calls, TankStep
<1>2. CASE OneStickArcade \/ TwoStickArcade
  BY <1>2, Calls, ArcadeStep
<1>3. CASE Flip \/ TestInit \/ UNCHANGED vars
  BY <1>3, OtherSteps
<1> QED
  BY <1>1, <1>2, <1>3 DEF Next

(* The invariant holds throughout.                                         *)
LEMMA Driving == Spec => []DriveInv
  BY InitDrive, NextDrive, PTL DEF Spec

----------------------------------------------------------------------------
(* Type correctness: no speed or kept power of the drive leaves its range, *)
(* and no motor is asked for more than twice full power.                   *)
THEOREM TypeCorrect == Spec => []TypeOK
<1>1. DriveInv => TypeOK
  BY DEF DriveInv, TypeOK, Powers
<1> QED
  BY <1>1, Driving, PTL

(* A kept power of tank() is zero or between the least power and full power. *)
THEOREM KeptPowersInRange == Spec => []PowerInRange
<1>1. DriveInv => PowerInRange
  BY DEF DriveInv, PowerInRange, Powers
<1> QED
  BY <1>1, Driving, PTL

(* Released sticks stop an arcade drive in one call.                       *)
THEOREM ArcadeStops == Spec => []ReleasedArcadeStops
<1>1. DriveInv => ReleasedArcadeStops
  BY DEF DriveInv
<1> QED
  BY <1>1, Driving, PTL

(* DriveSubsystem implements the outline RobotCommands is built on: leaving  *)
(* the numbers out loses no behaviour, and tank() never releases its power.  *)
THEOREM ImplementsOutline == Spec => DrivesAsOutlined
<1> DEFINE driving == leftMotors # 0 \/ rightMotors # 0
           latched == leftFinal # 0 \/ rightFinal # 0
<1>1. Init => Numbers!AtRest
  BY DEF Init, Numbers!AtRest
<1>2. DriveInv /\ [Next]_vars =>
        [Numbers!Arcade \/ Numbers!Tank \/ Numbers!MotorsCut]_<<driving, latched>>
  <2> SUFFICES ASSUME DriveInv, [Next]_vars
               PROVE  Numbers!Arcade \/ Numbers!Tank \/ Numbers!MotorsCut
                        \/ UNCHANGED <<driving, latched>>
    OBVIOUS
  <2>1. CASE OneStickTank \/ TwoStickTank
    <3>1. PICK left \in Axis, right \in Axis : Tank(left, right)
      BY <2>1, Calls
    <3>2. latched => latched'
      BY <3>1, TankStep
    <3>3. driving' <=> latched'
      BY <3>1, TankStep
    <3> QED
      BY <3>2, <3>3, Zenon DEF Numbers!Tank
  <2>2. CASE OneStickArcade \/ TwoStickArcade
    <3>1. UNCHANGED tankState
      BY <2>2, Calls DEF Arcade
    <3> QED
      BY <3>1 DEF Numbers!Arcade, tankState
  <2>3. CASE Flip
    BY <2>3 DEF Flip, tankState, motors
  <2>4. CASE TestInit
    BY <2>4 DEF TestInit, Numbers!MotorsCut, tankState
  <2>5. CASE UNCHANGED vars
    BY <2>5 DEF vars, tankState, motors
  <2> QED
    BY <2>1, <2>2, <2>3, <2>4, <2>5 DEF Next
<1> QED
  BY <1>1, <1>2, Driving, PTL DEF Spec, DrivesAsOutlined, Numbers!Outline
----------------------------------------------------------------------------
(* What HeldSettles rests on: a ramp that is not at its target gets nearer *)
(* to it with every call, so it is there after finitely many.              *)

(* The step of a ramp is never zero and never passes the target.           *)
LEMMA AccelerateApproaches ==
  ASSUME NEW speed \in Axis, NEW desired \in Axis
  PROVE  /\ speed = desired => Accelerate(speed, desired) = desired
         /\ speed # desired => Abs(desired - Accelerate(speed, desired)) < Abs(desired - speed)
<1>0. speed \in Int /\ desired \in Int
  BY OneAssumption DEF Axis
<1>1. ASSUME NEW d \in Nat
      PROVE  (d * 15 + 99) \div 100 \in 0 .. d /\ (d > 0 => (d * 15 + 99) \div 100 > 0)
  BY <1>1, SMT
<1>2. CASE desired >= speed
  <2> DEFINE d == desired - speed
             step == (d * 15 + 99) \div 100
  <2>1. d \in Nat /\ step \in 0 .. d /\ (d > 0 => step > 0)
    BY <1>0, <1>1, <1>2
  <2>2. Accelerate(speed, desired) = speed + step
    BY <1>2 DEF Accelerate
  <2>3. desired = speed + d
    BY <1>0
  <2> HIDE DEF d, step
  <2>4. QED BY <1>0, <2>1, <2>2, <2>3, SMT DEF Abs
<1>3. CASE desired < speed
  <2> DEFINE d == speed - desired
             step == (d * 15 + 99) \div 100
  <2>1. d \in Nat /\ step \in 0 .. d /\ (d > 0 => step > 0)
    BY <1>0, <1>1, <1>3
  <2>2. Accelerate(speed, desired) = speed - step
    BY <1>0, <1>3 DEF Accelerate
  <2>3. speed = desired + d
    BY <1>0
  <2> HIDE DEF d, step
  <2>4. QED BY <1>0, <2>1, <2>2, <2>3, SMT DEF Abs
<1>4. QED BY <1>0, <1>2, <1>3

(* Nor does the clipping of Ramp keep it away.                             *)
LEMMA RampApproaches ==
  ASSUME NEW speed \in Axis, NEW desired \in Axis
  PROVE  /\ speed = desired => Ramp(speed, desired) = desired
         /\ speed # desired => Abs(desired - Ramp(speed, desired)) < Abs(desired - speed)
<1>0. speed \in Int /\ desired \in Int
  BY OneAssumption DEF Axis
<1>1. CASE Abs(desired) < Abs(speed)
  <2>1. Ramp(speed, desired) = desired
    BY <1>1, AccelerateApproaches DEF Ramp
  <2>2. QED BY <1>0, <1>1, <2>1 DEF Abs
<1>2. CASE ~(Abs(desired) < Abs(speed))
  <2>1. Ramp(speed, desired) = Accelerate(speed, desired)
    BY <1>2 DEF Ramp
  <2>2. QED BY <2>1, AccelerateApproaches
<1>3. QED BY <1>1, <1>2

(* Every call of tank() brings each ramp nearer to its stick, or leaves it *)
(* there; and once the ramp of a stick beyond the dead zone is there, the  *)
(* kept power is the power of that stick.  The distance is a whole number, *)
(* so sticks held settle after at most 2 * One calls: from whatever the    *)
(* calls before left behind.                                               *)
HeldApproaches ==
  [][\A left, right \in Axis : Tank(left, right) =>
       /\ leftSpeed' = left \/ Abs(left - leftSpeed') < Abs(left - leftSpeed)
       /\ rightSpeed' = right \/ Abs(right - rightSpeed') < Abs(right - rightSpeed)
       /\ leftSpeed' = left /\ Pushed(left) => leftFinal' = Power(left)
       /\ rightSpeed' = right /\ Pushed(right) => rightFinal' = Power(right)]_vars

(* Every call of tank() brings the drive nearer to held sticks.            *)
THEOREM HeldSticksApproach == Spec => HeldApproaches
<1> DEFINE Nearer ==
      \A left, right \in Axis : Tank(left, right) =>
        /\ leftSpeed' = left \/ Abs(left - leftSpeed') < Abs(left - leftSpeed)
        /\ rightSpeed' = right \/ Abs(right - rightSpeed') < Abs(right - rightSpeed)
        /\ leftSpeed' = left /\ Pushed(left) => leftFinal' = Power(left)
        /\ rightSpeed' = right /\ Pushed(right) => rightFinal' = Power(right)
<1>1. DriveInv => Nearer
  BY RampApproaches DEF DriveInv, Tank, Kept
<1> HIDE DEF Nearer
<1>2. Spec => [][Nearer]_vars
  BY <1>1, Driving, PTL DEF Spec
<1>3. QED BY <1>2 DEF HeldApproaches, Nearer

(* A stick pushed further never gets less power from tank(), and one pulled   *)
(* back gets what it gets pushed forward: the rounding and the step at the *)
(* dead zone keep the order.                                               *)
THEOREM PowerGrowsWithStick ==
  ASSUME NEW less \in Axis, NEW more \in Axis, Pushed(less), Pushed(more)
  PROVE  /\ less <= more => Power(less) <= Power(more)
         /\ Power(-less) = -Power(less)
<1>0. One \in Nat \ {0} /\ less \in Int /\ more \in Int
  BY OneAssumption DEF Axis
<1>1. less # 0 /\ more # 0
  BY <1>0 DEF Pushed, Abs
<1>2. Power(-less) = -Power(less)
  BY <1>0, <1>1, SMT DEF Power
<1>3. less <= more => Power(less) <= Power(more)
  BY <1>0, <1>1, SMT DEF Power
<1>4. QED BY <1>2, <1>3

(* A flipped robot cannot turn under arcade(): whatever the sticks read and   *)
(* whatever was driven before, the two sides, mirror images of each other, *)
(* are given powers that cancel.  So every stick, and not only the one of a   *)
(* counterexample, breaks TurnTurns; unflipped, it is twice the turn.      *)
FlippedCancels ==
  [][\A move, turn \in Axis : Arcade(move, turn) =>
       leftMotors' + rightMotors' = IF flipped THEN 0 ELSE 2 * turnSpeed']_vars

(* A flipped arcade() never turns.                                         *)
THEOREM FlippedNeverTurns == Spec => FlippedCancels
<1> DEFINE Cancels ==
      \A move, turn \in Axis : Arcade(move, turn) =>
        leftMotors' + rightMotors' = IF flipped THEN 0 ELSE 2 * turnSpeed'
<1>1. DriveInv => Cancels
  <2> SUFFICES ASSUME DriveInv, NEW move \in Axis, NEW turn \in Axis, Arcade(move, turn)
               PROVE  leftMotors' + rightMotors' = IF flipped THEN 0 ELSE 2 * turnSpeed'
    OBVIOUS
  <2>1. moveSpeed' \in Int /\ turnSpeed' \in Int
    BY RampRange, OneAssumption DEF DriveInv, Arcade, Axis
  <2>2. QED BY <2>1 DEF Arcade
<1> HIDE DEF Cancels
<1>2. Spec => [][Cancels]_vars
  BY <1>1, Driving, PTL DEF Spec
<1>3. QED BY <1>2 DEF FlippedCancels, Cancels
=============================================================================
