----------------------------- MODULE ControlLoop -----------------------------
(***************************************************************************)
(* ControlLoop of the UGV controller (control_loop.cpp), on integers: a    *)
(* velocity counts some unit, an integral that unit times dt.  A loop is   *)
(* its set point, the set point as far as the ramp has followed it, and    *)
(* the integral; the derivative is computed and not used.                  *)
(*                                                                         *)
(* "fault:" marks a plausible bug in the definition after it, against      *)
(* which the properties are tested; it is no part of the model.            *)
(***************************************************************************)
EXTENDS Integers

CONSTANTS
  Accel,                 \* maxAcceleration * dt; 0 for no limit
  Cap,                   \* INTEGRAL_CAP
  Kp, Ki, Kffp, Kffd,    \* the gains
  Unit,                  \* output that makes one of rawOutput
  Least, Kick,           \* 20 and 120, the ends of the dead band
  IntMax                 \* the largest int16_t

ASSUME LoopAssumption ==
  /\ Accel \in Nat /\ Cap \in Nat
  /\ Kp \in Int /\ Ki \in Int /\ Kffp \in Int /\ Kffd \in Int
  /\ Unit \in Nat \ {0}
  /\ Least \in Nat /\ Kick \in Nat /\ Least < Kick /\ 2 * Kick <= IntMax + 1
  /\ IntMax \in Nat

Int16 == -IntMax - 1 .. IntMax
Loops == [setPoint : Int, effSetPoint : Int, integral : -Cap .. Cap]
AtRest == [setPoint |-> 0, effSetPoint |-> 0, integral |-> 0]

Clamped(n, limit) == IF n > limit THEN limit ELSE IF n < -limit THEN -limit ELSE n

\* fault: the limit is not applied when the robot slows down
DiffSetPointOneWay(loop) ==
  LET diff == loop.setPoint - loop.effSetPoint IN
    IF Accel > 0 /\ diff > Accel THEN Accel ELSE diff

DiffSetPoint(loop) ==
  LET diff == loop.setPoint - loop.effSetPoint IN
    IF Accel = 0 THEN diff ELSE Clamped(diff, Accel)

EffSetPoint(loop) == loop.effSetPoint + DiffSetPoint(loop)
Err(loop, measured) == EffSetPoint(loop) - measured

\* fault: the integral has no lower cap
IntegralHalfCapped(loop, measured) ==
  LET sum == loop.integral + Err(loop, measured) IN
    IF loop.setPoint = 0 /\ measured = 0 THEN 0 ELSE IF sum > Cap THEN Cap ELSE sum

\* fault: a robot that stands keeps its integral
IntegralKept(loop, measured) == Clamped(loop.integral + Err(loop, measured), Cap)

(* A robot told to stand that stands has no integral.                      *)
Integral(loop, measured) ==
  IF loop.setPoint = 0 /\ measured = 0 THEN 0
  ELSE Clamped(loop.integral + Err(loop, measured), Cap)

Looped(loop, measured) ==
  [setPoint |-> loop.setPoint, effSetPoint |-> EffSetPoint(loop),
   integral |-> Integral(loop, measured)]

ZeroIntegrator(loop) == [loop EXCEPT !.integral = 0]

Output(loop, measured) ==
  Kp * Err(loop, measured) + Ki * Integral(loop, measured)
    + Kffp * EffSetPoint(loop) + Kffd * DiffSetPoint(loop)

(* The cast drops what is left of a unit; of a value that does not fit it  *)
(* may make any.                                                           *)
RawOutputs(output) ==
  LET raw == IF output < 0 THEN -((-output) \div Unit) ELSE output \div Unit
  IN  IF raw \in Int16 THEN {raw} ELSE Int16

(* Inside the dead band the motor is pushed out of it.                     *)
Pushed(raw) ==
  IF raw > Least /\ raw < Kick THEN raw + Kick
  ELSE IF -raw > Least /\ -raw < Kick THEN raw - Kick
  ELSE raw

(* What doLoop may return.                                                 *)
DoLoop(loop, measured) == {Pushed(raw) : raw \in RawOutputs(Output(loop, measured))}

(* The minus before the right loop: the least int16_t has no opposite.     *)
Negated(raw) == IF raw = -IntMax - 1 THEN raw ELSE -raw
=============================================================================
