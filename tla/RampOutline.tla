----------------------------- MODULE RampOutline -----------------------------
(***************************************************************************)
(* What UgvNode takes a control loop for: a velocity that follows its set  *)
(* point by at most one step for every status.  ControlLoop has the        *)
(* velocities behind the steps, and StatusStream implements this with two  *)
(* of them.                                                                *)
(***************************************************************************)
EXTENDS Integers

VARIABLES setPoint, effSetPoint

Standing == setPoint = 0 /\ effSetPoint = 0

SetVel == setPoint' \in Int /\ UNCHANGED effSetPoint

Follow ==
  /\ effSetPoint' = IF setPoint > effSetPoint THEN effSetPoint + 1
                    ELSE IF setPoint < effSetPoint THEN effSetPoint - 1
                    ELSE effSetPoint
  /\ UNCHANGED setPoint

Ramp == Standing /\ [][SetVel \/ Follow]_<<setPoint, effSetPoint>>
=============================================================================
