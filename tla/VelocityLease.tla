---------------------------- MODULE VelocityLease ----------------------------
(***************************************************************************)
(* What the cmd_vel watchdog of the UGV controller promises: a velocity is *)
(* leased.  A command sets the speed and starts the lease; the wheels keep *)
(* that speed for at most Limit ticks of the 0.1 s timer without another   *)
(* command.  The age is time since the last command, not a counter of the  *)
(* program.                                                                *)
(***************************************************************************)
EXTENDS Integers

CONSTANTS
  Speeds,     \* what a command may ask for, 0 among it
  Limit       \* the length of the lease, in timer periods

VARIABLES speed, age

leaseVars == <<speed, age>>

Stopped == speed = 0 /\ age = 0

(* A command is taken; one that may not drive takes the speed to zero.     *)
Command(v) == speed' = v /\ age' = 0

(* Time passes, but not past the end of the lease of a moving robot.       *)
Pass ==
  /\ speed # 0 => age < Limit
  /\ age' = age + 1
  /\ UNCHANGED speed

Expire == speed' = 0 /\ UNCHANGED age

LeaseNext == (\E v \in Speeds : Command(v)) \/ Pass \/ Expire

Lease == Stopped /\ [][LeaseNext]_leaseVars
=============================================================================
