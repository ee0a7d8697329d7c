---------------------------- MODULE StatusStream -----------------------------
(***************************************************************************)
(* What the UGV node does with the numbers of a status: the board streams  *)
(* statuses once it was asked to, and forgets that when it restarts; each  *)
(* status runs both control loops, is answered with a wheel packet, and    *)
(* moves the odometry.  UgvNode has the same thread with its watchdog,     *)
(* estop state and lamps; here a callback sets any velocity it may set, or *)
(* zero.                                                                   *)
(*                                                                         *)
(* The repository has the node twice.  The copy in .roborio_bridge has its *)
(* control loops commented out: it answers with a packet whose wheels it   *)
(* never wrote.                                                            *)
(*                                                                         *)
(* Statuses may be lost, repeated or reordered, so each has any content;   *)
(* sendto may fail at any call.                                            *)
(*                                                                         *)
(* "fault:" marks a plausible bug in the definition after it, against      *)
(* which the properties are tested; it is no part of the model.            *)
(***************************************************************************)
EXTENDS ControlLoop, Odometry

CONSTANTS
  Copies,                 \* the copies looked at, among "mbzirc" and "roborio_bridge"
  Twists,                 \* what cmd_vel may ask for: records of linear and angular
  MaxLinear, MaxAngular,  \* maxLinear, maxAngular
  WheelDistance,          \* WHEEL_DISTANCE
  Statuses,               \* what a status may report
  Room                    \* positions are looked at up to so far from the origin (a bound)

AllStatuses == [lDisp : Int, rDisp : Int, lVel : Int, rVel : Int, estop : BOOLEAN]

ASSUME StreamAssumption ==
  /\ Copies \subseteq {"mbzirc", "roborio_bridge"}
  /\ Twists \subseteq [linear : Int, angular : Int]
  /\ MaxLinear \in Nat /\ MaxAngular \in Nat /\ WheelDistance \in Nat
  /\ Statuses \subseteq AllStatuses
  /\ Room \in Nat

VARIABLES
  copy,       \* the copy that runs
  pc,         \* where the thread is
  streaming,  \* the board sends statuses
  left,       \* leftLoop
  right,      \* rightLoop
  oldEstop,   \* static oldEstop
  status,     \* the status being handled
  packet,     \* the wheels of the packet that answered it
  odom,       \* static odom, oldDL and oldDR
  straight    \* history: every status published had both wheels at the same place

vars == <<copy, pc, streaming, left, right, oldEstop, packet, status, odom, straight>>

NoStatus == [lDisp |-> 0, rDisp |-> 0, lVel |-> 0, rVel |-> 0, estop |-> FALSE]

Init ==
  /\ copy \in Copies
  /\ pc = "start" /\ streaming = FALSE
  /\ left = AtRest /\ right = AtRest /\ oldEstop = FALSE
  /\ packet = <<0, 0>>
  /\ status = NoStatus
  /\ odom = Origin /\ straight = TRUE

----------------------------------------------------------------------------
(* The board, and main.                                                    *)

(* A board that restarts streams no more.                                  *)
BoardRestarts ==
  /\ streaming
  /\ streaming' = FALSE
  /\ UNCHANGED <<copy, pc, left, right, oldEstop, packet, status, odom, straight>>

(* setStatusHz: the packet that starts the stream.                         *)
SetStatusHz == streaming' = TRUE

(* The constructors: the last packet asks for the stream.  Until all were  *)
(* sent main tries again.                                                  *)
Construct ==
  /\ copy = "mbzirc" /\ pc = "start"
  /\ pc' = "recv" /\ SetStatusHz
  /\ UNCHANGED <<copy, left, right, oldEstop, packet, status, odom, straight>>

(* The other copy's, without loops; its gains are dropped.                 *)
BridgeConstruct ==
  /\ copy = "roborio_bridge" /\ pc = "start"
  /\ pc' = "recv" /\ SetStatusHz
  /\ UNCHANGED <<copy, left, right, oldEstop, packet, status, odom, straight>>

Stop ==
  /\ copy = "mbzirc" /\ pc = "recv"
  /\ pc' = "exit"
  /\ UNCHANGED <<copy, streaming, left, right, oldEstop, packet, status, odom, straight>>

(* The other copy subscribes to robot/cmd_vel when its loop has ended;     *)
(* ros::spin then returns at once, and motorCallback is never called.      *)
BridgeStop ==
  /\ copy = "roborio_bridge" /\ pc = "recv"
  /\ pc' = "exit"
  /\ UNCHANGED <<copy, streaming, left, right, oldEstop, packet, status, odom, straight>>

----------------------------------------------------------------------------
(* getStatusBlocking.                                                      *)

(* A rising estop bit zeroes the integrals; the loops have run whether or  *)
(* not the packet that answers is sent, the status is lost if it is not.   *)
GetStatus(s) ==
  LET Ready(loop) == IF s.estop /\ ~oldEstop THEN ZeroIntegrator(loop) ELSE loop IN
    /\ copy = "mbzirc" /\ pc = "recv" /\ streaming
    /\ left' = Looped(Ready(left), s.lVel)
    /\ right' = Looped(Ready(right), s.rVel)
    /\ oldEstop' = s.estop
    /\ \/ /\ \E l \in DoLoop(Ready(left), s.lVel), r \in DoLoop(Ready(right), s.rVel) :
               packet' = <<l, Negated(r)>>
          /\ pc' = "status" /\ status' = s
       \/ pc' = "caught" /\ UNCHANGED <<packet, status>>
    /\ UNCHANGED <<copy, streaming, odom, straight>>

(* The other copy: whatever the packet's memory held.                      *)
BridgeGetStatus(s) ==
  /\ copy = "roborio_bridge" /\ pc = "recv" /\ streaming
  /\ oldEstop' = s.estop
  /\ \/ packet' \in Int16 \X Int16 /\ pc' = "status" /\ status' = s
     \/ pc' = "caught" /\ UNCHANGED <<packet, status>>
  /\ UNCHANGED <<copy, streaming, left, right, odom, straight>>

(* Nothing came in time, or a packet of another length.                    *)
ReceiveFails ==
  /\ pc = "recv"
  /\ pc' = "caught"
  /\ UNCHANGED <<copy, streaming, left, right, oldEstop, packet, status, odom, straight>>

----------------------------------------------------------------------------
(* updateStatus and the lights: setTime may throw before the odometry is   *)
(* published, the lamps after it.  What was handled is not read again, and *)
(* is forgotten.                                                           *)
Published(next) ==
  /\ next.x \in -Room .. Room /\ next.y \in -Room .. Room
  /\ odom' = next
  /\ straight' = (straight /\ status.lDisp = status.rDisp)

NotPublished == UNCHANGED <<odom, straight>>

UpdateStatus ==
  /\ copy = "mbzirc" /\ pc = "status"
  /\ \/ Published(PublishOdomXY(odom, status.lDisp, status.rDisp)) /\ pc' \in {"spinOnce", "caught"}
     \/ NotPublished /\ pc' = "caught"
  /\ status' = NoStatus /\ packet' = <<0, 0>>
  /\ UNCHANGED <<copy, streaming, left, right, oldEstop>>

BridgePublishOdomXY(lDisp, rDisp) == PublishOdomXY(odom, lDisp, rDisp)

BridgeUpdateStatus ==
  /\ copy = "roborio_bridge" /\ pc = "status"
  /\ \/ Published(BridgePublishOdomXY(status.lDisp, status.rDisp)) /\ pc' \in {"spinOnce", "caught"}
     \/ NotPublished /\ pc' = "caught"
  /\ status' = NoStatus /\ packet' = <<0, 0>>
  /\ UNCHANGED <<copy, streaming, left, right, oldEstop>>

\* fault: the exception is only reported
CaughtReports ==
  /\ copy = "mbzirc" /\ pc = "caught"
  /\ pc' = "spinOnce"
  /\ UNCHANGED <<copy, streaming, left, right, oldEstop, packet, status, odom, straight>>

(* The handler of spin asks for the stream again.                          *)
Caught ==
  /\ copy = "mbzirc" /\ pc = "caught"
  /\ pc' = "spinOnce" /\ SetStatusHz
  /\ UNCHANGED <<copy, left, right, oldEstop, packet, status, odom, straight>>

BridgeCaught ==
  /\ copy = "roborio_bridge" /\ pc = "caught"
  /\ pc' = "spinOnce" /\ SetStatusHz
  /\ UNCHANGED <<copy, left, right, oldEstop, packet, status, odom, straight>>

(* ... and if it cannot the exception leaves spin.                         *)
CaughtUnsent ==
  /\ pc = "caught"
  /\ pc' = "recv"
  /\ UNCHANGED <<copy, streaming, left, right, oldEstop, packet, status, odom, straight>>

----------------------------------------------------------------------------
(* spinOnce.                                                               *)

(* processCmdVel with estopState set, in halves.                           *)
Vels(twist) ==
  LET linear == Clamped(twist.linear, MaxLinear)
      angular == Clamped(twist.angular, MaxAngular)
  IN  <<2 * linear - WheelDistance * angular, 2 * linear + WheelDistance * angular>>

SetVels(vels) ==
  /\ left' = [left EXCEPT !.setPoint = vels[1]]
  /\ right' = [right EXCEPT !.setPoint = vels[2]]

(* Nothing, a command that is obeyed, or one that is not or the watchdog.  *)
SpinOnce ==
  /\ copy = "mbzirc" /\ pc = "spinOnce"
  /\ pc' = "recv"
  /\ \/ UNCHANGED <<left, right>>
     \/ \E twist \in Twists : SetVels(Vels(twist))
     \/ SetVels(<<0, 0>>)
  /\ UNCHANGED <<copy, streaming, oldEstop, packet, status, odom, straight>>

(* The other copy's setVels does nothing.                                  *)
BridgeSetVels == UNCHANGED <<left, right>>

BridgeSpinOnce ==
  /\ copy = "roborio_bridge" /\ pc = "spinOnce"
  /\ pc' = "recv" /\ BridgeSetVels
  /\ UNCHANGED <<copy, streaming, oldEstop, packet, status, odom, straight>>

----------------------------------------------------------------------------
Thread ==
  \/ \E s \in Statuses : GetStatus(s) \/ BridgeGetStatus(s)
  \/ ReceiveFails \/ UpdateStatus \/ BridgeUpdateStatus
  \/ Caught \/ BridgeCaught \/ CaughtUnsent \/ SpinOnce \/ BridgeSpinOnce

Next == BoardRestarts \/ Construct \/ BridgeConstruct \/ Thread \/ Stop \/ BridgeStop

Spec == Init /\ [][Next]_vars

(* The receive times out and no callback blocks; a network that is not     *)
(* broken for good takes the request for the stream.                       *)
FairSpec == Spec /\ WF_vars(Thread) /\ SF_vars(Caught \/ BridgeCaught)

----------------------------------------------------------------------------
TopVel == 2 * MaxLinear + WheelDistance * MaxAngular
LoopOK(loop) ==
  /\ loop \in Loops
  /\ loop.setPoint \in -TopVel .. TopVel
  /\ loop.effSetPoint \in -TopVel .. TopVel

(* The types: no ramp leaves the velocities cmd_vel may ask for, the       *)
(* integral keeps its cap on both sides, a wheel gets 16 bits.             *)
TypeOK ==
  /\ copy \in Copies
  /\ pc \in {"start", "recv", "status", "caught", "spinOnce", "exit"}
  /\ streaming \in BOOLEAN /\ oldEstop \in BOOLEAN /\ straight \in BOOLEAN
  /\ LoopOK(left) /\ LoopOK(right)
  /\ packet \in Int16 \X Int16
  /\ status \in Statuses \cup {NoStatus}
  /\ odom \in Odometries

(* The heading is the difference of the wheels as they were last reported, *)
(* whichever statuses were lost, repeated, reordered or dropped after a    *)
(* send that failed.  It holds no more than that: a board that restarted   *)
(* reports from zero again, and the heading goes back with it.             *)
HeadingFromWheels == odom.heading = (odom.oldDR - odom.oldDL) % 4

(* A robot whose wheels were always reported level is on the line it set   *)
(* out on, on the side of its start its wheels are on, and at its start    *)
(* when they are: no status that was lost or repeated adds or takes a way. *)
OnLine ==
  straight =>
    /\ odom.y = 0
    /\ odom.x > 0 <=> odom.oldDL > 0
    /\ odom.x < 0 <=> odom.oldDL < 0

(* Both loops are the ramp of single steps that UgvNode runs on.           *)
LeftRamp == INSTANCE RampOutline
  WITH setPoint <- left.setPoint \div Accel, effSetPoint <- left.effSetPoint \div Accel
RightRamp == INSTANCE RampOutline
  WITH setPoint <- right.setPoint \div Accel, effSetPoint <- right.effSetPoint \div Accel
RampsAsOutlined == LeftRamp!Ramp /\ RightRamp!Ramp

(* A robot that is told to stand and stands is left alone in the end: the  *)
(* ramp runs out, the integral is dropped, and the packets say zero.       *)
StandsStill ==
  (/\ <>[](left.setPoint = 0 /\ right.setPoint = 0 /\ status.lVel = 0 /\ status.rVel = 0)
   /\ []<>(pc = "status"))
    => <>[](copy = "mbzirc" => packet = <<0, 0>>)

(* A board that restarted is asked for its statuses again.                 *)
StreamResumes == pc # "start" /\ ~streaming ~> streaming \/ pc = "exit"
=============================================================================
