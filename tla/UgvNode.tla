------------------------------- MODULE UgvNode -------------------------------
(***************************************************************************)
(* The ROS node that drives the UGV (src/mbzirc-master/ugv_controller):    *)
(* main, ControllerNode and Controller, one thread.  The loop waits up to  *)
(* 0.1 s for a status packet of the controller board, answers it with a    *)
(* wheel packet, refreshes the lights and then lets ROS call what arrived: *)
(* subscriptions of queue length 1 and two timers.                         *)
(*                                                                         *)
(* A status packet may be delayed, repeated or lost, so every read returns *)
(* any content or none.  sendto fails at any call when the network is gone *)
(* (SendsFail); the exception then leaves the rest of the loop undone.     *)
(* One wheel stands for both: setVels sets the two loops together and the  *)
(* loops are alike.  What ROS itself does (spinOnce, timers) is modelled   *)
(* from the node's use of it.                                              *)
(*                                                                         *)
(* "fault:" marks a plausible bug in the definition after it, against      *)
(* which the properties are tested; it is no part of the model.            *)
(***************************************************************************)
EXTENDS Integers

CONSTANTS
  Topics,               \* the topics somebody publishes on
  Lamps,                \* the lights looked at, among 1..4
  CmdVelTimeout,        \* cmdVelTimeout: cmdvel_timeout in periods of the 0.1 s timer
  VbatEstopDecimation,  \* vbatEstopDecimation
  TopSpeed,             \* the largest velocity, in steps of the acceleration limit
  LightsWanted,         \* the parameter lights_enabled
  SendsFail,            \* sendto may fail
  FdLimit               \* sockets the process may hold open

AllTopics == {"cmd_vel", "safety", "colour", "blue", "pan_cmd", "pan_encoder_set"}

ASSUME NodeAssumption ==
  /\ Topics \subseteq AllTopics
  /\ Lamps \subseteq 1 .. 4
  /\ CmdVelTimeout \in Nat
  /\ VbatEstopDecimation \in 1 .. 1000
  /\ TopSpeed \in Nat \ {0}
  /\ LightsWanted \in BOOLEAN /\ SendsFail \in BOOLEAN
  /\ FdLimit \in Nat

Speeds == - TopSpeed .. TopSpeed
(* An instance that does not look at a lamp leaves out what concerns only  *)
(* that lamp: the battery for lamp 1, the flashing for lamp 2.             *)
Batteries == IF 1 \in Lamps THEN BOOLEAN ELSE {FALSE}
Safety == IF 2 \in Lamps THEN {"off", "on", "flashing", "other"} ELSE {"other"}
                        \* safetyState: any int may be cast to it
FlashTimer == IF 2 \in Lamps THEN {"safetyFlash"} ELSE {}
Statuses == [estop : BOOLEAN, lowBattery : Batteries]
Sends == IF SendsFail THEN BOOLEAN ELSE {TRUE}  \* what a sendto may report

(* Bounds of the model: above them the values behave alike.                *)
AgeBound     == CmdVelTimeout + 3
CounterBound == CmdVelTimeout + 2
QuietBound   == VbatEstopDecimation + 1

VARIABLES
  pc,                   \* where the thread is
  openSockets,          \* sockets opened and not closed
  setPoint,             \* ControlLoop::setPoint
  effSetPoint,          \* ControlLoop::effSetPoint, which follows it within the limit
  woundUp,              \* ControlLoop::integral holds error summed while estop was clear
  oldEstop,             \* static oldEstop
  status,               \* the status being handled
  decimateCounter,      \* static decimateCounter
  estopState,           \* estopState
  cmdVelTimeoutCounter, \* cmdVelTimeoutCounter
  due,                  \* the watchdog timer has expired and waits for spinOnce
  batch,                \* the callbacks this spinOnce has still to call
  out,                  \* out1 .. out4: the lamps that are true
  safetyState,          \* safetyState
  lightsEnabled,        \* Controller::lightsEnabled
  flashOn,              \* static flash_on, its parity
  dout,                 \* the lamps lit by the last output packet sent
  age,                  \* history: timer periods since the last cmd_vel callback
  quiet                 \* history: statuses updateStatus saw since one with estop set

wheel   == <<setPoint, effSetPoint, woundUp, oldEstop>>
estop   == <<decimateCounter, estopState, quiet>>
watch   == <<cmdVelTimeoutCounter, age>>
lights  == <<out, safetyState, lightsEnabled, flashOn, dout>>
vars == <<pc, openSockets, wheel, status, estop, watch, due, batch, lights>>

NoStatus == [estop |-> FALSE, lowBattery |-> FALSE]

Init ==
  /\ pc = "start" /\ openSockets = 0
  /\ setPoint = 0 /\ effSetPoint = 0 /\ woundUp = FALSE /\ oldEstop = FALSE
  /\ status = NoStatus
  /\ decimateCounter = 0 /\ estopState = FALSE /\ quiet = QuietBound
  /\ cmdVelTimeoutCounter = 0 /\ age = 0
  /\ due = FALSE /\ batch = {}
  /\ out \in SUBSET Lamps          \* never initialised
  /\ safetyState \in Safety        \* never initialised
  /\ lightsEnabled = TRUE /\ flashOn = FALSE
  /\ dout \in SUBSET Lamps         \* whatever the board was left with

AtMost(n, bound) == IF n > bound THEN bound ELSE n
Incremented(n, bound) == AtMost(n + 1, bound)

----------------------------------------------------------------------------
(* main, until the controller answers.                                     *)

(* The constructor throws: no socket, no answer to the ping, or a packet   *)
(* that cannot be sent, after the lamps were turned off or before.         *)
(* ~Controller does not run: the socket stays open.                        *)
ConstructFails ==
  /\ pc = "start"
  /\ openSockets' = AtMost(openSockets + 1, FdLimit)
  /\ dout' \in {dout} \cup (IF LightsWanted THEN {} ELSE {{}})
  /\ UNCHANGED <<pc, wheel, status, estop, watch, due, batch, out, safetyState,
                 lightsEnabled, flashOn>>

(* The board answered and every packet was sent.  setLightsEnabled turns   *)
(* the lamps off if they are not wanted.                                   *)
Construct ==
  /\ pc = "start"
  /\ openSockets < FdLimit
  /\ openSockets' = openSockets + 1
  /\ pc' = "recv"
  /\ lightsEnabled' = LightsWanted
  /\ dout' = IF LightsWanted THEN dout ELSE {}
  /\ UNCHANGED <<wheel, status, estop, watch, due, batch, out, safetyState, flashOn>>

(* ros::ok() is false before the controller answered: the loop ends all    *)
(* the same, the program says it is connected and deletes a pointer that   *)
(* was never set.                                                          *)
StopUnconnected ==
  /\ pc = "start"
  /\ pc' = "unconnected"
  /\ UNCHANGED <<openSockets, wheel, status, estop, watch, due, batch, lights>>

----------------------------------------------------------------------------
(* Controller: packets.                                                    *)

\* fault: lightsEnabled is assigned before the lamps are turned off
SetLightsEnabledFirst(enabled, sent) ==
  /\ lightsEnabled' = enabled
  /\ dout' = dout

(* setLightsEnabled: disabling turns the lamps off, unless they are        *)
(* disabled already; if that packet is not sent nothing changes.           *)
SetLightsEnabled(enabled, sent) ==
  IF ~enabled /\ lightsEnabled
  THEN IF sent THEN lightsEnabled' = FALSE /\ dout' = {}
               ELSE UNCHANGED <<lightsEnabled, dout>>
  ELSE lightsEnabled' = enabled /\ UNCHANGED dout

\* fault: the lamps are set although they are disabled
UpdateLightsAlways(sent) == dout' = IF sent THEN out' ELSE dout

(* updateLights: setOutputs does nothing while the lights are disabled.    *)
UpdateLights(sent) ==
  dout' = IF lightsEnabled /\ sent THEN out' ELSE dout

(* out with one lamp set or cleared.                                       *)
Lit(lamp, yes) == (out \ {lamp}) \cup (IF yes THEN {lamp} \cap Lamps ELSE {})

Sent(needed, sent) == sent \/ ~needed

\* fault: a difference of one step is ignored
FollowedRoughly ==
  IF setPoint > effSetPoint + 1 THEN effSetPoint + 1
  ELSE IF setPoint < effSetPoint - 1 THEN effSetPoint - 1
  ELSE effSetPoint

(* doLoop: the effective set point moves to the set point by at most one   *)
(* step.                                                                   *)
Followed ==
  IF setPoint > effSetPoint THEN effSetPoint + 1
  ELSE IF setPoint < effSetPoint THEN effSetPoint - 1
  ELSE effSetPoint

\* fault: oldEstop is assigned after the wheel packet is sent
DriveLoopLate(s, moving, sent) ==
  /\ effSetPoint' = Followed
  /\ woundUp' = (/\ setPoint # 0 \/ moving
                 /\ (woundUp /\ ~(s.estop /\ ~oldEstop)) \/ ~s.estop)
  /\ oldEstop' = IF sent THEN s.estop ELSE oldEstop
  /\ UNCHANGED setPoint

(* The drive loop of getStatusBlocking: a rising estop bit zeroes the      *)
(* integral, then doLoop adds the error; a robot told to stand that stands *)
(* has no integral.                                                        *)
DriveLoop(s, moving, sent) ==
  /\ effSetPoint' = Followed
  /\ woundUp' = (/\ setPoint # 0 \/ moving
                 /\ (woundUp /\ ~(s.estop /\ ~oldEstop)) \/ ~s.estop)
  /\ oldEstop' = s.estop
  /\ UNCHANGED setPoint

----------------------------------------------------------------------------
(* spin().  The receive waits up to one period of the watchdog timer, and  *)
(* the rest of the loop takes no time next to it.                          *)

Tick ==
  /\ pc = "recv"
  /\ pc' = "late"
  /\ due' = TRUE
  /\ age' = Incremented(age, AgeBound)
  /\ UNCHANGED <<openSockets, wheel, status, estop, cmdVelTimeoutCounter, batch, lights>>

(* getStatusBlocking with a whole packet: the wheel packet answers it, and *)
(* if that cannot be sent the status is lost.                              *)
GetStatus(s) ==
  /\ pc \in {"recv", "late"}
  /\ \E sent \in Sends, moving \in BOOLEAN :
       /\ DriveLoop(s, moving, sent)
       /\ IF sent THEN pc' = "status" /\ status' = s
                  ELSE pc' = "caught" /\ UNCHANGED status
  /\ UNCHANGED <<openSockets, estop, watch, due, batch, lights>>

(* getStatusBlocking without one: nothing in time or a packet of another length. *)
ReceiveFails ==
  /\ pc \in {"recv", "late"}
  /\ pc' = "caught"
  /\ UNCHANGED <<openSockets, wheel, status, estop, watch, due, batch, lights>>

\* fault: the counter is compared with > before it wraps
UpdateStatusLate ==
  /\ pc = "status"
  /\ quiet' = IF status.estop THEN 0 ELSE Incremented(quiet, QuietBound)
  /\ IF decimateCounter + 1 > VbatEstopDecimation
     THEN decimateCounter' = 0 /\ estopState' = status.estop
     ELSE decimateCounter' = decimateCounter + 1 /\ UNCHANGED estopState
  /\ out' = Lit(1, status.lowBattery)
  /\ \E sent \in Sends : pc' = IF sent THEN "flash" ELSE "caught"
  /\ UNCHANGED <<openSockets, wheel, status, watch, due, batch, safetyState, lightsEnabled,
                 flashOn, dout>>

(* updateStatus: every VbatEstopDecimation-th status sets estopState, every *)
(* status sets out1.  If the board's clock is off, setTime sends a packet, *)
(* which may throw.                                                        *)
UpdateStatus ==
  /\ pc = "status"
  /\ quiet' = IF status.estop THEN 0 ELSE Incremented(quiet, QuietBound)
  /\ IF decimateCounter + 1 >= VbatEstopDecimation
     THEN decimateCounter' = 0 /\ estopState' = status.estop
     ELSE decimateCounter' = decimateCounter + 1 /\ UNCHANGED estopState
  /\ out' = Lit(1, status.lowBattery)
  /\ \E sent \in Sends : pc' = IF sent THEN "flash" ELSE "caught"
  /\ UNCHANGED <<openSockets, wheel, status, watch, due, batch, safetyState, lightsEnabled,
                 flashOn, dout>>

(* The lights are enabled on every second status.                          *)
FlashLights ==
  /\ pc = "flash"
  /\ flashOn' = IF LightsWanted THEN ~flashOn ELSE flashOn
  /\ LET enabled == LightsWanted /\ flashOn IN
       \E sent \in Sends :
         /\ SetLightsEnabled(enabled, sent)
         /\ pc' = IF Sent(~enabled /\ lightsEnabled, sent) THEN "lights" ELSE "caught"
  /\ UNCHANGED <<openSockets, wheel, status, estop, watch, due, batch, out, safetyState>>

ShowLights ==
  /\ pc = "lights"
  /\ UNCHANGED <<out, safetyState, lightsEnabled, flashOn>>
  /\ \E sent \in Sends :
       /\ UpdateLights(sent)
       /\ pc' = IF Sent(lightsEnabled, sent) THEN "spinOnce" ELSE "caught"
  /\ UNCHANGED <<openSockets, wheel, status, estop, watch, due, batch>>

(* The handler of spin asks for the status stream again.  If that packet   *)
(* cannot be sent the exception leaves spin, and spinOnce is not reached.  *)
Caught ==
  /\ pc = "caught"
  /\ \E sent \in Sends : pc' = IF sent THEN "spinOnce" ELSE "recv"
  /\ UNCHANGED <<openSockets, wheel, status, estop, watch, due, batch, lights>>

----------------------------------------------------------------------------
(* ros::spinOnce(): the callbacks that wait when it starts, in any order.  *)

SpinOnce ==
  /\ pc = "spinOnce"
  /\ pc' = "callbacks"
  /\ \E arrived \in SUBSET (Topics \cup FlashTimer) :
       batch' = arrived \cup (IF due THEN {"watchdog"} ELSE {})
  /\ due' = FALSE
  /\ UNCHANGED <<openSockets, wheel, status, estop, watch, lights>>

Called(callback) ==
  /\ pc = "callbacks"
  /\ callback \in batch
  /\ UNCHANGED <<openSockets, effSetPoint, woundUp, oldEstop, status, estop>>

(* A callback that cannot send throws: main catches it, and what is left   *)
(* waits for the next spinOnce, the watchdog among it.                     *)
Returned(callback) ==
  /\ pc' = pc
  /\ batch' = batch \ {callback}
  /\ UNCHANGED due

Threw(callback) ==
  /\ pc' = "recv"
  /\ batch' = {}
  /\ due' = ("watchdog" \in batch)

\* fault: the watchdog is not told of the command
CmdVelUnnoticed(v) ==
  /\ Called("cmd_vel") /\ Returned("cmd_vel")
  /\ setPoint' = IF estopState THEN v ELSE 0
  /\ age' = 0
  /\ UNCHANGED <<cmdVelTimeoutCounter, lights>>

\* fault: while estopState is clear the command is ignored instead of obeyed with zero
CmdVelIgnored(v) ==
  /\ Called("cmd_vel") /\ Returned("cmd_vel")
  /\ cmdVelTimeoutCounter' = 0 /\ age' = 0
  /\ setPoint' = IF estopState THEN v ELSE setPoint
  /\ UNCHANGED lights

(* cmdVelCallback: the velocity is obeyed only while estopState is set.    *)
CmdVelCallback(v) ==
  /\ Called("cmd_vel") /\ Returned("cmd_vel")
  /\ cmdVelTimeoutCounter' = 0 /\ age' = 0
  /\ setPoint' = IF estopState THEN v ELSE 0
  /\ UNCHANGED lights

\* fault: one period more
CmdVelTimeoutLate ==
  /\ Called("watchdog") /\ Returned("watchdog")
  /\ setPoint' = IF cmdVelTimeoutCounter > CmdVelTimeout + 1 THEN 0 ELSE setPoint
  /\ cmdVelTimeoutCounter' = Incremented(cmdVelTimeoutCounter, CounterBound)
  /\ UNCHANGED <<age, lights>>

(* cmdVelTimeoutCallback.                                                  *)
CmdVelTimeoutCallback ==
  /\ Called("watchdog") /\ Returned("watchdog")
  /\ setPoint' = IF cmdVelTimeoutCounter > CmdVelTimeout THEN 0 ELSE setPoint
  /\ cmdVelTimeoutCounter' = Incremented(cmdVelTimeoutCounter, CounterBound)
  /\ UNCHANGED <<age, lights>>

(* What the light callbacks have in common: out' is set, then the lamps.   *)
LightsCalled(callback) ==
  /\ Called(callback)
  /\ \E sent \in Sends :
       /\ UpdateLights(sent)
       /\ IF Sent(lightsEnabled, sent) THEN Returned(callback) ELSE Threw(callback)
  /\ UNCHANGED <<setPoint, watch, lightsEnabled, flashOn>>

(* safetyCallback: off and on set out2, any other state only itself.       *)
SafetyCallback(s) ==
  /\ safetyState' = s
  /\ IF s \in {"off", "on"}
     THEN out' = Lit(2, s = "on") /\ LightsCalled("safety")
     ELSE /\ Called("safety") /\ Returned("safety")
          /\ UNCHANGED <<setPoint, watch, out, lightsEnabled, flashOn, dout>>

SafetyFlashCallback ==
  /\ UNCHANGED safetyState
  /\ IF safetyState = "flashing"
     THEN out' = Lit(2, 2 \notin out) /\ LightsCalled("safetyFlash")
     ELSE /\ Called("safetyFlash") /\ Returned("safetyFlash")
          /\ UNCHANGED <<setPoint, watch, out, lightsEnabled, flashOn, dout>>

ColourCallback(lit) ==
  /\ out' = lit
  /\ LightsCalled("colour")
  /\ UNCHANGED safetyState

BlueCallback(yes) ==
  /\ out' = Lit(3, yes)
  /\ LightsCalled("blue")
  /\ UNCHANGED safetyState

(* panCmdCallback and panEncSetCallback only send.                         *)
PanCallback(callback) ==
  /\ callback \in {"pan_cmd", "pan_encoder_set"}
  /\ Called(callback)
  /\ \E sent \in Sends : IF sent THEN Returned(callback) ELSE Threw(callback)
  /\ UNCHANGED <<setPoint, watch, lights>>

SpinDone ==
  /\ pc = "callbacks"
  /\ batch = {}
  /\ pc' = "recv"
  /\ UNCHANGED <<openSockets, wheel, status, estop, watch, due, batch, lights>>

\* fault: the destructor leaves the lights as they are
StopLit ==
  /\ pc = "recv"
  /\ pc' = "exit"
  /\ openSockets' = openSockets - 1
  /\ UNCHANGED <<wheel, status, estop, watch, due, batch, lights>>

(* ros::ok() is false at the head of the loop: ~ControllerNode turns the   *)
(* lights off, if it can.                                                  *)
Stop ==
  /\ pc = "recv"
  /\ pc' = "exit"
  /\ \E sent \in Sends : SetLightsEnabled(FALSE, sent)
  /\ openSockets' = openSockets - 1
  /\ UNCHANGED <<wheel, status, estop, watch, due, batch, out, safetyState, flashOn>>

----------------------------------------------------------------------------
Startup == ConstructFails \/ Construct
Loop ==
  \/ \E s \in Statuses : GetStatus(s)
  \/ ReceiveFails \/ UpdateStatus \/ FlashLights \/ ShowLights \/ Caught
Callbacks ==
  \/ \E v \in Speeds : CmdVelCallback(v)
  \/ CmdVelTimeoutCallback
  \/ \E s \in Safety : SafetyCallback(s)
  \/ SafetyFlashCallback
  \/ \E lit \in SUBSET Lamps : ColourCallback(lit)
  \/ \E yes \in BOOLEAN : BlueCallback(yes)
  \/ \E callback \in AllTopics : PanCallback(callback)

Thread == Loop \/ SpinOnce \/ Callbacks \/ SpinDone

Next == Startup \/ StopUnconnected \/ Tick \/ Thread \/ Stop

Spec == Init /\ [][Next]_vars

(* The thread goes on: the receive times out and no callback blocks.  A    *)
(* board that can be connected to again and again is connected to.  The    *)
(* timer, the messages and the packets are not fair.                       *)
FairSpec == Spec /\ WF_vars(Thread) /\ SF_vars(Construct)

----------------------------------------------------------------------------
TypeOK ==
  /\ pc \in {"start", "unconnected", "recv", "late", "status", "flash", "lights", "caught",
            "spinOnce", "callbacks", "exit"}
  /\ openSockets \in 0 .. FdLimit
  /\ setPoint \in Speeds /\ effSetPoint \in Speeds
  /\ woundUp \in BOOLEAN /\ oldEstop \in BOOLEAN
  /\ status \in Statuses
  /\ decimateCounter \in 0 .. VbatEstopDecimation - 1 /\ estopState \in BOOLEAN
  /\ quiet \in 0 .. QuietBound
  /\ cmdVelTimeoutCounter \in 0 .. CounterBound /\ age \in 0 .. AgeBound
  /\ due \in BOOLEAN
  /\ batch \subseteq Topics \cup FlashTimer \cup {"watchdog"}
  /\ out \subseteq Lamps /\ dout \subseteq Lamps
  /\ safetyState \in Safety
  /\ lightsEnabled \in BOOLEAN /\ flashOn \in BOOLEAN

----------------------------------------------------------------------------
(* estopState, which lets cmd_vel drive, is no older than the decimation:  *)
(* one of the last VbatEstopDecimation statuses had the estop bit set.     *)
EstopFresh == estopState => quiet < VbatEstopDecimation

(* While the estop bit is set the integral holds no error that was summed  *)
(* while it was clear, whichever packets got lost and whichever sends      *)
(* failed around the edge.                                                 *)
IntegralFresh == oldEstop => ~woundUp

(* The lamps are dark whenever the node believes them disabled: an enable  *)
(* flag never runs ahead of the packet that turns them off.                *)
DarkWhenDisabled == ~lightsEnabled => dout = {}

(* The watchdog is patient: it takes no velocity away before the timeout   *)
(* has passed since the last command, even if timer and command met in one *)
(* spinOnce or the timer was kept waiting.                                 *)
WatchdogPatient ==
  [][setPoint # 0 /\ "watchdog" \in batch /\ "watchdog" \notin batch' /\ setPoint' = 0
       => age > CmdVelTimeout]_vars

(* No velocity outlives its command by more than CmdVelTimeout + 2 timer   *)
(* periods.  It holds as long as no send fails.                            *)
LeasePeriods == CmdVelTimeout + 2
L == INSTANCE VelocityLease WITH speed <- setPoint, Limit <- LeasePeriods
VelocityLeased == L!Lease

(* What the launch file says of cmdvel_timeout, "seconds", as the wheels   *)
(* see it: no wheel packet goes out for a velocity whose last command is   *)
(* older than the watchdog allows.  It fails when sends fail: the exception *)
(* skips spinOnce, the watchdog does not run, and when the network is back *)
(* the first status is answered with the old velocity.                     *)
WheelsFollowFresh ==
  [][setPoint # 0 /\ pc # "status" /\ pc' = "status"
       => age <= LeasePeriods]_vars

----------------------------------------------------------------------------
Silent == "cmd_vel" \notin batch

(* Without commands, as long as statuses come, the wheels slow down to     *)
(* zero and stay there: the watchdog clears the set point and the drive    *)
(* loop follows it all the way.                                            *)
SilenceStopsWheels ==
  <>[]Silent /\ []<>due /\ []<>(pc = "status") => <>[](effSetPoint = 0)

(* Once the estop bit stays clear the velocity comes to zero although      *)
(* commands keep arriving and keep the watchdog from firing.               *)
EstopStops ==
  <>[](~status.estop) /\ []<>(pc = "status") /\ []<>due => <>[](setPoint = 0)

(* A low battery makes lamp 1 flash: it is lit again and again and dark    *)
(* again and again.                                                        *)
LowBatteryFlashes ==
  <>[](status.lowBattery) /\ []<>(pc = "status") => []<>(1 \in dout) /\ []<>(dout = {})

(* The node leaves the lamps dark when it stops.                           *)
ExitDark == pc = "exit" => dout = {}

(* What the node says when the board does not answer, "retrying in 1       *)
(* second...": a board that answers is found in the end.  It fails: every  *)
(* failed constructor leaves its socket open, and a process that has no    *)
(* descriptor left never opens another.                                    *)
RetryConnects == <>(pc # "start")
=============================================================================
