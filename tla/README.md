# Verification of the FRC 2017 robot code (team 4729)

TLA+ modules, TLC runs and TLAPS proofs about the programs of this repository
that make something move: the Java program of the competition robot
(`FRCDriveCode/`), the vision computer that tells it where the boiler is
(`src/NUC_master/`), and the ROS node of the unmanned ground vehicle
(`src/mbzirc-master/ugv_controller/`, with an unfinished copy in
`src/.roborio_bridge/`).  Paths are relative to the repository
root; in `PROJECT.json` they start with `src/`, the checkout.

## 1. Inventory

### The parts and how they interact

```
 driver station --packets--> [mode loop: Robot.java] --20 ms--> [Scheduler (WPILib)]
   (enable, mode, buttons)          |                      polls | runs
                                 teleopInit              [OI] buttons -> [commands]
                                                                          | calls
                                    [DriveSubsystem] [FuelSubsystem] [ClimbSubsystem]
                                                [TCPSubsystem] <--TCP--> [NUC: master, bridge,
                                                                          image_processing]

 ROS topics, timers --spinOnce--> [ControllerNode] <--UDP--> controller board
 (cmd_vel, safety, colour, ...)   [Controller] [ControlLoop]   (status / wheels, lamps)
```

| component | state | operations | what makes it correct |
|---|---|---|---|
| mode loop, `Robot.java` | which mode was initialised, the objects it created, `flipped` | robotInit, *Init, *Periodic | entering a mode leaves nothing behind from the last one |
| operator interface, `OI.java` | 14 bindings, one command object each | constructor | two buttons on one motor do not disturb each other; the winner of two drive selections is determined |
| scheduler (library) | command list, additions, `pressedLast`, current command per subsystem | `run`, `add`, `remove`, `removeAll` | a required subsystem has one command; a removed command was told so |
| teleop commands | started, cancelled | initialize, execute, interrupted | a motor that was switched on is switched off on every way out |
| drive, fuel, climb subsystems | last value of each motor; filtered speeds; latched tank speeds | arcade, tank, start/stop pairs | one writer per run; a released stick stops |
| autonomous commands | timers, encoders, phase | as above, in sequential groups | each step of a group ends |
| NUC link, robot side, `TCPSubsystem.java` | two sockets, a reader per receive | accept, sendPacket, receivePacket, requestImageData | a request gets its own answer; the robot thread does not block |
| NUC link, vision side, `master.cpp`, `bridge.cpp` | socket, image mode | connect, receive, answer | each request is answered in its mode, about its picture |
| NUC image processing, `image_processing.cpp` | last distance and middle, `tapeFound` | filter, contours, measure | a measurement is about this picture; strips of tape stay apart |
| tape viewers, `opencv_test.cpp`, `image_subscriber.cpp` | none | copies of the tracker, shown on a screen | see what the tracker sees |
| ROS TCP bridge, `roborio_bridge_tcp.cpp`, `roborio_bridge_old.cpp` | socket | forward, receive | neither compiles |
| UGV node, `ugv_controller_node.cpp` | watchdog counter, estop state and decimation, lamps, safety state, odometry | main, spin, 8 callbacks, 2 timers | an old command stops; estop stops; the lamps tell the truth |
| UGV protocol, `ugv_controller.cpp` | socket, `lightsEnabled`, estop edge, two control loops | ping, status/wheel exchange, lamps, time, pan | flags and hardware agree although any send may throw |
| UGV control loop, `control_loop.cpp` | set point, ramped set point, integral | doLoop, reset | the ramp and the integral follow the set point and the estop edge; the output fits 16 bits |
| older copy of the UGV node, `.roborio_bridge/` | as the UGV node, without control loops | as the UGV node, then a subscriber that comes too late | it keeps its status stream and its odometry |

### What is hard here

* **Driver-station packets change between two reads of one run** (Java).  The
  mode loop, each button poll and each `Command.run()` ask for the latest
  packet separately, so a robot may be enabled for the mode loop and disabled
  for the third command of the same run.
* **Takeovers and removals.**  A command leaves the list by cancel, by disable,
  by a takeover of its subsystem, by `removeAll` in test mode or with the
  process; only some of these call `interrupted()`, where the motors stop.
* **Restart.**  An exception in a command ends the program and the runtime
  starts it again while the drivers still hold the button.
* **Exceptions as control flow** (C++).  Every `sendto` of the UGV node may
  throw, from `spin`, from its own exception handler, from callbacks, from
  constructor and destructor; each leaves a different remainder of the loop
  undone.
* **Timers against messages.**  The watchdog timer and `cmd_vel` wait in one
  queue and are called in either order; the timer is delayed as long as
  `spinOnce` is not reached.
* **Decimation.**  `estopState` is a sample of every tenth status and gates
  `cmd_vel`.

* **One thread on each side of a TCP stream.**  Both sides of the NUC link write
  and read without a timeout, replies have no line end, `accept` and `connect`
  are called once: the loss of a program, or a full socket, is for good.
* **Pictures and their measurements.**  The NUC keeps the last measurement in
  globals; a request may arrive in pieces or with another.
* **UDP statuses and floating-point loops.**  A status may be lost, repeated or
  reordered, or come from a restarted board; each runs two control loops whose
  output is cut to 16 bits, and moves the odometry by a difference.

`PROJECT.json` lists every hazard at its line with the properties that guard it,
or the reason why none does.  Besides those, these were looked at and
cannot bite or are not the program's to decide: the reader that `TCPSubsystem`
creates anew for every receive drops what the last one read ahead, but without
a line end it returns only at the end of the stream; two contours with one
centre would make the distance zero; `linear.y` of the odometry is given the forward
speed and nobody reads it; the units of wheel speed and battery voltage
are the board's.

## 2. The modules

| module | what it is |
|---|---|
| `RobotCommands` | the Java program: mode loop, OI, commands, motors, and the scheduler underneath |
| `RobotCommandsProofs` | theorems about it |
| `MCRobotCommands` | the sets of buttons TLC uses |
| `DriveOutline` | the drive as the scheduler needs it: moving or not, a kept power or not; `RobotCommands` extends it |
| `DriveSubsystem` | `arcade` and `tank` with their ramps, kept powers and mixing, on scaled integers; implements `DriveOutline` |
| `DriveSubsystemProofs` | theorems about it, with that refinement |
| `MCDriveSubsystem` | the joystick positions TLC uses |
| `TapeTracker` | the vision pipeline on frames of a few pixels, and the two viewers |
| `TapeTrackerProofs` | theorems about it |
| `NucLink` | robot and NUC over one TCP connection; extends `TapeTracker` |
| `NucLinkProofs` | theorems about it; extends `TapeTrackerProofs` |
| `MCNucLink` | the frames TLC uses |
| `VelocityLease` | what the `cmd_vel` watchdog promises, in three actions |
| `UgvNode` | the UGV node, its protocol object and the ramp of its control loop |
| `UgvNodeProofs` | theorems about it, with the refinement of `VelocityLease` |
| `MCUgvNode` | the sets of topics and lamps TLC uses |
| `RampOutline` | what `UgvNode` takes a control loop for: a ramp of single steps |
| `ControlLoop` | one loop on scaled integers: ramp, capped integral, gains, dead band, 16-bit output |
| `Odometry` | one published status, from wheel displacements to a position |
| `StatusStream` | the numbers of a status through loops, wheel packet and odometry, in both copies of the node; implements `RampOutline` twice |
| `StatusStreamProofs` | theorems about it, with that refinement |
| `MCStatusStream` | the statuses and commands TLC uses |

What composes what: `RobotCommands` puts the scheduler on `DriveOutline`, which
`DriveSubsystem` implements; `NucLink` composes the two ends of the link with the
tracker; `StatusStream` composes loops, odometry and thread, and implements, once per
wheel, the `RampOutline` that `UgvNode` has in place of its loops.  `RobotCommands`
and `NucLink` are not composed: `Robot.java` never creates the
`TCPSubsystem`, so the first has NUC commands that crash (`RunCrashes`), and the second
has what those commands do once the commented lines of `Robot.java` are put back.
The Java program and the ROS node share no state and no connection.
Definitions marked `fault:` are plausible bugs in the definition that follows
them.  They are used by no specification; each property is tested by showing
that one of them breaks it.

### RobotCommands and the code

One step is one thing the robot thread does between two reads of the driver
station.  `pc` is its place: `down` (no process), `wait` (in `waitForData`),
`poll`, `run`, `add` (the three phases of `Scheduler.run`).

| action | code |
|---|---|
| `RobotInit` | `robotInit`: new objects; each button scheduler starts with its button's state |
| `DisabledPeriodic`, `AutonomousPeriodic`, `TeleopPeriodic`, `TestPeriodic` | the init handler if the mode is new, then the periodic handler.  `teleopInit` starts a new `TwoStickArcade`; `autonomousCommand` is always null; entering test mode makes `LiveWindow` remove all commands and zero all motors |
| `PollHeld`, `PollPressed` | `whileHeld`: start on every poll, cancel on release; `whenPressed`: start on the rising edge |
| `RunRemoved` | `Command.run` of a cancelled command, or of any command when it reads a disabled robot: `interrupted()` and removal |
| `RunExecuted` | `initialize` on the first run, then `execute` |
| `RunCrashes` | `execute` of the two NUC commands, which dereference `Robot.tcpSubsystem`; nobody assigns it |
| `RunDone`, `AddIgnored`, `AddStarts`, `AddReplaces`, `AddDone` | the additions, the takeover of a required subsystem, and the default commands (none), whose lookup calls `initDefaultCommand` |

Buttons are the indices of `OI`, in the order of its constructor; an index also
names the command object of that binding, so `rightButton1` (8) and `x` (12) are
two `PreFire` objects on one shooter.  A command is a record of what the code of
its class does; `isFinished` is false and `end` is empty in all of them.  A motor
is on or off; the drive is moving or not, plus whether `leftFinal`/`rightFinal`
hold a value (`tankLatched`), which `tank` never clears: this is `DriveOutline`,
and that `arcade` and `tank` can do nothing else is what `DrivesAsOutlined`
says of the module with the numbers.

The scheduler is a library without source in the repository.  It was modelled
from the byte code in `FRCUserProgram.jar`, as far as this program uses it:
`run` returns when disabled by `LiveWindow`; buttons are polled in reverse
order; the next list element is fetched before a command runs; `Command.run`
cancels itself when the station reports disabled; `removed` calls
`interrupted` only after `initialize`; additions are handled last; a
subsystem without a command is asked for its default command.

### DriveSubsystem and the code

`Tank` and `Arcade` are whole calls of the two methods.  `Ramp` is the clipping to a
smaller demand and the `+= ... * ACCELERATION` after it, `Pushed` the comparison with
`DEADZONE`, `Power` and `Kept` the assignment to `leftFinal` and `rightFinal`, which has no
`else`.  `arcade` computes such powers too and then overwrites them with the plain
speeds, so they are left out.  The four commands differ in the axes they read; they come in
any order, because `RobotCommands` lets any drive selection follow any other.
`Flip` changes the direction between two calls, and entering test mode cuts the
motors and nothing else.  `called` records the last call and no guard reads it.

A double 1.0 is the integer `One`.  The step of a ramp is rounded up: a ramp that rounds
down stops short of its target, which doubles do not.  Powers are rounded down, and
`Strong` allows for that.

### UgvNode and the code

One thread again.  `pc` names the place in `main`/`spin`: `start` (the retry
loop), `recv`, `late` (the receive, before and after a timer period), `status`,
`flash`, `lights` (handling one status), `caught` (the handler in `spin`),
`spinOnce`, `callbacks`, `exit`, `unconnected`.

| action | code |
|---|---|
| `ConstructFails`, `Construct`, `StopUnconnected` | the retry loop of `main` and the constructors of `Controller` and `ControllerNode` |
| `Tick` | a period of the 0.1 s timer passes during the receive |
| `GetStatus`, `ReceiveFails` | `getStatusBlocking`: the wheel packet answers each status; a timeout or a packet of another length throws |
| `UpdateStatus`, `FlashLights`, `ShowLights`, `Caught` | the rest of one round of `spin` and its handler |
| `SpinOnce`, `SpinDone`, `*Callback` | `ros::spinOnce` and what it calls |
| `Stop` | `ros::ok()` is false: the destructor |

A callback that throws leaves through `spinOnce` and `main`'s handler to the
head of the loop (`Threw`).  Callbacks not yet called wait for the next
`spinOnce`: `SpinOnce` may choose any subset of the topics again, and the
watchdog is put back explicitly.  The two wheel loops are set together and
updated alike: one stands for both.  The integral is reduced to its provenance:
`woundUp` says that it holds error summed while the estop bit was clear, and a
robot told to stand that stands has none.  `out` and `safetyState` start with any
value, because no constructor sets them.

`age` and `quiet` are history variables: periods since the last `cmd_vel`, and
statuses since one with the estop bit set.  No guard reads them.

### TapeTracker and the code

A frame is a function from pixels to colours.  `Lit` is the colour test of `onlyGreen`,
`OnlyGreen` its dilation and erosion with a square of `Kernel` pixels to every side
(a closing: gaps disappear, the tape keeps its size), `FindContours` the connected sets of what is left,
`MinAreaRect` the bounding box, `FirstTwo` the first two after the sort by area, in any order if
equal.  `Distance` keeps the square of the distance of the two centres, from
which the code computes a quotient, and the constant of the mode.  `Middle` is `actualX` with its two minuses, which
cancel.  `ImageUpdate` is a whole call; `OpencvTest` and `ImageCallback` are the two
viewers, which show a line where their copy sees two contours.  OpenCV itself is
external: an outline inside another one is not modelled, because the tape hangs as upright strips.

### NucLink and the code

The robot has one thread, the NUC another.

| action | code |
|---|---|
| `RobotStart`, `Accept` | the constructor of `TCPSubsystem`: listen, accept once |
| `Call`, `SendPacket`, `Sent` | a command (`Words`) and `sendPacket`, which catches what a write throws, but not a null socket |
| `ReadLine` | `receivePacket`, then `requestImageData` and the loop of `AutoTurnToBoilerBlue` (`Aim`, `Steered`); what cannot be parsed or is null ends the program |
| `NucStart`, `NucConnects`, `NucSetup` | `main` up to its loop |
| `NucServes` | `receive_message` with whatever has arrived, the mode, `image_update` |
| `NucReply` | `send_message`: one write without a line end |
| `RobotKilled`, `NucKilled` | either program ends at any time, and its sockets are closed |
| `NucLosesPower`, `LinkReset` | the NUC's power or cable: no packet tells the robot, until TCP finds out |

`robotSide` and `nucSide` are the two ends of the connection.  A side whose peer has gone
is `ended` or `dead`, and a write to it may succeed once more or throw, or
be the signal that ends the NUC's program.  Where no packet told the robot its side is
`silent`: what it writes is lost, and `readLine` waits as on a live connection.  A NUC that
connects while the robot's one `accept` is over waits in the backlog (`queued`) for good; `stale` is how a connection in
front of the backlog was left before it was accepted.

As committed, `bridge.cpp:45` connects to 127.0.0.1 and keeps the robot's address,
10.47.29.64, in a comment: robot and NUC would be programs of one machine.  The
model is of the two machines the comment speaks of.

### StatusStream and the code

`StatusStream` has the thread of `UgvNode` again with the numbers and without watchdog,
estop state and lamps: a spin may call nothing, an obeyed command or a stop.  It has the board as
well, which streams statuses once asked (`SetStatusHz`) and forgets that when it restarts.  Every
status has any content of `Statuses`, which is what losing, repeating and reordering UDP packets
amounts to.  `GetStatus` runs both loops
(`Looped`, `DoLoop`) whether or not the answer is sent, and `UpdateStatus` publishes unless `setTime`
throws first.  The actions named `Bridge...` are the older copy's: its loops
are commented out and its packet holds what the memory held.

Velocities are integers in a unit of the instance, integrals that unit times `dt`, gains any
integers; `Unit` is the output that makes one of the 16-bit value, whose
overflow may give any value (`RawOutputs`), as C++ leaves it undefined.  Headings are quarter turns
(a displacement counts the difference that turns the robot by a quarter), so sine and cosine are exact.
`straight` is a history variable no guard reads.

## 3. The runs

| run | instance | question | distinct states |
|---|---|---|---|
| `shared` | buttons 1, 8, 12, fair | does any order of releases, takeovers, disables, test mode and restarts leave a motor on without an owner, or end a command whose button is held; do released motors stop, held ones run, a disabled robot drain? | 221 880 |
| `drive` | buttons 2, 5, 6, 10, fair | can two commands drive at once; which drive selection wins; does teleop keep a drive command but for a disable; do released NUC buttons keep the program up; does the flip settle? | 572 482 |
| `drive_ramp` | `One` 10, four joystick positions, fair | do released sticks stop arcade; do held ones win over old state; are powers in range; is `DriveOutline` implemented? | 479 238 |
| `drive_flip` | `One` 10, two positions, fair | *violated*: does a turn turn the robot, flipped or not? | 70 |
| `nuc` | 10 x 2 pixels, three commands, three frames, fair | is an answer about the picture of its request; do near strips melt; does the NUC answer every request of a connection that stays up? | 28 368 |
| `nuc_aim` | as `nuc`, the aiming command, tape in the centre or none | *violated*: is a robot with its tape in the centre left unturned? | stops early |
| `nuc_request` | the aiming command only, fair | *violated*: is a request answered on a connection that stays up? | stops early |
| `ugv_drive` | `cmd_vel`, `safety`; lamp 2; sends fail | estop sampling, integral, lamps and the watchdog's patience under failing sends | 2 634 124 |
| `ugv_lease` | four topics; lamp 1; sends work; fair | does the node implement `VelocityLease`; do silence and estop bring the wheels to rest; does a low battery flash whatever else sets the lamps; is the exit dark? | 274 762 |
| `ugv_outage` | `cmd_vel`, sends fail | *violated*: does the watchdog bound the age of a velocity sent to the wheels? | stops early |
| `ugv_retry` | 3 descriptors, fair | *violated*: is a board that answers found in the end? | 40 240 |
| `wheels` | both copies, five statuses, one twist, fair | are loops and odometry right whichever statuses and sends are lost; are both loops `UgvNode`'s ramp; does the stream come back? | 166 532 |

Every passing run explores its state space completely; no constraint cuts it, except
that `StatusStream` guards the position with `Room`.

### What they show

* **Motors have owners** (`MotorOwned`, `HeldKeepsRunning`, `ReleasedStops`,
  `HeldRuns`).  `PreFire`, `Intake`, `PreIntake` and `Climb` stop their motor in
  `interrupted` only.  It works: the only removal that does not call it is
  `removeAll`, and `LiveWindow` zeroes the motors in the same call.  With two
  buttons on one motor the release of one stops the motor for the rest of the
  run, and the other command switches it on again in the next: it is owned, and
  runs again and again, but not without a gap.
* **The drive has one command** (`DriveExclusive`, `EarlierButtonWins`).  The
  scheduler polls buttons from the last to the first and a later addition takes
  over, so of several selections in one run the one OI binds first wins, and
  any of them beats `teleopInit`'s.
* **Teleop loses its drive command to a disable only** (`DriveLostToDisable`, `TeleopDrives`).
  `Command.run` reads the enable bit for itself.  A disable that comes and goes
  between the mode loop's reads removes the drive command, teleop is never left,
  `teleopInit` does not run again, and nothing drives until a drive button is
  pressed.  Nothing else takes the command away: not a release, a takeover, a flip or another
  button.  Without such a disable a robot that stays in teleop keeps a drive command.
* **tank() keeps its power** (`DrivesAsOutlined`, `PowerInRange`, `HeldSettles`).  Inside the
  dead zone `leftFinal` and `rightFinal` are not assigned: a released tank drive keeps the
  power of the last push, at least 0.405, until a stick is pushed again or another
  command drives.  Held sticks do win over whatever was kept.  `arcade` has no such memory:
  `ReleasedArcadeStops`.
* **A flipped arcade drive cannot turn** (`TurnTurns`, violated).  The flipped branch gives the
  two sides opposite powers whatever the turn is.  The behaviour TLC shows is flipped once and called
  by `arcade(0, turn)` from then on.  `tank` is flipped correctly.
* **Only the NUC buttons end the program** (`ReleasedStaysUp`).  The commands they start use a
  subsystem nobody created; once they are released the program starts again and stays.
* **An answer is about its picture** (`AnswerFresh`).  `actualDistance` and `actualX` survive a
  picture without tape, requests arrive glued together or in pieces, and the mode changes between
  pictures; `tapeFound` still makes every reply one about the picture taken for it.
* **A centred robot is turned** (`CentredIsNotTurned`, violated).  Two minuses cancel, so the
  measured middle is never left of the middle of the frame, and `AutoTurnToBoilerBlue` compares it with
  a middle of 5 pixels.  With the tape in the centre of every picture the answer is still "right";
  `AimIsOneWay` proves it is "right" wherever the tape is.
* **Near strips melt** (`GapWiderThanKernel`).  The filter closes gaps up to twice the kernel; the
  robot then has one contour and no tape.
* **The NUC answers, and the robot does not read** (`RequestServed`; `RequestAnswered`, violated).  However
  a request was cut and whatever other commands left unread, a robot that waits has a reply under way.
  But `readLine` waits for a line end no reply has; on a connection that stays up, or falls silent, the
  scheduler's only thread never returns (`LiveRequestsHang`).  A lost connection is lost until the robot's
  program restarts, although a restarted NUC connects to the backlog (`LostStaysLost`).
* **The heading is the wheels'** (`HeadingFromWheels`).  Lost, repeated and reordered statuses do not
  bend it.  It is no better than the wheels as they are reported: a restarted board counts from zero,
  and heading and position snap back with it.
* **A straight robot is on its line** (`OnLine`), on the side its wheels are on.  How far along
  is another matter: `l + r / 2` reports half again as far as the wheels went
  (`StraightIsHalfAgainAsFar`).
* **The loops are the ramp `UgvNode` runs on** (`RampsAsOutlined`), and a robot told to stand
  that stands is left alone in the end (`StandsStill`): the ramp runs out, the integral is
  dropped.
* **The stream comes back** (`StreamResumes`).  Nothing but the handler of the receive timeout asks a restarted
  board for its statuses.
* **A velocity is a lease** (`VelocityLeased`, `WatchdogPatient`,
  `SilenceStopsWheels`).  The watchdog compares before it counts and its call may
  wait for one round, so the velocity lives for up to `CmdVelTimeout + 2` periods,
  and never less than `CmdVelTimeout`.  This needs a network that sends:
  `WheelsFollowFresh` is violated when it does not, because the handler of `spin`
  sends as well and its exception skips `spinOnce`.
* **Estop** (`EstopFresh`, `EstopStops`, `IntegralFresh`).  The sampled bit is never
  staler than its decimation; while it stays clear commands that keep arriving
  are obeyed with zero; the estop edge is recorded before the send that may fail, so the
  integral is always cleared.
* **Lamps** (`DarkWhenDisabled`, `LowBatteryFlashes`, `ExitDark`).  `setOutputs` may throw
  between the decision and the flag.  The order in `setLightsEnabled` is the right one: the flag
  never claims a darkness that was not sent.
* **Retries leak** (`RetryConnects`, violated).  A constructor that throws never closes
  its socket.

### Bounds, and why they are enough

* `Wired`: the buttons that are ever pressed.  Interaction in this program is by
  a shared motor, by the drive requirement or by a crash; the sets take one of
  each kind together: two objects on one motor and one on another in `shared`; two drive
  selections with the command of `teleopInit`, a NUC button and the flip in `drive`.
  The safety properties are proved for every set.
* `TeleopInstances`: two suffice, because `teleopInit`'s previous object is the only
  one that may still be scheduled when the next is started.
* `One` 10: the dead zone 1.5 lies between two integers, a ramp to full power takes eight
  calls, and the joystick positions (released, forward, spin, one stick just off its centre
  against one half back) make it start, reverse, and stop within the dead zone.  The
  range, stop and refinement results are proved for every `One` and every set of positions.
* Frames of 10 x 2 pixels with a `Kernel` of 1: room for strips that touch, melt and stay apart, and
  for three contours, two of them equal.  The camera of the NUC gives no tape, two strips that melt, or three; the
  viewers get every pattern of one row, alone, doubled and doubled in mirror image, so diagonals
  touch too.  The closing is proved for every frame, size and kernel.
* `Buffered` 2: what a socket holds.  A request of two words fills it, and so do two replies nobody
  reads: writers on both sides can wait for each other.
* `Center`, `Tolerance`, `TooFar`: the order of the code's numbers (5 and 50 pixels of 640) is kept,
  which is what the comparison depends on (`LinkAssumption`).
* `Accel` 2 with wheel set points 3 and 5: ramps of two and three steps, the last a partial one.
  `Kick` 2 with `IntMax` 3 makes pushed, unpushed and overflowing outputs happen; `Cap` 1 is
  reached at once.
* `Room` 3: positions further from the origin are not looked at.  Displacements are zero or one per wheel, so
  the robot turns by a quarter to either side and back.  Range, heading, distance and ramps are
  proved without `Room`, for every instance.
* `CmdVelTimeout` 2 (5 in the launch file), `VbatEstopDecimation` 2 or 3 (10):
  large enough for a command to meet the watchdog below, at and above the comparison.
* `TopSpeed` in steps of the acceleration limit: 2 lets the ramp be overtaken by
  a new set point half-way.
* `AgeBound`, `CounterBound`, `QuietBound` cap the counts one above the largest
  value any guard or property compares with; behaviour above is the same.
* `FdLimit`: a process has about 1024 descriptors; 3 shows the exhaustion, 1 is enough
  where nothing is about it.
* `Lamps` and `Topics`: lamps do not influence each other and the callbacks of
  `blue`, `colour` and `safety` differ only in which lamp they set.  What concerns only a
  lamp that is not looked at is left out (`Batteries`, `Safety`, `FlashTimer`).
* `LightsWanted` is false in `ugv_outage` and `ugv_retry`, where no lamp is looked at.

`CHECK_DEADLOCK FALSE` is set where the system may stop: the UGV node ends
(`exit`, `unconnected`), a viewer ends, and robot and NUC may each wait in a full socket for the other.

### Fairness

* `RobotCommands!FairSpec`: weak fairness of the thread.  The driver station's packets
  arrive every 20 ms, no step of the scheduler blocks, and the robot's runtime
  restarts a program that exits.  Nothing is assumed of the drivers or the
  mode; liveness properties have them as premises.
* `DriveSubsystem!FairSpec`: strong fairness of the last call made again.  The scheduler
  executes the drive command every 20 ms, with the sticks where they are held, and a flip button
  must be seen released and then pressed, on two runs, before it flips again.  So flips
  cannot for ever fall between two calls, which weak fairness would allow.
* `UgvNode!FairSpec`: weak fairness of the thread, because the receive times
  out and no callback blocks; strong fairness of `Construct`, that is, a board that
  answers again and again is found.  The timer, the messages and
  the packets are not fair: properties that need them say so (`[]<>due`,
  `[]<>(pc = "status")`).
* `NucLink!FairSpec`: weak fairness of what a started program does by itself: writes, reads, connects,
  serves, replies.  Nobody has to start a program, press a button, switch anything off, or
  accept; a write into a full socket is not enabled and owes nothing, nor does one to a silent
  connection, and TCP need never find out that it is silent.
* `StatusStream!FairSpec`: weak fairness of the thread as in `UgvNode`, and strong fairness of the
  handler that asks for the stream: a network that takes packets again and again takes that one.
  Without it nothing would have to be sent, and `StreamResumes` could not hold.

## 4. The proofs

TLAPS proves these for **every** value of the constants; assumptions are
`WiredAssumption` (a non-empty set of OI's buttons), `OneAssumption` and
`ReadingsAssumption` (a positive scale, axes between -1.0 and 1.0), `NodeAssumption`, `LoopAssumption`
and `StreamAssumption` (the ranges of the parameters; the dead band's ends are in order and fit
16 bits), `TrackerAssumption` (frames are functions from pixels to colours) and `LinkAssumption` (the
robot's centre lies left of the middle of the frame by more than its tolerance).  Some theorems
assume more: `~SendsFail` for the lease, its freshness and the dark exit, which fail without it, and `Accel # 0` for the ramps,
as no limit is no ramp.

| theorem | argument |
|---|---|
| `RobotCommandsProofs!TypeCorrect` | inductive by itself |
| `MotorsAreOwned` | inductive with the types: every command stops exactly what it starts (`CommandFacts`, by cases on the eleven commands) |
| `DriveIsExclusive` | strengthened by `Distinct` (the list repeats no command) and `OneDriver` (the one that requires the drive is the current one): unlinking by position is only right if positions are unique |
| `LowestButtonWins` | strengthened by `SelectionInv`: the additions of one run fall (`Falling`, `PolledFalling`), every scheduled command has run when they begin (`RunInitializes`), and a current command that has not run is beaten by what is still to come (`NewestLeads`) |
| `TestModeStops` | strengthened by `NothingStarted` and `TestWaits`: nothing waits to be added between two runs, and test mode never enters one |
| `HeldCommandsKeepRunning` | needs `CanceledReleased` (who is cancelled is released) and `CanceledInRun` (a cancel is consumed in the run that polled it), which says where in the list a cancelled command can be, phase by phase |
| `MotorsAreHeld` | `RobotInv` adds `HeldInv` to the invariants above: what is scheduled, waits to be added or was started belongs to a button that is held, phase by phase (`ScheduledHeld`, `AddedHeld`); an owner that is not cancelled is therefore held |
| `OnlyNucButtonsCrash`, `OnlyDisableLosesDrive`, `OnlyEnabledMoves`, `OnlyPressFlips` | steps of `RobotInv`, by what a command may do (`ExecutedSteps`): what is behind a crash, a lost drive, a motion or a flip is always a button the last poll saw, or a disable |
| `UsesOutline` | each action is `Arcade`, `Tank` or `MotorsCut` of `DriveOutline` or leaves the drive alone, until the program exits |
| `DriveSubsystemProofs!TypeCorrect`, `KeptPowersInRange`, `ArcadeStops` | one invariant, `DriveInv`, from three lemmas on integers: a ramp never passes its target (`AccelerateRange`), meets a zero demand at once (`RampRange`), and a kept power is zero or strong and never becomes zero again (`KeptRange`) |
| `ImplementsOutline` | from `DriveInv`: `tank` maps to `Tank` because the motors are at zero exactly when both kept powers are; `arcade` and test mode leave the kept powers alone |
| `HeldSticksApproach` | from `DriveInv`: a ramp that has not reached a stick comes nearer with every call (`RampApproaches`) |
| `PowerGrowsWithStick` | rounding down keeps the order, and the step at the dead zone too |
| `FlippedNeverTurns` | from `DriveInv`: the flipped branch gives powers that cancel, the other one twice the turn |
| `UgvNodeProofs!TypeCorrect` | with `Connected`: a node that was constructed holds a socket |
| `EstopStaysFresh` | strengthened by `QuietCounted`: statuses since the bit was set are no more than the decimation has counted |
| `IntegralStaysFresh` | inductive by itself, whichever sends fail |
| `DisabledStaysDark` | inductive by itself, whichever sends fail |
| `WatchdogIsPatient` | `WaitsInOnePlace` (a waiting watchdog is in the timer or in the batch, not both) and `Counted` (the counter runs ahead of time by at most the call that waits) |
| `NodeLeasesVelocity` | for `~SendsFail`: `LeaseHeld` (time runs ahead of the counter by at most the call that waits) makes every `Tick` of a moving robot a `Pass` of `VelocityLease`; command, watchdog and all else map to `Command`, `Expire` and stuttering |
| `FreshUnlessSendsFail` | for `~SendsFail`: `LeaseHeld` bounds the age at every send |
| `NodeFollowsRamp` | every step follows the ramp once or leaves it alone, and only `cmd_vel` and the watchdog set it (`VelocitySteps`) |
| `EstopStopsCommands` | from `EstopFresh`: a bit set for the decimation has been sampled |
| `ExhaustedForever` | no descriptor is ever given back before a constructor has succeeded |
| `ExitsDark` | for `~SendsFail`: the destructor's lamp packet arrives, and `DisabledStaysDark` covers the exit with lights disabled |
| `StatusStreamProofs!TypeCorrect` | inductive: the limited difference never passes the set point (`DiffRange`), `cmd_vel` cannot ask for more than both limits together (`VelsRange`), the dead band and the minus keep 16 bits (`PushedRange`) |
| `HeadingIsWheels` | with the types: differences of differences telescope modulo four |
| `StraightStaysOnLine` | from `StraightIsHalfAgainAsFar` |
| `StraightIsHalfAgainAsFar` | needs `HeadingFromWheels`: only because equal wheels mean heading zero does the whole way go along x |
| `ImplementsRamps` | for `Accel # 0`: an integer division takes a limited step to one step and the last, partial one to one step or none (`DivUnique`, `DivMonotone`, `DivStep`, `LoopedFollows`); all else stutters |
| `RampsRunOut` | one call of `doLoop` shortens the gap by the limit (`LoopedShortens`), for both loops and whether or not the answer is sent |
| `RestStaysRest` | a standing loop has no error and its integral is dropped (`StandingLoop`); zero is pushed to zero (`ZeroNegated`) |
| `RisingEstopDropsIntegral` | the reset comes before the loop and before the send that may fail, so one error is summed after it |
| `PushNotMonotone` | an output just inside the dead band's upper end is pushed to almost twice what one at the end gets |
| `NucLinkProofs!EndsAlwaysAgree` | inductive after the steps are classified by what they do to the two ends (`LinkSteps`) |
| `AnswersAreFresh` | needs `NucIsMaster` (a viewer is another program); between the picture and its reply nothing touches the tracker (`ReplySteps`), and a measured picture establishes the property whatever its contours are (`UpdateIsFresh`) |
| `NucLinkProofs!TypeCorrect` | `LinkTypes` is inductive, because boxes lie in the picture (`BoxesInFrame`); `EndsAgree` joins it |
| `AimIsOneWay` | strengthened by `RightOnly`: what the tracker has found, and every reply under way, lies in the right half of the picture, which `LinkAssumption` puts right of what the robot aims at (`FarIsRight`) |
| `LostStaysLost` | no step of a robot past its constructor makes its end live |
| `LiveRequestsHang`, `SteersOncePerConnection` | from `LinkTypes` and `EndsAgree`: only `ReadLine` steers, and only when the robot's end is neither live nor silent; then the NUC's end is not live and adds no reply (`RobotReads`, `NucAnswers`) |
| `TapeIsAlwaysRight` | the same for one answer: a middle of two boxes is never left of the middle of the frame |
| `TapeTrackerProofs!ContoursAreComponents`, `ContoursDoNotDependOnOrder` | a set of pixels for which the fold is wrong, and which contains no smaller one, does not exist (`SmallestSet`): without its first pixel the fold is right, and that pixel joins what it touches |
| `BoxesInFrame` | a contour is a non-empty set of pixels, and has a least and a greatest coordinate |
| `TwoLargestExist` | of finitely many areas some is the greatest, twice |
| `ClosingKeeps`, `RowGapsClose`, `ColumnGapsClose` | the closing loses no tape and closes every gap of up to twice the kernel in a row or column |
| `GapsAreAlwaysWide` | pixels of two contours so near in a row have all between them kept by the closing (`RowGapsClose`), and a kept row never leaves its contour, which touches nothing else (`RowStays`); so they are of one contour. Columns likewise |

`UgvNodeProofs` first classifies the steps (`EstopSteps`, `IntegralSteps`,
`WatchdogSteps`), and the invariants are shown by class, not by action.

`TapeTrackerProofs` argues about a fold over pixels.  The library's induction theorems take an
operator as a parameter, which no installed prover instantiates; that the subsets of a finite
set are well founded is a fact without one, so those proofs take a smallest counterexample instead.

**Only model-checked**: liveness, since it needs fairness and `ENABLED` (`ReleasedStops`, `HeldRuns`,
`TeleopDrives`, `DisabledDrains`, `ReleasedStaysUp`, `FlipSettles`,
`SilenceStopsWheels`, `EstopStops`, `LowBatteryFlashes`, `HeldSettles`, `RequestServed`, `StandsStill`,
`StreamResumes`).  Every safety invariant and action property a passing run checks is proved.  Of most
liveness properties the step that makes them true is proved as well:

| liveness, by TLC | the step, by TLAPS |
|---|---|
| `ReleasedStops` | `MotorsAreHeld`: after one run of the scheduler nothing released is on |
| `ReleasedStaysUp` | `OnlyNucButtonsCrash` |
| `TeleopDrives` | `OnlyDisableLosesDrive` |
| `HeldRuns` | `HeldCommandsKeepRunning` |
| `FlipSettles` | `OnlyPressFlips` |
| `HeldSettles` | `HeldSticksApproach`: at most `2 * One` calls |
| `EstopStops` | `EstopStopsCommands`, `NodeFollowsRamp` |
| `SilenceStopsWheels` | `NodeLeasesVelocity`, `NodeFollowsRamp` |
| `StandsStill` | `RampsRunOut`, `RestStaysRest` |

Of the five violated properties TLC finds one behaviour each.  Four theorems say how general it is:
every flipped turn fails (`FlippedNeverTurns`), every tape is to the right (`TapeIsAlwaysRight`,
`AimIsOneWay`), every request on a connection that stays up hangs (`LiveRequestsHang`), and an
exhausted node stays exhausted (`ExhaustedForever`).  A fifth says what would have to hold: with a
network that sends, the wheels follow fresh velocities (`FreshUnlessSendsFail`).

### Disagreements between code and words

Five runs refute what a comment, message or launch file says: `drive_flip`, `nuc_aim`,
`nuc_request`, `ugv_outage` and `ugv_retry`.  `PROJECT.json` quotes the lines under "findings".

## 5. What is not modelled

* The autonomous commands but the two that use the NUC, and with them encoders and gyro of the drive:
  `Robot.java` never starts one.  `ClimbSubsystem.release` and the NUC's `decode_message` have no caller.
* `roborio_bridge_tcp.cpp`, `roborio_bridge_old.cpp` and `auto_utils.cpp`: they do not compile, so there is no
  behaviour to model.  `JSONSubsystem.java` is one comment.
* Lamps, watchdog and callbacks of the older copy of the UGV node: line by line those of the other
  copy, and modelled there.
* OpenCV, TCP and the WPILib scheduler are external and modelled from their use; the compiler
  identification sources under `CMakeFiles/` and the header under `install/` is an installed copy.
* Derivative gain, covariances and twist of the UGV: computed and used by nothing that moves.
* `publish_image` publishes one image and keeps nothing.
* After `StopUnconnected` the program deletes a pointer that was never set;
  the model ends there.
* More than one tick of the watchdog timer per receive: the timer asks once, however
  late its call is.

## 6. Running

```
tlc -config shared.cfg MCRobotCommands.tla
tlc -config drive_ramp.cfg MCDriveSubsystem.tla
tlc -config nuc.cfg MCNucLink.tla
tlc -config ugv_lease.cfg MCUgvNode.tla
tlc -config wheels.cfg MCStatusStream.tla
tlapm RobotCommandsProofs.tla
tlapm DriveSubsystemProofs.tla
tlapm TapeTrackerProofs.tla
tlapm NucLinkProofs.tla
tlapm StatusStreamProofs.tla
tlapm UgvNodeProofs.tla
```
