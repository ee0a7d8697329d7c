---------------------------- MODULE RobotCommands ----------------------------
(***************************************************************************)
(* The FRC robot program (src/FRCDriveCode): the operator interface of     *)
(* OI.java, the commands it binds to buttons, the actuators of the         *)
(* subsystems and the mode handlers of Robot.java, run by WPILib's         *)
(* single-threaded command scheduler.  The driver station's packets (enable *)
(* bit, mode, buttons) arrive on another thread between any two steps of   *)
(* the robot thread, which reads the latest one whenever it looks: so every *)
(* read below returns any value, and two reads in one run may disagree.    *)
(*                                                                         *)
(* The scheduler itself is a library (edu.wpi.first.wpilibj), modelled     *)
(* from its byte code in FRCUserProgram.jar as far as this program uses    *)
(* it: no command here is uninterruptible, a group or a default command.   *)
(* The drive is DriveOutline, whose actions Arcade and Tank the drive      *)
(* commands call; DriveSubsystem implements it.                            *)
(*                                                                         *)
(* Definitions marked "fault:" are no part of the model.  Each is a        *)
(* plausible bug in the definition after it, against which the properties  *)
(* are tested.                                                             *)
(***************************************************************************)
EXTENDS DriveOutline, Sequences

CONSTANT Wired      \* the buttons of OI the drivers ever press, as indices of OI

----------------------------------------------------------------------------
(* The commands.  requires: it calls requires(Robot.driveSubsystem);       *)
(* starts: the motors execute() switches on; stops: the motors             *)
(* interrupted() switches off; drive: the drive method execute() calls;    *)
(* flips: initialize() toggles Robot.flipped; usesNuc: execute()           *)
(* dereferences Robot.tcpSubsystem, which robotInit never creates.  Every  *)
(* isFinished() is FALSE and every end() empty, so neither is a field.     *)

None == 0           \* no command: Java's null

Idle == [requires |-> FALSE, starts |-> {}, stops |-> {}, drive |-> "none",
         flips |-> FALSE, usesNuc |-> FALSE]

OneStickTankUnrequired == [Idle EXCEPT !.drive = "tank"]     \* fault: no requires()
PreFireStopsInEnd == [Idle EXCEPT !.starts = {"shooter"}]    \* fault: interrupted() empty

OneStickTank   == [Idle EXCEPT !.requires = TRUE, !.drive = "tank"]
TwoStickTank   == [Idle EXCEPT !.requires = TRUE, !.drive = "tank"]
OneStickArcade == [Idle EXCEPT !.requires = TRUE, !.drive = "arcade"]
TwoStickArcade == [Idle EXCEPT !.requires = TRUE, !.drive = "arcade"]
Climb          == [Idle EXCEPT !.starts = {"climber"}, !.stops = {"climber"}]
PreFire        == [Idle EXCEPT !.starts = {"shooter"}, !.stops = {"shooter"}]
PreIntake      == [Idle EXCEPT !.starts = {"preloader"}, !.stops = {"preloader"}]
Intake         == [Idle EXCEPT !.starts = {"intake"}, !.stops = {"intake"}]
Flip           == [Idle EXCEPT !.flips = TRUE]
ReceiveTCPPacket == [Idle EXCEPT !.usesNuc = TRUE]
SendUDPPacket    == [Idle EXCEPT !.usesNuc = TRUE]

FuelMotors  == {"shooter", "preloader", "intake"}
ClimbMotors == {"climber"}
Motors == FuelMotors \cup ClimbMotors

(* The bindings in the order OI's constructor registers them.  Each binding *)
(* owns the command instance it constructs, so the index of the button also *)
(* names the instance: 8 and 12 are two PreFire objects on one shooter.    *)
OI == << [how |-> "whileHeld",   command |-> Climb],             \* button1
         [how |-> "whenPressed", command |-> OneStickTank],      \* button2
         [how |-> "whenPressed", command |-> TwoStickTank],      \* button3
         [how |-> "whenPressed", command |-> OneStickArcade],    \* button4
         [how |-> "whenPressed", command |-> TwoStickArcade],    \* button5
         [how |-> "whileHeld",   command |-> ReceiveTCPPacket],  \* button6
         [how |-> "whileHeld",   command |-> SendUDPPacket],     \* button7
         [how |-> "whileHeld",   command |-> PreFire],           \* rightButton1
         [how |-> "whileHeld",   command |-> PreIntake],         \* rightButton2
         [how |-> "whileHeld",   command |-> Flip],              \* rightButton3
         [how |-> "whileHeld",   command |-> Intake],            \* b
         [how |-> "whileHeld",   command |-> PreFire],           \* x
         [how |-> "whileHeld",   command |-> Climb],             \* y
         [how |-> "whenPressed", command |-> TwoStickArcade] >>  \* wheelButton3

Buttons == 1 .. 14
TeleopInstances == {15, 16}     \* the TwoStickArcade objects teleopInit creates:
                                \* at most one is scheduled while the next starts
Instances == Buttons \cup TeleopInstances

Command(c) == IF c \in Buttons THEN OI[c].command ELSE TwoStickArcade
WhileHeldToo(b) == OI[b].how = "whileHeld" \/ Command(b).requires  \* fault: drives too
WhileHeldBut8(b) == OI[b].how = "whileHeld" /\ b # 8           \* fault: 8 whenPressed
WhileHeld(b) == OI[b].how = "whileHeld"

Modes == {"disabled", "auto", "teleop", "test"}

ASSUME WiredAssumption == Wired \subseteq Buttons /\ Wired # {}

----------------------------------------------------------------------------
VARIABLES
  enabled,        \* what the last read of the control word's enable bit returned
  pc,             \* where the robot thread is
  mode,           \* the m_xxxInitialized flags: the mode whose init ran last
  toPoll,         \* buttons Scheduler.run() has not polled yet
  pressedLast,    \* the button schedulers' pressedLast flags: what the last poll read
  commands,       \* the scheduler's linked list of running commands
  cursor,         \* position of the next command Scheduler.run() runs
  additions,      \* m_additions: commands started since the last run
  initialized,    \* Command.m_initialized
  canceled,       \* Command.m_canceled
  currentCommand, \* driveSubsystem's current command
  configured,     \* driveSubsystem.initDefaultCommand() has run
  on,             \* the motors whose last set() was not zero
  flipped         \* Robot.flipped

scheduled     == <<commands, initialized, canceled, currentCommand>>
buttons       == <<toPoll, pressedLast>>
actuators     == <<on, driving, tankLatched, flipped>>
vars == <<enabled, pc, mode, buttons, scheduled, cursor, additions, configured, actuators>>

Range(s) == {s[i] : i \in DOMAIN s}
Active(motor) == {c \in initialized : motor \in Command(c).stops}

RemoveAt(s, k) == [i \in 1 .. Len(s) - 1 |-> IF i < k THEN s[i] ELSE s[i + 1]]
Position(c) == CHOOSE i \in DOMAIN commands : commands[i] = c

(* No object of the program exists before robotInit has run.               *)
Init ==
  /\ enabled = FALSE
  /\ pc = "down" /\ mode = "none"
  /\ toPoll = {} /\ pressedLast = {}
  /\ commands = <<>> /\ cursor = 1 /\ additions = <<>>
  /\ initialized = {} /\ canceled = {} /\ currentCommand = None
  /\ configured = FALSE
  /\ on = {} /\ driving = FALSE /\ tankLatched = FALSE /\ flipped = FALSE

----------------------------------------------------------------------------
(* The mode loop: waitForData() returns for a packet asking for mode m, the *)
(* init handler runs if m is new, then the periodic handler, which runs the *)
(* scheduler or, in test mode, does not.                                   *)

(* robotInit.  A button scheduler starts with the state of its button.     *)
RobotInit ==
  /\ pc = "down"
  /\ pc' = "wait"
  /\ pressedLast' \in SUBSET Wired
  /\ UNCHANGED <<enabled, mode, toPoll, scheduled, cursor, additions, configured,
                 actuators>>

RunScheduler ==
  /\ pc' = "poll"
  /\ toPoll' = Wired
  /\ UNCHANGED <<pressedLast, scheduled, cursor, configured, actuators>>

Wake(m) ==
  /\ pc = "wait"
  /\ mode' = m
  /\ enabled' = (m # "disabled")

(* disabledInit is empty: nothing is reset.                                *)
DisabledPeriodic ==
  /\ Wake("disabled")
  /\ RunScheduler
  /\ UNCHANGED additions

\* fault: autonomousInit starts a command that needs the NUC link
AutonomousTestsNuc ==
  /\ Wake("auto")
  /\ RunScheduler
  /\ additions' = IF mode = "auto" THEN additions ELSE Append(additions, 6)

(* autonomousCommand is always null: autonomousInit starts nothing.        *)
AutonomousPeriodic ==
  /\ Wake("auto")
  /\ RunScheduler
  /\ UNCHANGED additions

\* fault: teleopInit starts nothing
TeleopStartsNothing == Wake("teleop") /\ RunScheduler /\ UNCHANGED additions

(* teleopInit starts a new TwoStickArcade; it has no other effect.         *)
TeleopPeriodic ==
  /\ Wake("teleop")
  /\ RunScheduler
  /\ IF mode = "teleop"
     THEN UNCHANGED additions
     ELSE \E c \in TeleopInstances \ Range(commands) :
            additions' = Append(additions, c)

NoRemoveAll == UNCHANGED scheduled    \* fault: the commands stay

(* Entering test mode, LiveWindow disables the scheduler, removes every    *)
(* command (end(), not interrupted()) and sets every motor to zero.        *)
RemoveAll ==
  /\ commands' = <<>> /\ initialized' = {} /\ canceled' = {} /\ currentCommand' = None

TestPeriodic ==
  /\ Wake("test")
  /\ IF mode = "test"
     THEN UNCHANGED <<scheduled, on, driving>>
     ELSE RemoveAll /\ on' = {} /\ driving' = FALSE
  /\ UNCHANGED <<pc, buttons, cursor, additions, configured, tankLatched, flipped>>

----------------------------------------------------------------------------
(* Scheduler.run(): first the buttons, in the reverse of their order in OI. *)

\* fault: in the order of OI
PollNextAscending(b) ==
  /\ pc = "poll"
  /\ b \in toPoll
  /\ \A other \in toPoll : other >= b
  /\ toPoll' = toPoll \ {b}
  /\ IF toPoll = {b} THEN pc' = "run" /\ cursor' = 1 ELSE UNCHANGED <<pc, cursor>>
  /\ UNCHANGED <<enabled, mode, commands, initialized, currentCommand, configured,
                 actuators>>

PollNext(b) ==
  /\ pc = "poll"
  /\ b \in toPoll
  /\ \A other \in toPoll : other <= b
  /\ toPoll' = toPoll \ {b}
  /\ IF toPoll = {b} THEN pc' = "run" /\ cursor' = 1 ELSE UNCHANGED <<pc, cursor>>
  /\ UNCHANGED <<enabled, mode, commands, initialized, currentCommand, configured,
                 actuators>>

\* fault: a release cancels every command of the motor
CancelMotor(b) ==
  /\ canceled' = canceled \cup {c \in Range(commands) : Command(c) = Command(b)}
  /\ UNCHANGED additions

Start(b)  == additions' = Append(additions, b) /\ UNCHANGED canceled
Cancel(b) == canceled' = (IF b \in Range(commands) THEN canceled \cup {b} ELSE canceled)
             /\ UNCHANGED additions

(* whileHeld: start() on every poll, cancel() on release.                  *)
PollHeld(b) ==
  /\ WhileHeld(b)
  /\ PollNext(b)
  /\ \/ pressedLast' = pressedLast \cup {b} /\ Start(b)
     \/ pressedLast' = pressedLast \ {b}
        /\ IF b \in pressedLast THEN Cancel(b) ELSE UNCHANGED <<additions, canceled>>

(* whenPressed: start() on the rising edge, nothing on release.            *)
PollPressed(b) ==
  /\ ~WhileHeld(b)
  /\ PollNext(b)
  /\ \/ pressedLast' = pressedLast \cup {b}
        /\ IF b \in pressedLast THEN UNCHANGED <<additions, canceled>> ELSE Start(b)
     \/ pressedLast' = pressedLast \ {b} /\ UNCHANGED <<additions, canceled>>

----------------------------------------------------------------------------
(* ... then the commands, in the order they were added.                    *)

NoInterrupt(c) == UNCHANGED on    \* fault: interrupted() is not called

(* Command.removed() of a canceled command: interrupted() if initialize()  *)
(* had run.                                                                *)
Interrupt(c) ==
  on' = IF c \in initialized THEN on \ Command(c).stops ELSE on

Remove(c) ==
  /\ initialized' = initialized \ {c}
  /\ canceled' = canceled \ {c}
  /\ Interrupt(c)

(* Command.run() of a canceled command, or of any command while the robot  *)
(* is disabled, which it reads now and not when the loop began.            *)
RunRemoved(c) ==
  /\ pc = "run" /\ cursor \in DOMAIN commands /\ c = commands[cursor]
  /\ enabled' \in BOOLEAN
  /\ c \in canceled \/ ~enabled'
  /\ Remove(c)
  /\ commands' = RemoveAt(commands, cursor)
  /\ currentCommand' = IF Command(c).requires THEN None ELSE currentCommand
  /\ UNCHANGED <<pc, mode, buttons, cursor, additions, configured, driving, tankLatched,
                 flipped>>

\* fault: setRunWhenDisabled(true)
RunsWhenDisabled(c) ==
  /\ pc = "run" /\ cursor \in DOMAIN commands /\ c = commands[cursor]
  /\ c \notin canceled
  /\ enabled' \in BOOLEAN

Runs(c) ==
  /\ pc = "run" /\ cursor \in DOMAIN commands /\ c = commands[cursor]
  /\ c \notin canceled
  /\ enabled' = TRUE

FlipEveryRun(c) ==                \* fault: the toggle is in execute()
  flipped' = IF Command(c).flips THEN ~flipped ELSE flipped

(* initialize() runs on the first run after a start only.                  *)
FlipOnStart(c) ==
  flipped' = IF Command(c).flips /\ c \notin initialized THEN ~flipped ELSE flipped

(* Command.run() of any other command: initialize() if new, then execute(). *)
RunExecuted(c) ==
  /\ Runs(c)
  /\ ~Command(c).usesNuc
  /\ initialized' = initialized \cup {c}
  /\ FlipOnStart(c)
  /\ on' = on \cup Command(c).starts
  /\ \/ Command(c).drive = "arcade" /\ Arcade
     \/ Command(c).drive = "tank" /\ Tank
     \/ Command(c).drive = "none" /\ UNCHANGED <<driving, tankLatched>>
  /\ cursor' = cursor + 1
  /\ UNCHANGED <<pc, mode, buttons, commands, canceled, currentCommand, additions,
                 configured>>

(* execute() dereferences the null tcpSubsystem; nothing catches the       *)
(* exception, the process exits and every object is gone with it.          *)
RunCrashes(c) ==
  /\ Runs(c)
  /\ Command(c).usesNuc
  /\ pc' = "down" /\ mode' = "none"
  /\ toPoll' = {} /\ pressedLast' = {}
  /\ commands' = <<>> /\ cursor' = 1 /\ additions' = <<>>
  /\ initialized' = {} /\ canceled' = {} /\ currentCommand' = None
  /\ configured' = FALSE
  /\ on' = {} /\ driving' = FALSE /\ tankLatched' = FALSE /\ flipped' = FALSE

\* fault: the positions are counted from zero
RunDoneAtZero ==
  /\ pc = "run"
  /\ cursor \notin DOMAIN commands
  /\ pc' = "add" /\ cursor' = 0
  /\ UNCHANGED <<enabled, mode, buttons, scheduled, additions, configured, actuators>>

RunDone ==
  /\ pc = "run"
  /\ cursor \notin DOMAIN commands
  /\ pc' = "add" /\ cursor' = 1
  /\ UNCHANGED <<enabled, mode, buttons, scheduled, additions, configured, actuators>>

----------------------------------------------------------------------------
(* ... then the commands started since the last run, and last the default  *)
(* commands, of which there are none.                                      *)

Added(c) ==
  /\ pc = "add"
  /\ additions # <<>>
  /\ c = Head(additions)
  /\ additions' = Tail(additions)
  /\ UNCHANGED <<enabled, pc, mode, buttons, cursor, configured, driving,
                 tankLatched, flipped>>

AddIgnored(c) ==
  /\ Added(c)
  /\ c \in Range(commands)
  /\ UNCHANGED <<scheduled, on>>

AddStarts(c) ==
  /\ Added(c)
  /\ c \notin Range(commands)
  /\ ~Command(c).requires \/ currentCommand = None
  /\ commands' = Append(commands, c)
  /\ currentCommand' = IF Command(c).requires THEN c ELSE currentCommand
  /\ UNCHANGED <<initialized, canceled, on>>

(* The drive is taken over: its current command is canceled and removed.   *)
AddReplaces(c) ==
  /\ Added(c)
  /\ c \notin Range(commands)
  /\ Command(c).requires /\ currentCommand # None
  /\ Remove(currentCommand)
  /\ commands' = Append(RemoveAt(commands, Position(currentCommand)), c)
  /\ currentCommand' = c

(* A subsystem without a command is asked for its default command, the     *)
(* first time through initDefaultCommand(), where DriveSubsystem creates   *)
(* its gyro and encoders.                                                  *)
AddDone ==
  /\ pc = "add"
  /\ additions = <<>>
  /\ pc' = "wait"
  /\ configured' = (configured \/ currentCommand = None)
  /\ UNCHANGED <<enabled, mode, buttons, scheduled, cursor, additions,
                 actuators>>

----------------------------------------------------------------------------
ModeLoop == DisabledPeriodic \/ AutonomousPeriodic \/ TeleopPeriodic \/ TestPeriodic

Next ==
  \/ RobotInit
  \/ ModeLoop
  \/ \E b \in Wired : PollHeld(b) \/ PollPressed(b)
  \/ \E c \in Instances : RunRemoved(c) \/ RunExecuted(c) \/ RunCrashes(c)
  \/ RunDone
  \/ \E c \in Instances : AddIgnored(c) \/ AddStarts(c) \/ AddReplaces(c)
  \/ AddDone

Spec == Init /\ [][Next]_vars

(* The robot thread goes on: packets keep coming every 20 ms, the scheduler *)
(* never blocks, and the runtime restarts a program that exits.            *)
FairSpec == Spec /\ WF_vars(Next)

----------------------------------------------------------------------------
TypeOK ==
  /\ enabled \in BOOLEAN
  /\ pc \in {"down", "wait", "poll", "run", "add"}
  /\ mode \in Modes \cup {"none"}
  /\ toPoll \in SUBSET Wired /\ pressedLast \in SUBSET Wired
  /\ commands \in Seq(Instances) /\ cursor \in Nat \ {0} /\ additions \in Seq(Instances)
  /\ initialized \in SUBSET Instances /\ canceled \in SUBSET Instances
  /\ currentCommand \in Instances \cup {None}
  /\ configured \in BOOLEAN
  /\ on \in SUBSET Motors /\ driving \in BOOLEAN /\ tankLatched \in BOOLEAN
  /\ flipped \in BOOLEAN
----------------------------------------------------------------------------
(* At most one command that drives is scheduled, and it is the one         *)
(* driveSubsystem calls its current command: two commands never set the    *)
(* drive motors in the same run.                                           *)
DriveExclusive ==
  /\ currentCommand # None =>
       currentCommand \in Range(commands) /\ Command(currentCommand).drive # "none"
  /\ \A c \in Range(commands) : Command(c).drive # "none" => c = currentCommand

(* A motor is left on only while some command that will stop it is still   *)
(* scheduled, whatever releases, takeovers, mode changes and crashes came  *)
(* in between, and although the two commands of a motor do not exclude each *)
(* other.                                                                  *)
MotorOwned == \A m \in on : Active(m) # {}

(* Within teleop the drive loses its command in one way only: Command.run() *)
(* itself reads a disable bit, half-way through a run.  Then nothing drives *)
(* until a drive button is pressed, as teleopInit does not run again.  A   *)
(* release, a takeover, a flip or a button of another motor never leaves   *)
(* driveSubsystem without a command.                                       *)
DriveLostToDisable ==
  [][mode = "teleop" /\ mode' = "teleop" /\ currentCommand # None /\ currentCommand' = None
       => pc = "run" /\ ~enabled']_vars

(* Test mode is entered with every command removed and every motor at zero. *)
TestModeStopped ==
  mode = "test" => commands = <<>> /\ additions = <<>> /\ on = {} /\ ~driving

(* A command that runs for a held button is stopped only by a poll that saw *)
(* the button up, a disabled robot, test mode or a crash: never by another *)
(* button, not even one bound to the same motor.                           *)
HeldKeepsRunning ==
  [][\A b \in Wired :
       WhileHeld(b) /\ b \in initialized /\ b \in pressedLast =>
         b \in initialized' \/ ~enabled' \/ mode' = "test" \/ pc' = "down"]_vars

(* When several drive selections meet in one run, the lowest button of OI  *)
(* is the one left, and any button beats the default teleopInit starts: a  *)
(* selection that has not run yet gives way only to those.                 *)
EarlierButtonWins ==
  [][currentCommand # None /\ currentCommand \notin initialized
     /\ currentCommand' \notin {None, currentCommand} =>
       currentCommand \in TeleopInstances \/ currentCommand' < currentCommand]_vars

----------------------------------------------------------------------------
(* Liveness: what the driver station asks for and keeps asking for.        *)

Users(m) == {b \in Wired : m \in Command(b).starts}

(* A motor whose buttons stay released comes to rest and stays at rest.    *)
ReleasedStops ==
  \A m \in Motors : <>[](pressedLast \cap Users(m) = {}) => <>[](m \notin on)

(* A motor one of whose buttons is held in teleop runs again and again,    *)
(* whatever is done to the other button bound to it.                       *)
HeldRuns ==
  \A b \in Wired : \A m \in Command(b).starts :
    <>[](b \in pressedLast /\ enabled /\ mode = "teleop") => []<>(m \in on)

(* Holding the flip button reverses the drive at most once: the direction  *)
(* settles while the robot stays enabled in teleop.                        *)
FlipSettles ==
  \A b \in {w \in Wired : Command(w).flips} :
    <>[](b \in pressedLast /\ enabled /\ mode = "teleop") => <>[]flipped \/ <>[](~flipped)

(* If no run of teleop reads a disable bit half-way, a robot kept in teleop *)
(* ends up with a drive command in charge and keeps it, whichever drive    *)
(* buttons are pressed and whatever had crashed before.                    *)
TeleopDrives ==
  [](mode = "teleop" => enabled) /\ <>[](mode = "teleop") => <>[](currentCommand # None)

(* A robot kept disabled ends up running no command, with its drive        *)
(* configured, although held buttons start theirs again on every run.      *)
DisabledDrains == <>[](~enabled) => <>[](initialized = {} /\ configured)

NucButtons == {6, 7}    \* ReceiveTCPPacket and SendUDPPacket

(* Once the NUC buttons stay released the program stays up.                *)
ReleasedStaysUp ==
  <>[](pressedLast \cap NucButtons = {}) => <>[](pc # "down")
=============================================================================
