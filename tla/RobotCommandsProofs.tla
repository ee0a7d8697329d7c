-------------------------- MODULE RobotCommandsProofs --------------------------
(***************************************************************************)
(* Theorems about RobotCommands, for every set Wired of buttons.           *)
(***************************************************************************)
EXTENDS RobotCommands, TLAPS

(* What the proofs need of the eleven commands and of the table OI.        *)

CommandClasses == {OneStickTank, TwoStickTank, OneStickArcade, TwoStickArcade, Climb,
                   PreFire, PreIntake, Intake, Flip, ReceiveTCPPacket, SendUDPPacket}

(* Every instance is of one of the commands.                               *)
LEMMA CommandInClasses == \A c \in Instances : Command(c) \in CommandClasses
<1> SUFFICES ASSUME NEW c \in Instances
             PROVE  Command(c) \in CommandClasses
  OBVIOUS
<1>1. CASE c \in Buttons
  <2>1. Command(c) = OI[c].command
    BY <1>1 DEF Command
  <2>2. OI[c].command \in CommandClasses
    BY <1>1, SMT DEF OI, Buttons, CommandClasses
  <2>3. QED BY <2>1, <2>2
<1>2. CASE c \notin Buttons
  BY <1>2 DEF Command, CommandClasses
<1>3. QED BY <1>1, <1>2

(* A command stops every motor it starts, and no other.                    *)
LEMMA CommandFacts ==
  ASSUME NEW c \in Instances
  PROVE  /\ Command(c).starts \subseteq Motors
         /\ Command(c).starts = Command(c).stops
         /\ Command(c).requires \in BOOLEAN
         /\ Command(c).flips \in BOOLEAN
         /\ Command(c).requires <=> Command(c).drive # "none"
<1>1. \A k \in CommandClasses : /\ k.starts \subseteq Motors
                                /\ k.starts = k.stops
                                /\ k.requires \in BOOLEAN
                                /\ k.flips \in BOOLEAN
                                /\ k.requires <=> k.drive # "none"
  BY DEF CommandClasses, OneStickTank, TwoStickTank, OneStickArcade, TwoStickArcade,
         Climb, PreFire, PreIntake, Intake, Flip, ReceiveTCPPacket, SendUDPPacket, Idle,
         Motors, FuelMotors, ClimbMotors
<1>2. QED BY <1>1, CommandInClasses

(* No command bound with whileHeld requires the drive.                     *)
LEMMA HeldNeedsNoDrive ==
  ASSUME NEW b \in Buttons, WhileHeld(b)
  PROVE  ~Command(b).requires
<1>1. OI[b].command \in {Climb, PreFire, PreIntake, Intake, Flip, ReceiveTCPPacket,
                         SendUDPPacket}
  BY SMT DEF WhileHeld, OI, Buttons
<1>2. \A k \in {Climb, PreFire, PreIntake, Intake, Flip, ReceiveTCPPacket, SendUDPPacket} :
        ~k.requires
  BY DEF Climb, PreFire, PreIntake, Intake, Flip, ReceiveTCPPacket, SendUDPPacket, Idle
<1>3. QED BY <1>1, <1>2 DEF Command

(* The list of a robot that runs nothing.                                  *)
LEMMA EmptyList == <<>> \in Seq(Instances)
  OBVIOUS

(* Unlinking any position leaves a sequence, even of a sequence without it. *)
LEMMA RemoveAtType ==
  ASSUME NEW S, NEW s \in Seq(S), NEW k
  PROVE  RemoveAt(s, k) \in Seq(S)
<1>1. CASE Len(s) = 0
  <2>1. 1 .. Len(s) - 1 = 1 .. 0
    BY <1>1
  <2>2. RemoveAt(s, k) = [i \in 1 .. 0 |-> IF i < k THEN s[i] ELSE s[i + 1]]
    BY <2>1 DEF RemoveAt
  <2>3. QED BY <2>2
<1>2. CASE Len(s) # 0
  BY <1>2 DEF RemoveAt
<1>3. QED BY <1>1, <1>2

(* Unlinking one position of a sequence keeps the others in their order.   *)
LEMMA RemoveAtFacts ==
  ASSUME NEW S, NEW s \in Seq(S), NEW k \in DOMAIN s
  PROVE  /\ RemoveAt(s, k) \in Seq(S)
         /\ Len(RemoveAt(s, k)) = Len(s) - 1
         /\ \A i \in 1 .. Len(s) - 1 : RemoveAt(s, k)[i] = IF i < k THEN s[i] ELSE s[i + 1]
  BY DEF RemoveAt
-----------------------------------------------------------------------------
(* TypeOK is inductive by itself.                                          *)

(* The program starts with the types of TypeOK.                            *)
LEMMA TypeInit == Init => TypeOK
<1> SUFFICES ASSUME Init PROVE TypeOK
  OBVIOUS
<1>1. /\ enabled \in BOOLEAN /\ configured \in BOOLEAN /\ driving \in BOOLEAN
      /\ tankLatched \in BOOLEAN /\ flipped \in BOOLEAN
  BY DEF Init
<1>2. commands \in Seq(Instances) /\ additions \in Seq(Instances)
  BY EmptyList DEF Init
<1>3. QED BY <1>1, <1>2 DEF Init, TypeOK

(* Every step keeps the types of TypeOK.                                   *)
LEMMA TypeStep == TypeOK /\ [Next]_vars => TypeOK'
<1> SUFFICES ASSUME TypeOK, [Next]_vars
             PROVE  TypeOK'
  OBVIOUS
<1> USE DEF TypeOK, scheduled, buttons, actuators
<1>1. CASE RobotInit
  BY <1>1 DEF RobotInit
<1>2. CASE DisabledPeriodic
  BY <1>2 DEF DisabledPeriodic, Wake, RunScheduler, Modes
<1>3. CASE AutonomousPeriodic
  BY <1>3 DEF AutonomousPeriodic, Wake, RunScheduler, Modes
<1>4. CASE TeleopPeriodic
  <2>1. additions' \in Seq(Instances)
    BY <1>4 DEF TeleopPeriodic, Instances
  <2>2. QED BY <1>4, <2>1 DEF TeleopPeriodic, Wake, RunScheduler, Modes
<1>5. CASE TestPeriodic
  BY <1>5, EmptyList DEF TestPeriodic, Wake, RemoveAll, Modes, None
<1>6. ASSUME NEW b \in Wired, PollHeld(b) \/ PollPressed(b)
      PROVE  TypeOK'
  <2>1. b \in Instances
    BY WiredAssumption DEF Instances
  <2>2. additions' \in Seq(Instances) /\ canceled' \in SUBSET Instances
    BY <1>6, <2>1 DEF PollHeld, PollPressed, Start, Cancel
  <2>3. toPoll' \in SUBSET Wired /\ pressedLast' \in SUBSET Wired
    BY <1>6 DEF PollHeld, PollPressed, PollNext
  <2>4. PollNext(b)
    BY <1>6 DEF PollHeld, PollPressed
  <2>5. QED BY <2>2, <2>3, <2>4 DEF PollNext
<1>7. ASSUME NEW c \in Instances, RunRemoved(c)
      PROVE  TypeOK'
  <2>1. commands' \in Seq(Instances)
    BY <1>7, RemoveAtFacts DEF RunRemoved
  <2>2. on' \in SUBSET Motors
    BY <1>7 DEF RunRemoved, Remove, Interrupt
  <2>3. QED BY <1>7, <2>1, <2>2 DEF RunRemoved, Remove
<1>8. ASSUME NEW c \in Instances, RunExecuted(c)
      PROVE  TypeOK'
  <2>1. on' \in SUBSET Motors
    BY <1>8, CommandFacts DEF RunExecuted
  <2>2. driving' \in BOOLEAN /\ tankLatched' \in BOOLEAN
    BY <1>8 DEF RunExecuted, Arcade, Tank
  <2>3. flipped' \in BOOLEAN
    BY <1>8 DEF RunExecuted, FlipOnStart
  <2>4. QED BY <1>8, <2>1, <2>2, <2>3 DEF RunExecuted, Runs
<1>9. ASSUME NEW c \in Instances, RunCrashes(c)
      PROVE  TypeOK'
  <2>1. enabled' \in BOOLEAN
    BY <1>9 DEF RunCrashes, Runs
  <2>2. /\ configured' \in BOOLEAN /\ driving' \in BOOLEAN
        /\ tankLatched' \in BOOLEAN /\ flipped' \in BOOLEAN
    BY <1>9 DEF RunCrashes
  <2>3. commands' \in Seq(Instances) /\ additions' \in Seq(Instances)
    BY <1>9, EmptyList DEF RunCrashes
  <2>4. QED BY <1>9, <2>1, <2>2, <2>3 DEF RunCrashes
<1>10. CASE RunDone
  BY <1>10 DEF RunDone
<1>11. ASSUME NEW c \in Instances, AddIgnored(c)
       PROVE  TypeOK'
  BY <1>11 DEF AddIgnored, Added
<1>12. ASSUME NEW c \in Instances, AddStarts(c)
       PROVE  TypeOK'
  <2>1. commands' \in Seq(Instances)
    BY <1>12 DEF AddStarts
  <2>2. QED BY <1>12, <2>1 DEF AddStarts, Added
<1>13. ASSUME NEW c \in Instances, AddReplaces(c)
       PROVE  TypeOK'
  <2>1. RemoveAt(commands, Position(currentCommand)) \in Seq(Instances)
    BY RemoveAtType
  <2>2. commands' \in Seq(Instances)
    BY <1>13, <2>1 DEF AddReplaces
  <2>3. on' \in SUBSET Motors
    BY <1>13 DEF AddReplaces, Remove, Interrupt
  <2>4. QED BY <1>13, <2>2, <2>3 DEF AddReplaces, Added, Remove
<1>14. CASE AddDone
  BY <1>14 DEF AddDone
<1>15. CASE UNCHANGED vars
  BY <1>15 DEF vars
<1>16. QED
  BY <1>1, <1>2, <1>3, <1>4, <1>5, <1>6, <1>7, <1>8, <1>9, <1>10, <1>11, <1>12, <1>13,
     <1>14, <1>15 DEF Next, ModeLoop
(* Every variable keeps its type: for every Wired, whatever is pressed and *)
(* whenever the robot is disabled, reset or restarted.                     *)
THEOREM TypeCorrect == Spec => []TypeOK
<1>1. Init => TypeOK
  BY TypeInit
<1>2. TypeOK /\ [Next]_vars => TypeOK'
  BY TypeStep
<1>3. QED BY <1>1, <1>2, PTL DEF Spec

-----------------------------------------------------------------------------
(* MotorOwned is inductive once the types are known: interrupted() switches *)
(* off whatever execute() may have switched on.                            *)

(* Removing a command takes the motors it owned away with it.              *)
LEMMA RemoveKeepsOwned ==
  ASSUME MotorOwned, NEW c, Remove(c)
  PROVE  MotorOwned'
<1> SUFFICES ASSUME NEW m \in on'
             PROVE  \E d \in initialized' : m \in Command(d).stops
  BY DEF MotorOwned, Active
<1>1. m \in on
  BY DEF Remove, Interrupt
<1>2. PICK d \in initialized : m \in Command(d).stops
  BY <1>1 DEF MotorOwned, Active
<1>3. d # c
  BY <1>2 DEF Remove, Interrupt
<1>4. QED BY <1>2, <1>3 DEF Remove

(* Every step leaves each motor that is on with an owner.                  *)
LEMMA OwnedStep == TypeOK /\ MotorOwned /\ [Next]_vars => MotorOwned'
<1> SUFFICES ASSUME TypeOK, MotorOwned, [Next]_vars
             PROVE  MotorOwned'
  OBVIOUS
<1> DEFINE Quiet == UNCHANGED <<on, initialized>>
<1>1. ASSUME Quiet PROVE MotorOwned'
  BY <1>1 DEF MotorOwned, Active
<1>2. ASSUME on' = {} PROVE MotorOwned'
  BY <1>2 DEF MotorOwned
<1>3. CASE RobotInit \/ DisabledPeriodic \/ AutonomousPeriodic \/ TeleopPeriodic
  BY <1>3, <1>1 DEF RobotInit, DisabledPeriodic, AutonomousPeriodic, TeleopPeriodic,
                    RunScheduler, scheduled, actuators
<1>4. CASE TestPeriodic
  BY <1>4, <1>1, <1>2 DEF TestPeriodic, scheduled
<1>5. ASSUME NEW b \in Wired, PollHeld(b) \/ PollPressed(b)
      PROVE  MotorOwned'
  BY <1>5, <1>1 DEF PollHeld, PollPressed, PollNext, actuators
<1>6. ASSUME NEW c \in Instances, RunRemoved(c)
      PROVE  MotorOwned'
  BY <1>6, RemoveKeepsOwned DEF RunRemoved
<1>7. ASSUME NEW c \in Instances, RunExecuted(c)
      PROVE  MotorOwned'
  <2>1. Command(c).starts = Command(c).stops
    BY CommandFacts
  <2>2. on' = on \cup Command(c).starts /\ initialized' = initialized \cup {c}
    BY <1>7 DEF RunExecuted
  <2>3. QED BY <2>1, <2>2 DEF MotorOwned, Active
<1>8. ASSUME NEW c \in Instances, RunCrashes(c)
      PROVE  MotorOwned'
  BY <1>8, <1>2 DEF RunCrashes
<1>9. CASE RunDone \/ AddDone
  BY <1>9, <1>1 DEF RunDone, AddDone, scheduled, actuators
<1>10. ASSUME NEW c \in Instances, AddIgnored(c) \/ AddStarts(c)
       PROVE  MotorOwned'
  BY <1>10, <1>1 DEF AddIgnored, AddStarts, scheduled
<1>11. ASSUME NEW c \in Instances, AddReplaces(c)
       PROVE  MotorOwned'
  BY <1>11, RemoveKeepsOwned DEF AddReplaces
<1>12. CASE UNCHANGED vars
  BY <1>12, <1>1 DEF vars, scheduled, actuators
<1>13. QED
  BY <1>3, <1>4, <1>5, <1>6, <1>7, <1>8, <1>9, <1>10, <1>11, <1>12 DEF Next, ModeLoop

(* No motor is ever left on without a scheduled command that will stop it. *)
THEOREM MotorsAreOwned == Spec => []MotorOwned
<1>1. Init => MotorOwned
  BY DEF Init, MotorOwned
<1>2. TypeOK /\ MotorOwned /\ [Next]_vars => MotorOwned'
  BY OwnedStep
<1>3. QED BY <1>1, <1>2, TypeCorrect, PTL DEF Spec
-----------------------------------------------------------------------------
(* The drive.  In terms of requires(), DriveExclusive reads OneDriver.  It *)
(* is not inductive: unlinking the current command could leave a second    *)
(* occurrence of it behind, were the list not Distinct.                    *)

OneDriver ==
  /\ currentCommand # None =>
       currentCommand \in Range(commands) /\ Command(currentCommand).requires
  /\ \A c \in Range(commands) : Command(c).requires => c = currentCommand

Distinct == \A i, j \in DOMAIN commands : commands[i] = commands[j] => i = j

(* The canceled flags.  A command is canceled by the poll that saw its     *)
(* button up, and the same run removes it before the next poll.            *)
CanceledReleased ==
  \A c \in canceled : c \in Buttons /\ WhileHeld(c) /\ c \notin pressedLast
CanceledInRun ==
  /\ pc \in {"down", "wait", "add"} => canceled = {}
  /\ pc = "poll" => canceled \cap toPoll = {} /\ canceled \subseteq Range(commands)
  /\ pc = "run" => \A c \in canceled :
                     \E i \in DOMAIN commands : i >= cursor /\ commands[i] = c

(* Between two runs nothing waits to be added.                             *)
NothingStarted == pc \in {"down", "wait"} => additions = <<>>
TestWaits == mode = "test" => pc = "wait"

(* Unlinking takes one command away and repeats none.                      *)
LEMMA RemoveAtRange ==
  ASSUME NEW S, NEW s \in Seq(S), NEW k \in DOMAIN s,
         \A i, j \in DOMAIN s : s[i] = s[j] => i = j
  PROVE  /\ Range(RemoveAt(s, k)) = Range(s) \ {s[k]}
         /\ \A i, j \in DOMAIN RemoveAt(s, k) :
              RemoveAt(s, k)[i] = RemoveAt(s, k)[j] => i = j
<1> DEFINE r == RemoveAt(s, k)
<1>1. /\ DOMAIN s = 1 .. Len(s) /\ DOMAIN r = 1 .. Len(s) - 1 /\ Len(s) \in Nat
      /\ \A i \in DOMAIN r : r[i] = IF i < k THEN s[i] ELSE s[i + 1]
  BY RemoveAtFacts DEF RemoveAt
<1> HIDE DEF r
<1>2. ASSUME NEW i \in DOMAIN r
      PROVE  r[i] \in Range(s) \ {s[k]}
  BY <1>1, <1>2 DEF Range
<1>3. ASSUME NEW i \in DOMAIN s, s[i] # s[k]
      PROVE  s[i] \in Range(r)
  <2>1. CASE i < k
    <3>1. i \in DOMAIN r /\ r[i] = s[i]
      BY <1>1, <2>1
    <3>2. QED BY <3>1 DEF Range
  <2>2. CASE i > k
    <3>1. i - 1 \in DOMAIN r /\ r[i - 1] = s[i]
      BY <1>1, <2>2
    <3>2. QED BY <3>1 DEF Range
  <2>3. QED BY <2>1, <2>2, <1>1, <1>3
<1>4. Range(r) = Range(s) \ {s[k]}
  BY <1>2, <1>3 DEF Range
<1>5. \A i, j \in DOMAIN r : r[i] = r[j] => i = j
  BY <1>1
<1>6. QED BY <1>4, <1>5 DEF r

(* Appending adds one element at the end and moves no other.               *)
LEMMA AppendRange ==
  ASSUME NEW S, NEW s \in Seq(S), NEW c \in S
  PROVE  /\ Range(Append(s, c)) = Range(s) \cup {c}
         /\ \A i \in DOMAIN s : Append(s, c)[i] = s[i]
         /\ DOMAIN Append(s, c) = 1 .. Len(s) + 1
         /\ Append(s, c)[Len(s) + 1] = c
<1>1. /\ \A i \in DOMAIN s : Append(s, c)[i] = s[i]
      /\ DOMAIN Append(s, c) = 1 .. Len(s) + 1
      /\ Append(s, c)[Len(s) + 1] = c
      /\ DOMAIN s = 1 .. Len(s) /\ Len(s) \in Nat
  OBVIOUS
<1>2. \A i \in DOMAIN Append(s, c) : i \in DOMAIN s \/ i = Len(s) + 1
  BY <1>1
<1>3. \A i \in DOMAIN s : i \in DOMAIN Append(s, c)
  BY <1>1
<1>4. Len(s) + 1 \in DOMAIN Append(s, c)
  BY <1>1
<1>5. Range(Append(s, c)) = Range(s) \cup {c}
  BY <1>1, <1>2, <1>3, <1>4, Zenon DEF Range
<1>6. QED BY <1>1, <1>5

(* A new command does not repeat one of a list it is not in.               *)
LEMMA AppendDistinct ==
  ASSUME NEW S, NEW s \in Seq(S), NEW c \in S, c \notin Range(s),
         \A i, j \in DOMAIN s : s[i] = s[j] => i = j
  PROVE  \A i, j \in DOMAIN Append(s, c) : Append(s, c)[i] = Append(s, c)[j] => i = j
<1>1. \A i \in DOMAIN s : s[i] # c
  BY DEF Range
<1>2. QED BY <1>1, AppendRange
DriveInv == Distinct /\ OneDriver

(* A step that leaves the list and the current command alone keeps DriveInv.*)
LEMMA DriveUndisturbed ==
  ASSUME DriveInv, UNCHANGED <<commands, currentCommand>>
  PROVE  DriveInv'
  BY DEF DriveInv, Distinct, OneDriver, Range

(* Emptying the list while the drive is given up establishes DriveInv.     *)
LEMMA DriveCleared ==
  ASSUME commands' = <<>>, currentCommand' = None
  PROVE  DriveInv'
  BY DEF DriveInv, Distinct, OneDriver, Range

(* Unlinking a command keeps DriveInv if the drive is given up with it.    *)
LEMMA DriveAfterRemoval ==
  ASSUME TypeOK, DriveInv, NEW k \in DOMAIN commands,
         commands' = RemoveAt(commands, k),
         currentCommand' = IF Command(commands[k]).requires THEN None ELSE currentCommand
  PROVE  DriveInv'
<1>1. commands \in Seq(Instances) /\ commands[k] \in Instances
  BY DEF TypeOK
<1>2. /\ Range(commands') = Range(commands) \ {commands[k]}
      /\ \A i, j \in DOMAIN commands' : commands'[i] = commands'[j] => i = j
  BY <1>1, RemoveAtRange DEF DriveInv, Distinct
<1>3. OneDriver'
  BY <1>1, <1>2 DEF DriveInv, OneDriver, Range
<1>4. QED BY <1>2, <1>3 DEF DriveInv, Distinct

(* With no current command, no scheduled command requires the drive.       *)
LEMMA CurrentNone ==
  ASSUME TypeOK, OneDriver, currentCommand = None
  PROVE  \A d \in Range(commands) : ~Command(d).requires
<1>1. \A d \in Range(commands) : d \in Instances
  BY DEF TypeOK, Range
<1>2. None \notin Instances
  BY DEF Instances, Buttons, TeleopInstances, None
<1>3. QED BY <1>1, <1>2 DEF OneDriver

(* Every step keeps DriveInv.                                              *)
LEMMA DriveStep == TypeOK /\ DriveInv /\ [Next]_vars => DriveInv'
<1> SUFFICES ASSUME TypeOK, DriveInv, [Next]_vars
             PROVE  DriveInv'
  OBVIOUS
<1>1. CASE RobotInit \/ DisabledPeriodic \/ AutonomousPeriodic \/ TeleopPeriodic
  BY <1>1, DriveUndisturbed
     DEF RobotInit, DisabledPeriodic, AutonomousPeriodic, TeleopPeriodic, RunScheduler,
         scheduled
<1>2. CASE TestPeriodic
  BY <1>2, DriveUndisturbed, DriveCleared DEF TestPeriodic, RemoveAll, scheduled
<1>3. ASSUME NEW b \in Wired, PollHeld(b) \/ PollPressed(b)
      PROVE  DriveInv'
  BY <1>3, DriveUndisturbed DEF PollHeld, PollPressed, PollNext
<1>4. ASSUME NEW c \in Instances, RunRemoved(c)
      PROVE  DriveInv'
  BY <1>4, DriveAfterRemoval DEF RunRemoved
<1>5. ASSUME NEW c \in Instances, RunExecuted(c)
      PROVE  DriveInv'
  BY <1>5, DriveUndisturbed DEF RunExecuted
<1>6. ASSUME NEW c \in Instances, RunCrashes(c)
      PROVE  DriveInv'
  BY <1>6, DriveCleared DEF RunCrashes
<1>7. CASE RunDone \/ AddDone
  BY <1>7, DriveUndisturbed DEF RunDone, AddDone, scheduled
<1>8. ASSUME NEW c \in Instances, AddIgnored(c)
      PROVE  DriveInv'
  BY <1>8, DriveUndisturbed DEF AddIgnored, scheduled
<1>9. ASSUME NEW c \in Instances, AddStarts(c)
      PROVE  DriveInv'
  <2>1. commands \in Seq(Instances) /\ c \notin Range(commands)
    BY <1>9 DEF TypeOK, AddStarts
  <2>2. Distinct'
    BY <1>9, <2>1, AppendDistinct DEF AddStarts, DriveInv, Distinct
  <2>3. Range(commands') = Range(commands) \cup {c}
    BY <1>9, <2>1, AppendRange DEF AddStarts
  <2>4. c # None
    BY DEF Instances, Buttons, TeleopInstances, None
  <2>5. OneDriver'
    <3>1. ASSUME ~Command(c).requires
          PROVE  OneDriver'
      <4>1. currentCommand' = currentCommand
        BY <1>9, <3>1 DEF AddStarts
      <4>2. QED BY <2>3, <3>1, <4>1 DEF DriveInv, OneDriver
    <3>2. ASSUME Command(c).requires
          PROVE  OneDriver'
      <4>1. currentCommand = None /\ currentCommand' = c
        BY <1>9, <3>2 DEF AddStarts
      <4>2. \A d \in Range(commands) : ~Command(d).requires
        BY <2>4, <4>1, CurrentNone DEF DriveInv
      <4>3. QED BY <2>3, <3>2, <4>1, <4>2 DEF OneDriver
    <3>3. QED BY <3>1, <3>2
  <2>6. QED BY <2>2, <2>5 DEF DriveInv
<1>10. ASSUME NEW c \in Instances, AddReplaces(c)
       PROVE  DriveInv'
  <2> DEFINE rest == RemoveAt(commands, Position(currentCommand))
  <2>1. commands \in Seq(Instances) /\ c \notin Range(commands)
    BY <1>10 DEF TypeOK, AddReplaces, Added
  <2>2. /\ Position(currentCommand) \in DOMAIN commands
        /\ commands[Position(currentCommand)] = currentCommand
    <3>0. currentCommand \in Range(commands)
      BY <1>10 DEF AddReplaces, DriveInv, OneDriver
    <3>1. \E i \in DOMAIN commands : commands[i] = currentCommand
      BY <3>0 DEF Range
    <3>2. QED BY <3>1, Zenon DEF Position
  <2>3. /\ rest \in Seq(Instances)
        /\ Range(rest) = Range(commands) \ {currentCommand}
        /\ \A i, j \in DOMAIN rest : rest[i] = rest[j] => i = j
    <3>1. \A i, j \in DOMAIN commands : commands[i] = commands[j] => i = j
      BY DEF DriveInv, Distinct
    <3>2. rest \in Seq(Instances)
      BY <2>1, RemoveAtType
    <3>3. PICK k \in DOMAIN commands :
            k = Position(currentCommand) /\ commands[k] = currentCommand
      BY <2>2
    <3>4. /\ Range(RemoveAt(commands, k)) = Range(commands) \ {commands[k]}
          /\ \A i, j \in DOMAIN RemoveAt(commands, k) :
               RemoveAt(commands, k)[i] = RemoveAt(commands, k)[j] => i = j
      BY <2>1, <3>1, RemoveAtRange
    <3>5. QED BY <3>2, <3>3, <3>4
  <2> HIDE DEF rest
  <2>4. commands' = Append(rest, c) /\ currentCommand' = c /\ Command(c).requires
    BY <1>10 DEF AddReplaces, rest
  <2>5. c \notin Range(rest)
    BY <2>1, <2>3
  <2>6. Distinct'
    BY <2>3, <2>4, <2>5, AppendDistinct DEF Distinct
  <2>7. Range(commands') = Range(rest) \cup {c}
    BY <2>3, <2>4, AppendRange
  <2>8. OneDriver'
    BY <2>3, <2>4, <2>7 DEF DriveInv, OneDriver, Range
  <2>9. QED BY <2>6, <2>8 DEF DriveInv
<1>11. CASE UNCHANGED vars
  BY <1>11, DriveUndisturbed DEF vars, scheduled
<1>12. QED
  BY <1>1, <1>2, <1>3, <1>4, <1>5, <1>6, <1>7, <1>8, <1>9, <1>10, <1>11
     DEF Next, ModeLoop

(* The command that requires the drive is the current one, in every state. *)
LEMMA OneDriverAlways == Spec => []OneDriver
<1>1. Init => DriveInv
  BY DEF Init, DriveInv, Distinct, OneDriver, Range
<1>2. TypeOK /\ DriveInv /\ [Next]_vars => DriveInv'
  BY DriveStep
<1>3. DriveInv => OneDriver
  BY DEF DriveInv
<1>4. QED BY <1>1, <1>2, <1>3, TypeCorrect, PTL DEF Spec

(* Two commands that drive are never scheduled together: every command that  *)
(* calls a drive method requires the drive.                                *)
THEOREM DriveIsExclusive == Spec => []DriveExclusive
<1>1. TypeOK /\ OneDriver => DriveExclusive
  <2> SUFFICES ASSUME TypeOK, OneDriver
               PROVE  DriveExclusive
    OBVIOUS
  <2>1. \A c \in Range(commands) : Command(c).requires <=> Command(c).drive # "none"
    BY CommandFacts DEF TypeOK, Range
  <2>2. QED BY <2>1 DEF OneDriver, DriveExclusive
<1>2. QED BY <1>1, OneDriverAlways, TypeCorrect, PTL
-----------------------------------------------------------------------------
(* Test mode.                                                              *)

TestInv == NothingStarted /\ TestWaits /\ TestModeStopped

(* Every step keeps TestInv.                                               *)
LEMMA TestStep == TestInv /\ [Next]_vars => TestInv'
<1> SUFFICES ASSUME TestInv, [Next]_vars
             PROVE  TestInv'
  OBVIOUS
<1> USE DEF TestInv, NothingStarted, TestWaits, TestModeStopped
<1>1. CASE RobotInit
  BY <1>1 DEF RobotInit
<1>2. CASE DisabledPeriodic \/ AutonomousPeriodic \/ TeleopPeriodic
  BY <1>2 DEF DisabledPeriodic, AutonomousPeriodic, TeleopPeriodic, Wake, RunScheduler
<1>3. CASE TestPeriodic
  BY <1>3 DEF TestPeriodic, Wake, RemoveAll, scheduled
<1>4. ASSUME NEW b \in Wired, PollHeld(b) \/ PollPressed(b)
      PROVE  TestInv'
  <2>1. pc = "poll" /\ mode' = mode /\ pc' \in {"poll", "run"}
    BY <1>4 DEF PollHeld, PollPressed, PollNext
  <2>2. QED BY <2>1
<1>5. ASSUME NEW c \in Instances, RunRemoved(c) \/ RunExecuted(c)
      PROVE  TestInv'
  <2>1. pc = "run" /\ mode' = mode /\ pc' = "run"
    BY <1>5 DEF RunRemoved, RunExecuted, Runs
  <2>2. QED BY <2>1
<1>6. ASSUME NEW c \in Instances, RunCrashes(c)
      PROVE  TestInv'
  BY <1>6 DEF RunCrashes
<1>7. CASE RunDone \/ AddDone
  BY <1>7 DEF RunDone, AddDone
<1>8. ASSUME NEW c \in Instances, AddIgnored(c) \/ AddStarts(c) \/ AddReplaces(c)
      PROVE  TestInv'
  <2>1. pc = "add" /\ mode' = mode /\ pc' = "add"
    BY <1>8 DEF AddIgnored, AddStarts, AddReplaces, Added
  <2>2. QED BY <2>1
<1>9. CASE UNCHANGED vars
  BY <1>9 DEF vars, scheduled, actuators
<1>10. QED
  BY <1>1, <1>2, <1>3, <1>4, <1>5, <1>6, <1>7, <1>8, <1>9 DEF Next, ModeLoop

(* In test mode nothing is scheduled, nothing waits and every motor is off.  *)
THEOREM TestModeStops == Spec => []TestModeStopped
<1>1. Init => TestInv
  BY DEF Init, TestInv, NothingStarted, TestWaits, TestModeStopped
<1>2. TestInv /\ [Next]_vars => TestInv'
  BY TestStep
<1>3. TestInv => TestModeStopped
  BY DEF TestInv
<1>4. QED BY <1>1, <1>2, <1>3, PTL DEF Spec

-----------------------------------------------------------------------------
(* Commands of held buttons.                                               *)

CanceledInv == CanceledReleased /\ CanceledInRun

(* A step in which nothing is or becomes canceled keeps CanceledInv.       *)
LEMMA CanceledUndisturbed ==
  ASSUME CanceledInv, canceled = {}, UNCHANGED canceled
  PROVE  CanceledInv'
  BY DEF CanceledInv, CanceledReleased, CanceledInRun

(* Every step keeps CanceledInv: a cancel is consumed in the run that polled it.*)
LEMMA CanceledStep == TypeOK /\ CanceledInv /\ [Next]_vars => CanceledInv'
<1> SUFFICES ASSUME TypeOK, CanceledInv, [Next]_vars
             PROVE  CanceledInv'
  OBVIOUS
<1>1. CASE RobotInit \/ DisabledPeriodic \/ AutonomousPeriodic \/ TeleopPeriodic
  <2>1. canceled = {} /\ UNCHANGED canceled
    BY <1>1 DEF RobotInit, DisabledPeriodic, AutonomousPeriodic, TeleopPeriodic, Wake,
                RunScheduler, scheduled, CanceledInv, CanceledInRun
  <2>2. QED BY <2>1, CanceledUndisturbed
<1>2. CASE TestPeriodic
  <2>1. canceled = {} /\ UNCHANGED canceled
    BY <1>2 DEF TestPeriodic, Wake, RemoveAll, scheduled, CanceledInv, CanceledInRun
  <2>2. QED BY <2>1, CanceledUndisturbed
<1>3. ASSUME NEW b \in Wired, PollHeld(b) \/ PollPressed(b)
      PROVE  CanceledInv'
  <2>1. /\ pc = "poll" /\ b \in toPoll /\ toPoll' = toPoll \ {b}
        /\ commands' = commands
        /\ \/ pc' = "run" /\ cursor' = 1
           \/ pc' = "poll"
    BY <1>3 DEF PollHeld, PollPressed, PollNext
  <2>2. canceled \cap toPoll = {} /\ canceled \subseteq Range(commands)
    BY <2>1 DEF CanceledInv, CanceledInRun
  <2>3. b \in Buttons
    BY WiredAssumption
  <2>4. \/ UNCHANGED canceled
        \/ /\ WhileHeld(b) /\ b \in Range(commands)
           /\ canceled' = canceled \cup {b} /\ pressedLast' = pressedLast \ {b}
    BY <1>3 DEF PollHeld, PollPressed, Start, Cancel
  <2>5. pressedLast' \subseteq pressedLast \cup {b}
    BY <1>3 DEF PollHeld, PollPressed
  <2>6. CanceledReleased'
    BY <2>1, <2>2, <2>3, <2>4, <2>5 DEF CanceledInv, CanceledReleased, WhileHeld
  <2>7. canceled' \subseteq Range(commands') /\ canceled' \cap toPoll' = {}
    BY <2>1, <2>2, <2>4
  <2>8. \A c \in canceled' : \E i \in DOMAIN commands' : i >= 1 /\ commands'[i] = c
    BY <2>1, <2>7 DEF Range, TypeOK
  <2>9. CanceledInRun'
    BY <2>1, <2>7, <2>8 DEF CanceledInRun
  <2>10. QED BY <2>6, <2>9 DEF CanceledInv
<1>4. ASSUME NEW c \in Instances, RunRemoved(c)
      PROVE  CanceledInv'
  <2>1. /\ pc = "run" /\ pc' = "run" /\ cursor \in DOMAIN commands /\ cursor' = cursor
        /\ c = commands[cursor] /\ canceled' = canceled \ {c}
        /\ commands' = RemoveAt(commands, cursor) /\ pressedLast' = pressedLast
    BY <1>4 DEF RunRemoved, Remove, buttons
  <2>2. CanceledReleased'
    BY <2>1 DEF CanceledInv, CanceledReleased, WhileHeld
  <2>3. ASSUME NEW d \in canceled'
        PROVE  \E i \in DOMAIN commands' : i >= cursor' /\ commands'[i] = d
    <3>1. PICK i \in DOMAIN commands : i >= cursor /\ commands[i] = d
      BY <2>1 DEF CanceledInv, CanceledInRun
    <3>2. i > cursor /\ cursor >= 1
      BY <2>1, <3>1 DEF TypeOK
    <3>3. /\ DOMAIN commands' = 1 .. Len(commands) - 1
          /\ \A j \in 1 .. Len(commands) - 1 :
               commands'[j] = IF j < cursor THEN commands[j] ELSE commands[j + 1]
      BY <2>1 DEF RemoveAt
    <3>4. i - 1 \in DOMAIN commands' /\ commands'[i - 1] = d
      BY <3>1, <3>2, <3>3 DEF TypeOK
    <3>5. QED BY <2>1, <3>2, <3>4 DEF TypeOK
  <2>4. CanceledInRun'
    BY <2>1, <2>3 DEF CanceledInRun
  <2>5. QED BY <2>2, <2>4 DEF CanceledInv
<1>5. ASSUME NEW c \in Instances, RunExecuted(c)
      PROVE  CanceledInv'
  <2>1. /\ pc = "run" /\ pc' = "run" /\ cursor' = cursor + 1 /\ c = commands[cursor]
        /\ c \notin canceled /\ canceled' = canceled /\ commands' = commands
        /\ pressedLast' = pressedLast
    BY <1>5 DEF RunExecuted, Runs, buttons
  <2>2. CanceledReleased'
    BY <2>1 DEF CanceledInv, CanceledReleased, WhileHeld
  <2>3. CanceledInRun'
    BY <2>1 DEF CanceledInv, CanceledInRun, TypeOK
  <2>4. QED BY <2>2, <2>3 DEF CanceledInv
<1>6. ASSUME NEW c \in Instances, RunCrashes(c)
      PROVE  CanceledInv'
  BY <1>6 DEF RunCrashes, CanceledInv, CanceledReleased, CanceledInRun
<1>7. CASE RunDone
  <2>1. canceled = {}
    BY <1>7 DEF RunDone, CanceledInv, CanceledInRun, TypeOK
  <2>2. QED BY <1>7, <2>1, CanceledUndisturbed DEF RunDone, scheduled
<1>8. ASSUME NEW c \in Instances, AddIgnored(c) \/ AddStarts(c) \/ AddReplaces(c)
      PROVE  CanceledInv'
  <2>1. canceled = {}
    BY <1>8 DEF AddIgnored, AddStarts, AddReplaces, Added, CanceledInv, CanceledInRun
  <2>2. canceled' = canceled
    BY <1>8, <2>1 DEF AddIgnored, AddStarts, AddReplaces, Remove, scheduled
  <2>3. QED BY <2>1, <2>2, CanceledUndisturbed
<1>9. CASE AddDone
  <2>1. canceled = {} /\ UNCHANGED canceled
    BY <1>9 DEF AddDone, scheduled, CanceledInv, CanceledInRun
  <2>2. QED BY <2>1, CanceledUndisturbed
<1>10. CASE UNCHANGED vars
  BY <1>10 DEF vars, scheduled, buttons, CanceledInv, CanceledReleased, CanceledInRun,
               Range, WhileHeld
<1>11. QED
  BY <1>1, <1>2, <1>3, <1>4, <1>5, <1>6, <1>7, <1>8, <1>9, <1>10 DEF Next, ModeLoop

(* No step ends the command of a held button but for the four reasons.     *)
LEMMA HeldStep ==
  ASSUME TypeOK, OneDriver, CanceledInv, [Next]_vars,
         NEW b \in Wired, WhileHeld(b), b \in initialized, b \in pressedLast
  PROVE  b \in initialized' \/ ~enabled' \/ mode' = "test" \/ pc' = "down"
<1> SUFFICES ASSUME b \notin initialized'
             PROVE  ~enabled' \/ mode' = "test" \/ pc' = "down"
  OBVIOUS
<1>1. b \in Buttons /\ b \notin canceled
  BY WiredAssumption DEF CanceledInv, CanceledReleased
<1>2. ASSUME UNCHANGED initialized
      PROVE  FALSE
  BY <1>2
<1>3. CASE RobotInit \/ DisabledPeriodic \/ AutonomousPeriodic \/ TeleopPeriodic
  BY <1>3, <1>2 DEF RobotInit, DisabledPeriodic, AutonomousPeriodic, TeleopPeriodic,
                    RunScheduler, scheduled
<1>4. CASE TestPeriodic
  BY <1>4 DEF TestPeriodic, Wake
<1>5. ASSUME NEW w \in Wired, PollHeld(w) \/ PollPressed(w)
      PROVE  FALSE
  BY <1>5, <1>2 DEF PollHeld, PollPressed, PollNext
<1>6. ASSUME NEW c \in Instances, RunRemoved(c)
      PROVE  ~enabled'
  BY <1>6, <1>1 DEF RunRemoved, Remove
<1>7. ASSUME NEW c \in Instances, RunExecuted(c)
      PROVE  FALSE
  BY <1>7 DEF RunExecuted
<1>8. ASSUME NEW c \in Instances, RunCrashes(c)
      PROVE  pc' = "down"
  BY <1>8 DEF RunCrashes
<1>9. CASE RunDone \/ AddDone
  BY <1>9, <1>2 DEF RunDone, AddDone, scheduled
<1>10. ASSUME NEW c \in Instances, AddIgnored(c) \/ AddStarts(c)
       PROVE  FALSE
  BY <1>10, <1>2 DEF AddIgnored, AddStarts, scheduled
<1>11. ASSUME NEW c \in Instances, AddReplaces(c)
       PROVE  FALSE
  <2>1. b = currentCommand /\ currentCommand # None
    BY <1>11 DEF AddReplaces, Remove
  <2>2. Command(b).requires
    BY <2>1 DEF OneDriver
  <2>3. QED BY <2>2, <1>1, HeldNeedsNoDrive
<1>12. CASE UNCHANGED vars
  BY <1>12, <1>2 DEF vars, scheduled
<1>13. QED
  BY <1>3, <1>4, <1>5, <1>6, <1>7, <1>8, <1>9, <1>10, <1>11, <1>12 DEF Next, ModeLoop

(* The command of a held button ends only by release, disable, test mode or  *)
(* a crash, never through another button.                                  *)
THEOREM HeldCommandsKeepRunning == Spec => HeldKeepsRunning
<1> DEFINE Kept ==
      \A b \in Wired :
        WhileHeld(b) /\ b \in initialized /\ b \in pressedLast =>
          b \in initialized' \/ ~enabled' \/ mode' = "test" \/ pc' = "down"
<1>1. Init => CanceledInv
  BY DEF Init, CanceledInv, CanceledReleased, CanceledInRun
<1>2. TypeOK /\ CanceledInv /\ [Next]_vars => CanceledInv'
  BY CanceledStep
<1>3. TypeOK /\ OneDriver /\ CanceledInv /\ [Next]_vars => Kept
  BY HeldStep
<1> HIDE DEF Kept
<1>4. Spec => [][Kept]_vars
  BY <1>1, <1>2, <1>3, TypeCorrect, OneDriverAlways, PTL DEF Spec
<1>5. QED BY <1>4 DEF HeldKeepsRunning, Kept
-----------------------------------------------------------------------------
(* Drive selections.  The additions of one run are in falling order of their *)
(* buttons, since the buttons are polled from the last to the first; only  *)
(* the command of teleopInit may stand before them.  And when the additions  *)
(* begin every scheduled command has run: a current command that has not is  *)
(* one of this run, and beaten by what is still to come.                   *)

Falling ==
  \A i, j \in DOMAIN additions :
    i < j => additions[i] \in TeleopInstances \/ additions[j] < additions[i]
PolledFalling ==
  pc = "poll" => \A i \in DOMAIN additions : \A b \in toPoll :
                   additions[i] \in TeleopInstances \/ b < additions[i]
RunInitializes ==
  pc = "run" => \A i \in DOMAIN commands : i < cursor => commands[i] \in initialized
NewestLeads ==
  pc = "add" /\ currentCommand # None /\ currentCommand \notin initialized =>
    \/ currentCommand \in TeleopInstances
    \/ \A i \in DOMAIN additions : additions[i] < currentCommand

SelectionInv ==
  NothingStarted /\ Falling /\ PolledFalling /\ RunInitializes /\ NewestLeads

(* With nothing to add and outside the phases of a run SelectionInv holds. *)
LEMMA SelectionIdle ==
  ASSUME additions' = <<>>, pc' \in {"down", "wait"}
  PROVE  SelectionInv'
  BY DEF SelectionInv, NothingStarted, Falling, PolledFalling, RunInitializes, NewestLeads

(* A run begins with nothing to add, or with the command of teleopInit.    *)
LEMMA SelectionBegins ==
  ASSUME pc' = "poll",
         additions' = <<>> \/ \E c \in TeleopInstances : additions' = <<c>>
  PROVE  SelectionInv'
<1>1. \A i \in DOMAIN additions' : additions'[i] \in TeleopInstances
  OBVIOUS
<1>2. QED BY <1>1
  DEF SelectionInv, NothingStarted, Falling, PolledFalling, RunInitializes, NewestLeads

(* Polling a button appends at most that button, above all still to poll.  *)
LEMMA SelectionPoll ==
  ASSUME TypeOK, SelectionInv, NEW b \in Wired, PollNext(b),
         additions' = additions \/ additions' = Append(additions, b)
  PROVE  SelectionInv'
<1>1. /\ pc = "poll" /\ b \in toPoll /\ toPoll' = toPoll \ {b}
      /\ \A other \in toPoll : other <= b
      /\ pc' = "poll" \/ (pc' = "run" /\ cursor' = 1)
      /\ commands' = commands
  BY DEF PollNext
<1>2. toPoll \subseteq 1 .. 14 /\ b \in 1 .. 14
  BY WiredAssumption DEF TypeOK, Buttons
<1>3. \A other \in toPoll' : other < b
  BY <1>1, <1>2
<1>4. \A i \in DOMAIN additions : additions[i] \in TeleopInstances \/ b < additions[i]
  BY <1>1 DEF SelectionInv, PolledFalling
<1>5. /\ \A i \in DOMAIN additions : additions'[i] = additions[i]
      /\ \A i \in DOMAIN additions' : i \in DOMAIN additions
           \/ (additions'[i] = b /\ \A j \in DOMAIN additions' : j <= i)
  <2>1. CASE additions' = additions
    BY <2>1
  <2>2. CASE additions' = Append(additions, b)
    <3>1. additions \in Seq(Instances) /\ b \in Instances
      BY <1>2 DEF TypeOK, Instances, Buttons
    <3>2. /\ \A i \in DOMAIN additions : Append(additions, b)[i] = additions[i]
          /\ DOMAIN Append(additions, b) = 1 .. Len(additions) + 1
          /\ Append(additions, b)[Len(additions) + 1] = b
          /\ DOMAIN additions = 1 .. Len(additions) /\ Len(additions) \in Nat
      BY <3>1, AppendRange
    <3>3. QED BY <2>2, <3>2
  <2>3. QED BY <2>1, <2>2
<1>6. DOMAIN additions' \subseteq Nat
  BY DEF TypeOK
<1>7. Falling'
  <2> SUFFICES ASSUME NEW i \in DOMAIN additions', NEW j \in DOMAIN additions', i < j,
                      additions'[i] \notin TeleopInstances
               PROVE  additions'[j] < additions'[i]
    BY DEF Falling
  <2>1. i \in DOMAIN additions
    BY <1>5, <1>6
  <2>2. CASE j \in DOMAIN additions
    BY <1>5, <2>1, <2>2 DEF SelectionInv, Falling
  <2>3. CASE additions'[j] = b
    BY <1>4, <1>5, <2>1, <2>3
  <2>4. QED BY <1>5, <2>2, <2>3
<1>8. PolledFalling'
  <2> SUFFICES ASSUME NEW i \in DOMAIN additions', NEW other \in toPoll',
                      additions'[i] \notin TeleopInstances
               PROVE  other < additions'[i]
    BY DEF PolledFalling
  <2>1. other \in 1 .. 14 /\ other < b
    BY <1>1, <1>2, <1>3
  <2>2. CASE i \in DOMAIN additions
    <3>1. additions'[i] \in Nat
      BY <1>5, <2>2 DEF TypeOK, Instances, Buttons, TeleopInstances
    <3>2. b < additions'[i]
      BY <1>4, <1>5, <2>2
    <3>3. QED BY <1>2, <2>1, <3>1, <3>2
  <2>3. CASE additions'[i] = b
    BY <2>1, <2>3
  <2>4. QED BY <1>5, <2>2, <2>3
<1>9. RunInitializes'
  <2>1. \A i \in DOMAIN commands : ~(i < 1)
    BY DEF TypeOK
  <2>2. QED BY <1>1, <2>1 DEF RunInitializes
<1>10. NothingStarted' /\ NewestLeads'
  BY <1>1 DEF NothingStarted, NewestLeads
<1>11. QED BY <1>7, <1>8, <1>9, <1>10 DEF SelectionInv

(* Taking the first addition: the others keep their order, and fall below it *)
(* unless it is the command of teleopInit.                                 *)
LEMMA SelectionAdd ==
  ASSUME TypeOK, SelectionInv, NEW c \in Instances, Added(c)
  PROVE  /\ pc' = "add" /\ Falling'
         /\ c \in TeleopInstances \/ \A i \in DOMAIN additions' : additions'[i] < c
         /\ \A i \in DOMAIN additions' : \E j \in DOMAIN additions : additions'[i] = additions[j]
<1>1. /\ pc' = "add" /\ additions \in Seq(Instances) /\ additions # <<>>
      /\ c = additions[1] /\ additions' = Tail(additions)
  BY DEF Added, TypeOK
<1>2. /\ Len(additions) \in Nat /\ DOMAIN additions = 1 .. Len(additions)
      /\ DOMAIN additions' = 1 .. Len(additions) - 1
      /\ \A i \in DOMAIN additions' : additions'[i] = additions[i + 1]
      /\ Len(additions) >= 1
  BY <1>1
<1>3. \A i \in DOMAIN additions' : i + 1 \in DOMAIN additions /\ 1 < i + 1
  BY <1>2
<1>4. Falling'
  <2> SUFFICES ASSUME NEW i \in DOMAIN additions', NEW j \in DOMAIN additions', i < j
               PROVE  additions'[i] \in TeleopInstances \/ additions'[j] < additions'[i]
    BY DEF Falling
  <2>1. i + 1 < j + 1
    BY <1>2
  <2>2. QED BY <1>2, <1>3, <2>1 DEF SelectionInv, Falling
<1>5. c \in TeleopInstances \/ \A i \in DOMAIN additions' : additions'[i] < c
  BY <1>1, <1>2, <1>3 DEF SelectionInv, Falling
<1>6. QED BY <1>1, <1>2, <1>3, <1>4, <1>5

(* Every step keeps SelectionInv.                                          *)
LEMMA SelectionStep == TypeOK /\ DriveInv /\ SelectionInv /\ [Next]_vars => SelectionInv'
<1> SUFFICES ASSUME TypeOK, DriveInv, SelectionInv, [Next]_vars
             PROVE  SelectionInv'
  OBVIOUS
<1>1. CASE RobotInit \/ TestPeriodic
  <2>1. additions = <<>> /\ UNCHANGED additions /\ pc' = "wait"
    BY <1>1 DEF RobotInit, TestPeriodic, Wake, SelectionInv, NothingStarted
  <2>2. QED BY <2>1, SelectionIdle
<1>2. CASE DisabledPeriodic \/ AutonomousPeriodic \/ TeleopPeriodic
  <2>1. additions = <<>> /\ pc' = "poll"
    BY <1>2 DEF DisabledPeriodic, AutonomousPeriodic, TeleopPeriodic, Wake, RunScheduler,
                SelectionInv, NothingStarted
  <2>2. additions' = <<>> \/ \E c \in TeleopInstances : additions' = <<c>>
    BY <1>2, <2>1 DEF DisabledPeriodic, AutonomousPeriodic, TeleopPeriodic
  <2>3. QED BY <2>1, <2>2, SelectionBegins
<1>3. ASSUME NEW b \in Wired, PollHeld(b) \/ PollPressed(b)
      PROVE  SelectionInv'
  BY <1>3, SelectionPoll DEF PollHeld, PollPressed, Start, Cancel
<1>4. ASSUME NEW c \in Instances, RunRemoved(c)
      PROVE  SelectionInv'
  <2>1. /\ pc = "run" /\ pc' = "run" /\ cursor \in DOMAIN commands /\ c = commands[cursor]
        /\ cursor' = cursor /\ additions' = additions /\ initialized' = initialized \ {c}
        /\ commands' = RemoveAt(commands, cursor)
    BY <1>4 DEF RunRemoved, Remove
  <2>2. /\ DOMAIN commands' = 1 .. Len(commands) - 1
        /\ \A j \in 1 .. Len(commands) - 1 :
             commands'[j] = IF j < cursor THEN commands[j] ELSE commands[j + 1]
    BY <2>1 DEF RemoveAt
  <2>3. ASSUME NEW i \in DOMAIN commands', i < cursor
        PROVE  commands'[i] \in initialized'
    <3>1. i \in DOMAIN commands /\ commands'[i] = commands[i] /\ i # cursor
      BY <2>1, <2>2, <2>3 DEF TypeOK
    <3>2. commands[i] # c
      BY <2>1, <3>1 DEF DriveInv, Distinct
    <3>3. QED BY <2>1, <2>3, <3>1, <3>2 DEF SelectionInv, RunInitializes
  <2>4. QED BY <2>1, <2>3
    DEF SelectionInv, NothingStarted, Falling, PolledFalling, RunInitializes, NewestLeads
<1>5. ASSUME NEW c \in Instances, RunExecuted(c)
      PROVE  SelectionInv'
  <2>1. /\ pc = "run" /\ pc' = "run" /\ cursor \in DOMAIN commands /\ c = commands[cursor]
        /\ cursor' = cursor + 1 /\ additions' = additions /\ commands' = commands
        /\ initialized' = initialized \cup {c}
    BY <1>5 DEF RunExecuted, Runs
  <2>2. \A i \in DOMAIN commands : i < cursor + 1 => i < cursor \/ i = cursor
    BY DEF TypeOK
  <2>3. RunInitializes'
    BY <2>1, <2>2 DEF SelectionInv, RunInitializes
  <2>4. QED BY <2>1, <2>3
    DEF SelectionInv, NothingStarted, Falling, PolledFalling, NewestLeads
<1>6. ASSUME NEW c \in Instances, RunCrashes(c)
      PROVE  SelectionInv'
  BY <1>6, SelectionIdle DEF RunCrashes
<1>7. CASE RunDone
  <2>1. /\ pc = "run" /\ pc' = "add" /\ cursor \notin DOMAIN commands
        /\ UNCHANGED <<additions, commands, initialized, currentCommand>>
    BY <1>7 DEF RunDone, scheduled
  <2>2. \A i \in DOMAIN commands : i < cursor
    BY <2>1 DEF TypeOK
  <2>3. currentCommand # None => currentCommand \in initialized
    BY <2>1, <2>2 DEF DriveInv, OneDriver, Range, SelectionInv, RunInitializes
  <2>4. QED BY <2>1, <2>3
    DEF SelectionInv, NothingStarted, Falling, PolledFalling, RunInitializes, NewestLeads
<1>8. ASSUME NEW c \in Instances, AddIgnored(c) \/ AddStarts(c) \/ AddReplaces(c)
      PROVE  SelectionInv'
  <2>1. Added(c) /\ pc = "add"
    BY <1>8 DEF AddIgnored, AddStarts, AddReplaces, Added
  <2>2. /\ pc' = "add" /\ Falling'
        /\ c \in TeleopInstances \/ \A i \in DOMAIN additions' : additions'[i] < c
        /\ \A i \in DOMAIN additions' : \E j \in DOMAIN additions : additions'[i] = additions[j]
    BY <2>1, SelectionAdd
  <2>3. currentCommand' = c \/ UNCHANGED <<currentCommand, initialized>>
    BY <1>8 DEF AddIgnored, AddStarts, AddReplaces, scheduled
  <2>4. NewestLeads'
    <3>1. CASE currentCommand' = c
      BY <2>2, <3>1 DEF NewestLeads
    <3>2. CASE UNCHANGED <<currentCommand, initialized>>
      BY <2>1, <2>2, <3>2 DEF SelectionInv, NewestLeads
    <3>3. QED BY <2>3, <3>1, <3>2
  <2>5. QED BY <2>2, <2>4 DEF SelectionInv, NothingStarted, PolledFalling, RunInitializes
<1>9. CASE AddDone
  <2>1. additions' = <<>> /\ pc' = "wait"
    BY <1>9 DEF AddDone
  <2>2. QED BY <2>1, SelectionIdle
<1>10. CASE UNCHANGED vars
  BY <1>10 DEF vars, scheduled, buttons, SelectionInv, NothingStarted, Falling, PolledFalling,
               RunInitializes, NewestLeads
<1>11. QED
  BY <1>1, <1>2, <1>3, <1>4, <1>5, <1>6, <1>7, <1>8, <1>9, <1>10 DEF Next, ModeLoop

(* A drive selection that has not run yet gives way only to a lower button *)
(* of OI, or was the command of teleopInit.                                *)
THEOREM LowestButtonWins == Spec => EarlierButtonWins
<1> DEFINE GivesWay ==
      currentCommand # None /\ currentCommand \notin initialized
      /\ currentCommand' \notin {None, currentCommand} =>
        currentCommand \in TeleopInstances \/ currentCommand' < currentCommand
<1>1. Init => DriveInv /\ SelectionInv
  BY DEF Init, DriveInv, Distinct, OneDriver, Range, SelectionInv, NothingStarted, Falling,
         PolledFalling, RunInitializes, NewestLeads
<1>2. SelectionInv /\ [Next]_vars => GivesWay
  <2> SUFFICES ASSUME SelectionInv, [Next]_vars, currentCommand # None,
                      currentCommand \notin initialized,
                      currentCommand' \notin {None, currentCommand}
               PROVE  currentCommand \in TeleopInstances \/ currentCommand' < currentCommand
    OBVIOUS
  <2>1. \E c \in Instances : AddReplaces(c)
    BY DEF Next, ModeLoop, RobotInit, DisabledPeriodic, AutonomousPeriodic, TeleopPeriodic,
           TestPeriodic, RunScheduler, RemoveAll, PollHeld, PollPressed, PollNext, RunRemoved,
           RunExecuted, RunCrashes, RunDone, AddIgnored, AddStarts, AddDone, scheduled, vars
  <2>2. PICK c \in Instances : AddReplaces(c)
    BY <2>1
  <2>3. pc = "add" /\ c = Head(additions) /\ additions # <<>> /\ currentCommand' = c
    BY <2>2 DEF AddReplaces, Added
  <2>4. QED BY <2>2, <2>3 DEF SelectionInv, NewestLeads
<1> HIDE DEF GivesWay
<1>3. Spec => [][GivesWay]_vars
  BY <1>1, <1>2, DriveStep, SelectionStep, TypeCorrect, PTL DEF Spec
<1>4. QED BY <1>3 DEF EarlierButtonWins, GivesWay
-----------------------------------------------------------------------------
(* What the buttons have to do with what runs.  A whileHeld command is     *)
(* scheduled, or about to be, only for a button the last poll saw down; one  *)
(* whose button came up is canceled first.  And a command that has run is  *)
(* still scheduled, so it can be canceled.                                 *)

Holding(c) == c \in Buttons /\ WhileHeld(c)

ScheduledHeld ==
  \A c \in Range(commands) : Holding(c) => c \in pressedLast \/ c \in canceled
AddedHeld == \A c \in Range(additions) : Holding(c) => c \in pressedLast
InitializedScheduled == initialized \subseteq Range(commands)
DownIdle == pc = "down" => commands = <<>>

HeldInv == ScheduledHeld /\ AddedHeld /\ InitializedScheduled /\ DownIdle

(* The commands that switch a motor on are bound with whileHeld.           *)
LEMMA StartersAreHeld ==
  ASSUME NEW c \in Instances, NEW m \in Command(c).starts
  PROVE  Holding(c)
<1>1. c \in Buttons
  BY DEF Command, TwoStickArcade, Idle
<1>2. OI[c].how # "whileHeld" => OI[c].command \in {OneStickTank, TwoStickTank,
                                                   OneStickArcade, TwoStickArcade}
  BY <1>1, SMT DEF OI, Buttons
<1>3. \A k \in {OneStickTank, TwoStickTank, OneStickArcade, TwoStickArcade} : k.starts = {}
  BY DEF OneStickTank, TwoStickTank, OneStickArcade, TwoStickArcade, Idle
<1>4. QED BY <1>1, <1>2, <1>3 DEF Command, Holding, WhileHeld

(* The command that flips the drive is bound with whileHeld.               *)
LEMMA FlippersAreHeld ==
  ASSUME NEW c \in Instances, Command(c).flips
  PROVE  Holding(c)
<1>1. c \in Buttons
  BY DEF Command, TwoStickArcade, Idle
<1>2. OI[c].how # "whileHeld" => OI[c].command \in {OneStickTank, TwoStickTank,
                                                   OneStickArcade, TwoStickArcade}
  BY <1>1, SMT DEF OI, Buttons
<1>3. \A k \in {OneStickTank, TwoStickTank, OneStickArcade, TwoStickArcade} : ~k.flips
  BY DEF OneStickTank, TwoStickTank, OneStickArcade, TwoStickArcade, Idle
<1>4. QED BY <1>1, <1>2, <1>3 DEF Command, Holding, WhileHeld

(* The commands that use the NUC link are those of buttons 6 and 7.        *)
LEMMA NucUsers ==
  ASSUME NEW c \in Instances, Command(c).usesNuc
  PROVE  c \in NucButtons /\ Holding(c)
<1>1. c \in Buttons
  BY DEF Command, TwoStickArcade, Idle
<1>2. c \in NucButtons
  <2>1. c \notin NucButtons => OI[c].command \in {OneStickTank, TwoStickTank, OneStickArcade,
               TwoStickArcade, Climb, PreFire, PreIntake, Intake, Flip}
    BY <1>1, SMT DEF OI, Buttons, NucButtons
  <2>2. \A k \in {OneStickTank, TwoStickTank, OneStickArcade,
               TwoStickArcade, Climb, PreFire, PreIntake, Intake, Flip} : ~k.usesNuc
    BY DEF OneStickTank, TwoStickTank, OneStickArcade, TwoStickArcade, Climb, PreFire,
           PreIntake, Intake, Flip, Idle
  <2>3. QED BY <1>1, <2>1, <2>2 DEF Command
<1>3. \A b \in NucButtons : b \in Buttons /\ OI[b].how = "whileHeld"
  BY SMT DEF NucButtons, Buttons, OI
<1>4. QED BY <1>1, <1>2, <1>3 DEF Command, Holding, WhileHeld

(* A robot that runs nothing satisfies HeldInv.                            *)
LEMMA HeldCleared ==
  ASSUME commands' = <<>>, additions' = <<>>, initialized' = {}
  PROVE  HeldInv'
  BY DEF HeldInv, ScheduledHeld, AddedHeld, InitializedScheduled, DownIdle, Range

(* Polling one button: its command is added if it is down and canceled if  *)
(* it is not.                                                              *)
LEMMA HeldPoll ==
  ASSUME TypeOK, SelectionInv, CanceledInv, HeldInv,
         NEW b \in Wired, PollHeld(b) \/ PollPressed(b)
  PROVE  HeldInv'
<1>1. /\ pc = "poll" /\ pc' # "down" /\ b \in toPoll /\ b \in Buttons /\ b \in Instances
      /\ UNCHANGED <<commands, initialized>>
  BY WiredAssumption DEF PollHeld, PollPressed, PollNext, Instances
<1>2. b \notin Range(additions)
  <2> SUFFICES ASSUME NEW i \in DOMAIN additions, additions[i] = b
               PROVE  FALSE
    BY DEF Range
  <2>1. additions[i] \in TeleopInstances \/ b < additions[i]
    BY <1>1 DEF SelectionInv, PolledFalling
  <2>2. b \in 1 .. 14
    BY <1>1 DEF Buttons
  <2>3. QED BY <2>1, <2>2 DEF TeleopInstances
<1>3. Range(additions') = Range(additions) \/ (Range(additions') = Range(additions) \cup {b}
                                                 /\ b \in pressedLast')
  <2>1. additions' = additions
        \/ (additions' = Append(additions, b) /\ b \in pressedLast')
    BY DEF PollHeld, PollPressed, Start, Cancel
  <2>2. Range(Append(additions, b)) = Range(additions) \cup {b}
    BY <1>1, AppendRange DEF TypeOK
  <2>3. QED BY <2>1, <2>2
<1>4. \A c \in pressedLast : c # b => c \in pressedLast'
  BY DEF PollHeld, PollPressed
<1>5. AddedHeld'
  BY <1>2, <1>3, <1>4 DEF HeldInv, AddedHeld, Holding, WhileHeld
<1>6. canceled \subseteq canceled'
  BY DEF PollHeld, PollPressed, Start, Cancel
<1>7. Holding(b) /\ b \in Range(commands) => b \in pressedLast' \/ b \in canceled'
  <2> SUFFICES ASSUME Holding(b), b \in Range(commands), b \notin pressedLast'
               PROVE  b \in canceled'
    OBVIOUS
  <2>1. PollHeld(b)
    BY DEF PollPressed, Holding
  <2>2. b \in pressedLast \/ b \in canceled
    BY DEF HeldInv, ScheduledHeld
  <2>3. QED BY <1>6, <2>1, <2>2 DEF PollHeld, Cancel
<1>8. ScheduledHeld'
  BY <1>1, <1>4, <1>6, <1>7 DEF HeldInv, ScheduledHeld, Holding, WhileHeld, Range
<1>9. QED BY <1>1, <1>5, <1>8 DEF HeldInv, InitializedScheduled, DownIdle, Range

(* Every step keeps HeldInv.                                               *)
LEMMA HeldInvStep ==
  TypeOK /\ DriveInv /\ SelectionInv /\ CanceledInv /\ HeldInv /\ [Next]_vars => HeldInv'
<1> SUFFICES ASSUME TypeOK, DriveInv, SelectionInv, CanceledInv, HeldInv, [Next]_vars
             PROVE  HeldInv'
  OBVIOUS
<1> USE DEF HeldInv, ScheduledHeld, AddedHeld, InitializedScheduled, DownIdle
<1>1. ASSUME UNCHANGED <<commands, initialized, canceled>>, pc' # "down",
             pressedLast' = pressedLast \/ commands = <<>>,
             \A c \in Range(additions') : c \in TeleopInstances
      PROVE  HeldInv'
  <2>1. ScheduledHeld' /\ InitializedScheduled' /\ DownIdle'
    BY <1>1 DEF Range, Holding, WhileHeld
  <2>2. AddedHeld'
    BY <1>1 DEF Holding, Buttons, TeleopInstances
  <2>3. QED BY <2>1, <2>2
<1>2. CASE RobotInit \/ DisabledPeriodic \/ AutonomousPeriodic \/ TeleopPeriodic
  <2>1. additions = <<>> /\ pc' # "down" /\ UNCHANGED <<commands, initialized, canceled>>
    BY <1>2 DEF RobotInit, DisabledPeriodic, AutonomousPeriodic, TeleopPeriodic, Wake,
                RunScheduler, scheduled, SelectionInv, NothingStarted
  <2>2. pressedLast' = pressedLast \/ commands = <<>>
    BY <1>2 DEF RobotInit, DisabledPeriodic, AutonomousPeriodic, TeleopPeriodic, RunScheduler
  <2>3. additions' = <<>> \/ \E c \in TeleopInstances : additions' = <<c>>
    BY <1>2, <2>1 DEF RobotInit, DisabledPeriodic, AutonomousPeriodic, TeleopPeriodic
  <2>4. \A c \in Range(additions') : c \in TeleopInstances
    BY <2>3 DEF Range
  <2>5. QED BY <1>1, <2>1, <2>2, <2>4
<1>3. CASE TestPeriodic
  <2>1. additions = <<>> /\ additions' = <<>> /\ pc' = "wait" /\ pressedLast' = pressedLast
    BY <1>3 DEF TestPeriodic, Wake, buttons, SelectionInv, NothingStarted
  <2>2. UNCHANGED <<commands, initialized, canceled>> \/ (commands' = <<>> /\ initialized' = {})
    BY <1>3 DEF TestPeriodic, RemoveAll, scheduled
  <2>3. \A c \in Range(additions') : c \in TeleopInstances
    BY <2>1 DEF Range
  <2>4. QED BY <1>1, <2>1, <2>2, <2>3, HeldCleared
<1>4. ASSUME NEW b \in Wired, PollHeld(b) \/ PollPressed(b)
      PROVE  HeldInv'
  BY <1>4, HeldPoll
<1>5. ASSUME NEW c \in Instances, RunRemoved(c)
      PROVE  HeldInv'
  <2>1. /\ pc' = "run" /\ commands' = RemoveAt(commands, cursor)
        /\ cursor \in DOMAIN commands /\ c = commands[cursor]
        /\ initialized' = initialized \ {c} /\ canceled' = canceled \ {c}
        /\ UNCHANGED <<pressedLast, additions>>
    BY <1>5 DEF RunRemoved, Remove, buttons
  <2>2. Range(commands') = Range(commands) \ {c}
    BY <2>1, RemoveAtRange DEF TypeOK, DriveInv, Distinct
  <2>3. QED BY <2>1, <2>2 DEF Range, Holding, WhileHeld
<1>6. ASSUME NEW c \in Instances, RunExecuted(c)
      PROVE  HeldInv'
  <2>1. /\ pc' = "run" /\ cursor \in DOMAIN commands /\ c = commands[cursor]
        /\ initialized' = initialized \cup {c}
        /\ UNCHANGED <<commands, canceled, pressedLast, additions>>
    BY <1>6 DEF RunExecuted, Runs, buttons
  <2>2. c \in Range(commands)
    BY <2>1 DEF Range
  <2>3. QED BY <2>1, <2>2 DEF Range, Holding, WhileHeld
<1>7. ASSUME NEW c \in Instances, RunCrashes(c)
      PROVE  HeldInv'
  BY <1>7, HeldCleared DEF RunCrashes
<1>8. CASE RunDone \/ AddDone
  <2>1. pc' # "down" /\ UNCHANGED <<commands, initialized, canceled, pressedLast, additions>>
    BY <1>8 DEF RunDone, AddDone, scheduled, buttons
  <2>2. QED BY <2>1 DEF Range, Holding, WhileHeld
<1>9. ASSUME NEW c \in Instances, Added(c)
      PROVE  /\ pc' # "down" /\ AddedHeld' /\ UNCHANGED pressedLast
             /\ Holding(c) => c \in pressedLast
  <2>1. /\ additions \in Seq(Instances) /\ additions # <<>> /\ c = additions[1]
        /\ additions' = Tail(additions) /\ pc' = "add" /\ pressedLast' = pressedLast
    BY <1>9 DEF Added, TypeOK, buttons
  <2>2. \A i \in DOMAIN additions' : additions'[i] = additions[i + 1] /\ i + 1 \in DOMAIN additions
    BY <2>1
  <2>3. 1 \in DOMAIN additions
    BY <2>1
  <2>4. \A d \in Range(additions') : d \in Range(additions)
    BY <2>2 DEF Range
  <2>5. c \in Range(additions)
    BY <2>1, <2>3 DEF Range
  <2>6. QED BY <2>1, <2>4, <2>5 DEF Holding, WhileHeld
<1>10. ASSUME NEW c \in Instances, AddIgnored(c)
       PROVE  HeldInv'
  <2>1. Added(c) /\ UNCHANGED <<commands, initialized, canceled>>
    BY <1>10 DEF AddIgnored, scheduled
  <2>2. QED BY <1>9, <2>1 DEF Range, Holding, WhileHeld
<1>11. ASSUME NEW c \in Instances, AddStarts(c)
       PROVE  HeldInv'
  <2>1. Added(c) /\ commands' = Append(commands, c) /\ UNCHANGED <<initialized, canceled>>
    BY <1>11 DEF AddStarts
  <2>2. Range(commands') = Range(commands) \cup {c}
    BY <2>1, AppendRange DEF TypeOK
  <2>3. QED BY <1>9, <2>1, <2>2 DEF Holding, WhileHeld
<1>12. ASSUME NEW c \in Instances, AddReplaces(c)
       PROVE  HeldInv'
  <2> DEFINE rest == RemoveAt(commands, Position(currentCommand))
  <2>1. /\ Added(c) /\ commands' = Append(rest, c)
        /\ initialized' = initialized \ {currentCommand}
        /\ canceled' = canceled \ {currentCommand}
        /\ currentCommand \in Range(commands)
    BY <1>12 DEF AddReplaces, Remove, DriveInv, OneDriver
  <2>2. PICK k \in DOMAIN commands :
          k = Position(currentCommand) /\ commands[k] = currentCommand
    <3>1. \E i \in DOMAIN commands : commands[i] = currentCommand
      BY <2>1 DEF Range
    <3>2. QED BY <3>1, Zenon DEF Position
  <2>3. rest \in Seq(Instances) /\ Range(rest) = Range(commands) \ {currentCommand}
    <3>1. /\ RemoveAt(commands, k) \in Seq(Instances)
          /\ Range(RemoveAt(commands, k)) = Range(commands) \ {commands[k]}
      BY RemoveAtRange, RemoveAtFacts DEF TypeOK, DriveInv, Distinct
    <3>2. QED BY <2>2, <3>1
  <2> HIDE DEF rest
  <2>4. Range(commands') = Range(rest) \cup {c}
    BY <2>1, <2>3, AppendRange
  <2>5. QED BY <1>9, <2>1, <2>3, <2>4 DEF Holding, WhileHeld
<1>13. CASE UNCHANGED vars
  BY <1>13 DEF vars, scheduled, buttons, Range, Holding, WhileHeld
<1>14. QED
  BY <1>2, <1>3, <1>4, <1>5, <1>6, <1>7, <1>8, <1>10, <1>11, <1>12, <1>13 DEF Next, ModeLoop

(* All the invariants of this module together.                             *)
RobotInv == TypeOK /\ DriveInv /\ SelectionInv /\ CanceledInv /\ HeldInv /\ MotorOwned

(* RobotInv holds in every state.                                          *)
LEMMA RobotInvariant == Spec => []RobotInv
<1>1. Init => DriveInv /\ SelectionInv
  BY DEF Init, DriveInv, Distinct, OneDriver, Range, SelectionInv, NothingStarted, Falling,
         PolledFalling, RunInitializes, NewestLeads
<1>2. Init => CanceledInv
  BY DEF Init, CanceledInv, CanceledReleased, CanceledInRun
<1>3. Init => HeldInv
  BY DEF Init, HeldInv, ScheduledHeld, AddedHeld, InitializedScheduled, DownIdle, Range
<1>4. QED
  BY <1>1, <1>2, <1>3, DriveStep, SelectionStep, CanceledStep, HeldInvStep, TypeCorrect,
     MotorsAreOwned, PTL DEF Spec, RobotInv

(* Between two runs of the scheduler, and while it adds commands, a motor  *)
(* turns only for a button the last poll saw down: Climb, PreFire, PreIntake *)
(* and Intake leave no motor on behind a released button, whichever other  *)
(* button of the motor was released first and whatever was disabled in     *)
(* between.  It bounds the time ReleasedStops only says is finite: one run.  *)
MotorsHeld ==
  pc \in {"wait", "add"} => \A m \in on : \E b \in pressedLast : m \in Command(b).starts

(* No motor runs between two polls for a button that is up.                *)
THEOREM MotorsAreHeld == Spec => []MotorsHeld
<1>1. RobotInv => MotorsHeld
  <2> SUFFICES ASSUME RobotInv, pc \in {"wait", "add"}, NEW m \in on
               PROVE  \E b \in pressedLast : m \in Command(b).starts
    BY DEF MotorsHeld
  <2>1. PICK c \in initialized : m \in Command(c).stops
    BY DEF RobotInv, MotorOwned, Active
  <2>2. c \in Instances /\ c \in Range(commands) /\ c \notin canceled
    BY DEF RobotInv, TypeOK, HeldInv, InitializedScheduled, CanceledInv, CanceledInRun
  <2>3. m \in Command(c).starts
    BY <2>1, <2>2, CommandFacts
  <2>4. Holding(c)
    BY <2>2, <2>3, StartersAreHeld
  <2>5. QED BY <2>2, <2>3, <2>4 DEF RobotInv, HeldInv, ScheduledHeld
<1>2. QED BY <1>1, RobotInvariant, PTL

(* The program exits only at a button that no wiring should offer: for     *)
(* ReceiveTCPPacket or SendUDPPacket, whose tcpSubsystem is never created, *)
(* and only in an enabled robot whose last poll saw the button down.       *)
CrashNeedsNuc ==
  [][pc # "down" /\ pc' = "down" => enabled' /\ pressedLast \cap NucButtons # {}]_vars

(* The program ends only by a NUC button held on an enabled robot.         *)
THEOREM OnlyNucButtonsCrash == Spec => CrashNeedsNuc
<1> DEFINE Crash ==
      pc # "down" /\ pc' = "down" => enabled' /\ pressedLast \cap NucButtons # {}
<1>1. RobotInv /\ [Next]_vars => Crash
  <2> SUFFICES ASSUME RobotInv, [Next]_vars, pc # "down", pc' = "down"
               PROVE  enabled' /\ pressedLast \cap NucButtons # {}
    OBVIOUS
  <2>1. \E c \in Instances : RunCrashes(c)
    BY DEF Next, ModeLoop, RobotInit, DisabledPeriodic, AutonomousPeriodic, TeleopPeriodic,
           TestPeriodic, Wake, RunScheduler, PollHeld, PollPressed, PollNext, RunRemoved,
           RunExecuted, Runs, RunDone, AddIgnored, AddStarts, AddReplaces, Added, AddDone, vars
  <2>2. PICK c \in Instances : RunCrashes(c)
    BY <2>1
  <2>3. /\ cursor \in DOMAIN commands /\ c = commands[cursor] /\ c \notin canceled
        /\ enabled' = TRUE /\ Command(c).usesNuc
    BY <2>2 DEF RunCrashes, Runs
  <2>4. c \in NucButtons /\ Holding(c)
    BY <2>3, NucUsers
  <2>5. c \in Range(commands)
    BY <2>3 DEF Range
  <2>6. QED BY <2>3, <2>4, <2>5 DEF RobotInv, HeldInv, ScheduledHeld
<1> HIDE DEF Crash
<1>2. Spec => [][Crash]_vars
  BY <1>1, RobotInvariant, PTL DEF Spec
<1>3. QED BY <1>2 DEF CrashNeedsNuc, Crash

(* Within teleop the drive is lost to a disable that Command.run() reads   *)
(* itself, and to nothing else, for every set of buttons.                  *)
THEOREM OnlyDisableLosesDrive == Spec => DriveLostToDisable
<1> DEFINE Lost ==
      mode = "teleop" /\ mode' = "teleop" /\ currentCommand # None /\ currentCommand' = None
        => pc = "run" /\ ~enabled'
<1>1. RobotInv /\ [Next]_vars => Lost
  <2> SUFFICES ASSUME RobotInv, [Next]_vars, mode' = "teleop",
                      currentCommand # None, currentCommand' = None
               PROVE  pc = "run" /\ ~enabled'
    OBVIOUS
  <2>1. ASSUME NEW c \in Instances, AddStarts(c) \/ AddReplaces(c)
        PROVE  FALSE
    BY <2>1 DEF AddStarts, AddReplaces, Instances, Buttons, TeleopInstances, None
  <2>2. \E c \in Instances : RunRemoved(c)
    BY <2>1 DEF Next, ModeLoop, RobotInit, DisabledPeriodic, AutonomousPeriodic,
           TeleopPeriodic, TestPeriodic, Wake, RunScheduler, PollHeld, PollPressed, PollNext,
           RunExecuted, RunCrashes, RunDone, AddIgnored, AddDone, scheduled, vars
  <2>3. PICK c \in Instances : RunRemoved(c)
    BY <2>2
  <2>4. pc = "run" /\ Command(c).requires /\ (c \in canceled \/ ~enabled')
    BY <2>3 DEF RunRemoved
  <2>5. c \notin canceled
    BY <2>4, HeldNeedsNoDrive DEF RobotInv, CanceledInv, CanceledReleased
  <2>6. QED BY <2>4, <2>5
<1> HIDE DEF Lost
<1>2. Spec => [][Lost]_vars
  BY <1>1, RobotInvariant, PTL DEF Spec
<1>3. QED BY <1>2 DEF DriveLostToDisable, Lost
-----------------------------------------------------------------------------
(* What may set anything moving.                                           *)

(* A step that switches a motor on, sets the drive moving or flips it is the *)
(* execute() of a scheduled command that was not canceled.                 *)
LEMMA ExecutedSteps ==
  ASSUME [Next]_vars, pc' # "down",
         on' \ on # {} \/ (driving' /\ ~driving) \/ flipped' # flipped
  PROVE  \E c \in Instances : RunExecuted(c)
<1>1. CASE RobotInit \/ ModeLoop
  BY <1>1 DEF RobotInit, ModeLoop, DisabledPeriodic, AutonomousPeriodic, TeleopPeriodic,
              TestPeriodic, RunScheduler, actuators
<1>2. ASSUME NEW b \in Wired, PollHeld(b) \/ PollPressed(b)
      PROVE  FALSE
  BY <1>2 DEF PollHeld, PollPressed, PollNext, actuators
<1>3. ASSUME NEW c \in Instances, RunRemoved(c) \/ AddReplaces(c)
      PROVE  FALSE
  BY <1>3 DEF RunRemoved, AddReplaces, Added, Remove, Interrupt
<1>4. ASSUME NEW c \in Instances, RunCrashes(c) \/ AddIgnored(c) \/ AddStarts(c)
      PROVE  FALSE
  BY <1>4 DEF RunCrashes, AddIgnored, AddStarts, Added
<1>5. CASE RunDone \/ AddDone \/ UNCHANGED vars
  BY <1>5 DEF RunDone, AddDone, vars, actuators
<1>6. QED BY <1>1, <1>2, <1>3, <1>4, <1>5 DEF Next

(* Nothing is set moving by a robot that reads itself disabled, nor in test  *)
(* mode: a motor goes on only for a button the last poll saw down, the drive *)
(* only for the command driveSubsystem has, the last one that took it over,  *)
(* whatever mode the loop believes it is in.                               *)
MovesOnlyEnabled ==
  [][/\ on' \ on # {} => enabled' /\ mode # "test"
                         /\ \A m \in on' \ on : \E b \in pressedLast : m \in Command(b).starts
     /\ driving' /\ ~driving => enabled' /\ mode # "test" /\ currentCommand # None]_vars

(* Nothing starts to move but by a held button of an enabled robot.        *)
THEOREM OnlyEnabledMoves == Spec => MovesOnlyEnabled
<1> DEFINE Moves ==
      /\ on' \ on # {} => enabled' /\ mode # "test"
                          /\ \A m \in on' \ on : \E b \in pressedLast : m \in Command(b).starts
      /\ driving' /\ ~driving => enabled' /\ mode # "test" /\ currentCommand # None
<1>1. RobotInv /\ TestInv /\ [Next]_vars => Moves
  <2> SUFFICES ASSUME RobotInv, TestInv, [Next]_vars
               PROVE  Moves
    OBVIOUS
  <2>1. CASE pc' = "down"
    <3>1. on' = on \/ on' = {}
      BY <2>1 DEF Next, ModeLoop, RobotInit, DisabledPeriodic, AutonomousPeriodic,
             TeleopPeriodic, TestPeriodic, RunScheduler, PollHeld, PollPressed, PollNext,
             RunRemoved, RunExecuted, RunCrashes, Runs, RunDone, AddIgnored, AddStarts,
             AddReplaces, Added, AddDone, Wake, vars, actuators
    <3>2. driving' = driving \/ driving' = FALSE
      BY <2>1 DEF Next, ModeLoop, RobotInit, DisabledPeriodic, AutonomousPeriodic,
             TeleopPeriodic, TestPeriodic, RunScheduler, PollHeld, PollPressed, PollNext,
             RunRemoved, RunExecuted, RunCrashes, Runs, RunDone, AddIgnored, AddStarts,
             AddReplaces, Added, AddDone, Wake, vars, actuators
    <3>3. QED BY <3>1, <3>2
  <2>2. CASE pc' # "down" /\ (on' \ on # {} \/ (driving' /\ ~driving))
    <3>1. PICK c \in Instances : RunExecuted(c)
      BY <2>2, ExecutedSteps
    <3>2. /\ pc = "run" /\ enabled' = TRUE /\ cursor \in DOMAIN commands
          /\ c = commands[cursor] /\ c \notin canceled /\ on' = on \cup Command(c).starts
      BY <3>1 DEF RunExecuted, Runs
    <3>3. mode # "test" /\ c \in Range(commands)
      BY <3>2 DEF TestInv, TestWaits, Range
    <3>4. ASSUME NEW m \in on' \ on
          PROVE  \E b \in pressedLast : m \in Command(b).starts
      <4>1. m \in Command(c).starts
        BY <3>2, <3>4
      <4>2. Holding(c)
        BY <4>1, StartersAreHeld
      <4>3. QED BY <3>2, <3>3, <4>1, <4>2 DEF RobotInv, HeldInv, ScheduledHeld
    <3>5. driving' /\ ~driving => currentCommand # None
      <4>1. driving' /\ ~driving => Command(c).drive # "none"
        BY <3>1 DEF RunExecuted
      <4>2. Command(c).drive # "none" => c = currentCommand
        BY <3>3, CommandFacts DEF RobotInv, DriveInv, OneDriver
      <4>3. c # None
        BY DEF Instances, Buttons, TeleopInstances, None
      <4>4. QED BY <4>1, <4>2, <4>3
    <3>6. QED BY <3>2, <3>3, <3>4, <3>5
  <2>3. QED BY <2>1, <2>2
<1>2. Init => TestInv
  BY DEF Init, TestInv, NothingStarted, TestWaits, TestModeStopped
<1> HIDE DEF Moves
<1>3. Spec => [][Moves]_vars
  BY <1>1, <1>2, TestStep, RobotInvariant, PTL DEF Spec
<1>4. QED BY <1>3 DEF MovesOnlyEnabled, Moves

(* The drive is reversed only when a Flip command runs for the first time  *)
(* since it was added, for a button the last poll saw down: not on each run  *)
(* of a held button, which HeldKeepsRunning keeps initialized, and not by a   *)
(* release.  It is the step FlipSettles rests on.                          *)
FlipsOnPress ==
  [][flipped' # flipped /\ pc' # "down" =>
       enabled' /\ \E b \in pressedLast : Command(b).flips /\ b \in initialized' \ initialized]_vars

(* The direction flips once for a press, never for a hold.                 *)
THEOREM OnlyPressFlips == Spec => FlipsOnPress
<1> DEFINE Flips ==
      flipped' # flipped /\ pc' # "down" =>
        enabled' /\ \E b \in pressedLast : Command(b).flips /\ b \in initialized' \ initialized
<1>1. RobotInv /\ [Next]_vars => Flips
  <2> SUFFICES ASSUME RobotInv, [Next]_vars, flipped' # flipped, pc' # "down"
               PROVE  enabled' /\ \E b \in pressedLast :
                                    Command(b).flips /\ b \in initialized' \ initialized
    OBVIOUS
  <2>1. PICK c \in Instances : RunExecuted(c)
    BY ExecutedSteps
  <2>2. /\ enabled' = TRUE /\ cursor \in DOMAIN commands /\ c = commands[cursor]
        /\ c \notin canceled /\ initialized' = initialized \cup {c}
        /\ Command(c).flips /\ c \notin initialized
    BY <2>1 DEF RunExecuted, Runs, FlipOnStart
  <2>3. c \in Range(commands)
    BY <2>2 DEF Range
  <2>4. Holding(c)
    BY <2>2, FlippersAreHeld
  <2>5. c \in pressedLast
    BY <2>2, <2>3, <2>4 DEF RobotInv, HeldInv, ScheduledHeld
  <2>6. QED BY <2>2, <2>5
<1> HIDE DEF Flips
<1>2. Spec => [][Flips]_vars
  BY <1>1, RobotInvariant, PTL DEF Spec
<1>3. QED BY <1>2 DEF FlipsOnPress, Flips

(* The robot program uses the drive as DriveOutline, which DriveSubsystem  *)
(* implements, says: until it exits every step is one of the outline's or  *)
(* leaves the drive alone.  So what holds of the outline, such as tank()   *)
(* never letting go of its power, holds of the drive under this scheduler. *)
DriveUsed ==
  [][Arcade \/ Tank \/ MotorsCut \/ UNCHANGED <<driving, tankLatched>> \/ pc' = "down"]_vars

(* The program asks of the drive only what DriveOutline has.               *)
THEOREM UsesOutline == Spec => DriveUsed
<1> DEFINE Used ==
      Arcade \/ Tank \/ MotorsCut \/ UNCHANGED <<driving, tankLatched>> \/ pc' = "down"
<1>1. [Next]_vars => Used
  <2> SUFFICES ASSUME [Next]_vars
               PROVE  Arcade \/ Tank \/ MotorsCut \/ UNCHANGED <<driving, tankLatched>>
                        \/ pc' = "down"
    OBVIOUS
  <2>1. CASE TestPeriodic
    BY <2>1 DEF TestPeriodic, MotorsCut
  <2>2. ASSUME NEW c \in Instances, RunExecuted(c)
        PROVE  Arcade \/ Tank \/ UNCHANGED <<driving, tankLatched>>
    BY <2>2 DEF RunExecuted
  <2>3. CASE RobotInit \/ DisabledPeriodic \/ AutonomousPeriodic \/ TeleopPeriodic
    BY <2>3 DEF RobotInit, DisabledPeriodic, AutonomousPeriodic, TeleopPeriodic,
                RunScheduler, actuators
  <2>4. ASSUME NEW b \in Wired, PollHeld(b) \/ PollPressed(b)
        PROVE  UNCHANGED <<driving, tankLatched>>
    BY <2>4 DEF PollHeld, PollPressed, PollNext, actuators
  <2>5. ASSUME NEW c \in Instances, RunRemoved(c) \/ AddIgnored(c) \/ AddStarts(c) \/ AddReplaces(c)
        PROVE  UNCHANGED <<driving, tankLatched>>
    BY <2>5 DEF RunRemoved, AddIgnored, AddStarts, AddReplaces, Added
  <2>6. ASSUME NEW c \in Instances, RunCrashes(c)
        PROVE  pc' = "down"
    BY <2>6 DEF RunCrashes
  <2>7. CASE RunDone \/ AddDone \/ UNCHANGED vars
    BY <2>7 DEF RunDone, AddDone, vars, actuators
  <2>8. QED BY <2>1, <2>2, <2>3, <2>4, <2>5, <2>6, <2>7 DEF Next, ModeLoop
<1> HIDE DEF Used
<1>2. Spec => [][Used]_vars
  BY <1>1, PTL DEF Spec
<1>3. QED BY <1>2 DEF DriveUsed, Used
=============================================================================
