------------------------------- MODULE NucLink -------------------------------
(***************************************************************************)
(* The robot program and the vision computer (NUC) over one TCP            *)
(* connection: TCPSubsystem and the commands that use it on the robot,     *)
(* which accepts once; master.cpp and bridge.cpp on the NUC, which         *)
(* connects once and polls.  Robot.java does not create the subsystem      *)
(* (its lines are commented out); here it does.                            *)
(*                                                                         *)
(* A request is written byte by byte and may be read in any pieces, here   *)
(* the word and its newline.  Either program may be killed at any time,    *)
(* and its connections end; a write to a connection that has ended may     *)
(* still succeed.  A NUC that loses power ends nothing: the robot's side   *)
(* stays open, silent, until TCP finds out, if it ever does.  TCP is       *)
(* modelled from the programs' use of it.                                  *)
(*                                                                         *)
(* As committed, bridge.cpp:45 connects to 127.0.0.1 and has the robot's   *)
(* address in a comment: both programs would share a machine.  The model   *)
(* is of the two machines the comment speaks of.                           *)
(*                                                                         *)
(* "fault:" marks a plausible bug in the definition after it, as in        *)
(* TapeTracker.                                                            *)
(***************************************************************************)
EXTENDS TapeTracker, Sequences

CONSTANTS
  Callers,        \* the commands that are run, among AllCallers
  Center,         \* CAMERA_WIDTH / 2 of AutoTurnToBoilerBlue, in quarter pixels
  Tolerance,      \* its 50 pixels, in quarter pixels
  TooFar,         \* TOO_FAR and TOO_CLOSE: tape apart by so much is at that distance
  Buffered        \* what a socket holds of words or replies (a bound of the model)

AllCallers == {"AutoTurnToBoilerBlue", "TestNucOutput", "SendUDPPacket", "ReceiveTCPPacket"}

ASSUME LinkAssumption ==
  /\ Callers \subseteq AllCallers
  /\ Center \in Nat /\ Tolerance \in Nat /\ TooFar \in Nat
  /\ Tolerance >= 4                             \* a pixel
  /\ Center + Tolerance <= 4 * (Width \div 2)   \* 55 pixels and half of 640
  /\ Buffered \in Nat \ {0}

VARIABLES
  robot,       \* where the robot's thread is
  caller,      \* the command that uses the link
  toSend,      \* what writeBytes has still to write
  robotSide,   \* connectionSocket: "none", "live", "silent" or "ended"
  turn,        \* what AutoTurnToBoilerBlue did last
  stale,       \* how the connection in front of serverSocket's backlog was left, or "none"
  nuc,         \* where the NUC's thread is
  nucSide,     \* socket_num: "none", "queued", "live" or "dead"
  toNuc,       \* words under way to the NUC
  toRobot      \* replies sent and not returned by readLine

robotVars == <<robot, caller, toSend, turn>>
nucVars   == <<nuc>>
link      == <<robotSide, nucSide, stale, toNuc, toRobot>>
vars      == <<tracker, robotVars, nucVars, link>>

Init ==
  /\ TrackerInit
  /\ robot = "off" /\ caller = "none" /\ toSend = <<>> /\ turn = "none"
  /\ nuc = "off"
  /\ robotSide = "none" /\ nucSide = "none" /\ stale = "none"
  /\ toNuc = <<>> /\ toRobot = <<>>

Newline == "newline"
Blank == [found |-> FALSE]

----------------------------------------------------------------------------
(* The robot.                                                              *)

RobotKept == UNCHANGED <<tracker, nucVars>>

(* new ServerSocket(port); the constructor then waits in accept.           *)
RobotStart ==
  /\ program = "master"
  /\ robot \in {"off", "crashed"}
  /\ robot' = "accepting"
  /\ UNCHANGED <<caller, toSend, turn, link>> /\ RobotKept

(* accept returns the connection that came first, left or not, or throws,  *)
(* which leaves connectionSocket null.                                     *)
Accept ==
  /\ robot = "accepting"
  /\ \/ /\ stale # "none"
        /\ stale' = "none" /\ robotSide' = stale /\ UNCHANGED nucSide
     \/ /\ stale = "none" /\ nucSide = "queued"
        /\ robotSide' = "live" /\ nucSide' = "live" /\ UNCHANGED stale
     \/ UNCHANGED <<stale, robotSide, nucSide>>
  /\ robot' = "idle"
  /\ UNCHANGED <<caller, toSend, turn, toNuc, toRobot>> /\ RobotKept

(* The words a command sends, and whether it then reads.                   *)
Words(c) ==
  CASE c = "AutoTurnToBoilerBlue" -> <<"ball", Newline>>
    [] c = "TestNucOutput"        -> <<"ball">>
    [] c = "SendUDPPacket"        -> <<"hello world">>
    [] c = "ReceiveTCPPacket"     -> <<>>

Reads(c) == c # "SendUDPPacket"

Call(c) ==
  /\ robot = "idle"
  /\ robot' = "sending" /\ caller' = c /\ toSend' = Words(c)
  /\ UNCHANGED <<turn, link>> /\ RobotKept

\* fault: the NUC is not told
RobotEndsUnnoticed(how) ==
  /\ robot' = how
  /\ caller' = "none" /\ toSend' = <<>>
  /\ robotSide' = "none" /\ stale' = "none"
  /\ toRobot' = <<>> /\ toNuc' \in {toNuc, <<>>}
  /\ UNCHANGED <<turn, nucSide>> /\ RobotKept

(* The program exits.  Its sockets are closed; what it had sent may be     *)
(* thrown away with them.                                                  *)
RobotEnds(how) ==
  /\ robot' = how
  /\ caller' = "none" /\ toSend' = <<>>
  /\ robotSide' = "none" /\ stale' = "none"
  /\ nucSide' = IF nucSide = "none" THEN "none" ELSE "dead"
  /\ toRobot' = <<>> /\ toNuc' \in {toNuc, <<>>}
  /\ UNCHANGED turn /\ RobotKept

(* sendPacket, one write: without a connection it throws what nobody       *)
(* catches; on one that has ended it succeeds, or throws what sendPacket   *)
(* catches and the rest is not sent; on a silent one it is lost.  A full   *)
(* socket makes it wait.                                                   *)
SendPacket ==
  /\ robot = "sending" /\ toSend # <<>>
  /\ \/ robotSide = "none" /\ RobotEnds("crashed")
     \/ /\ \/ /\ robotSide = "live" /\ Len(toNuc) < Buffered
              /\ toNuc' = Append(toNuc, Head(toSend)) /\ toSend' = Tail(toSend)
           \/ robotSide = "silent" /\ toSend' = Tail(toSend) /\ UNCHANGED toNuc
           \/ robotSide = "ended" /\ toSend' \in {Tail(toSend), <<>>} /\ UNCHANGED toNuc
        /\ UNCHANGED <<robot, caller, turn, robotSide, nucSide, stale, toRobot>>
        /\ RobotKept

Sent ==
  /\ robot = "sending" /\ toSend = <<>>
  /\ robot' = IF Reads(caller) THEN "reading" ELSE "idle"
  /\ caller' = IF Reads(caller) THEN caller ELSE "none"
  /\ UNCHANGED <<toSend, turn, link>> /\ RobotKept

(* What AutoTurnToBoilerBlue asks of the drive.                            *)
Steered(answer) ==
  IF ~answer.found THEN "search"
  ELSE IF answer.x > Center - Tolerance /\ answer.x < Center + Tolerance
  THEN IF answer.distance.apart < TooFar THEN "forwards"
       ELSE IF answer.distance.apart > TooFar THEN "backwards" ELSE "stop"
  ELSE IF answer.x < Center + 4 THEN "left" ELSE "right"

(* The replies in a line that hold a measurement.                          *)
Measured(line) == {i \in DOMAIN line : line[i].found}

(* requestImageData dereferences the line, and two measurements run        *)
(* together into a number that does not parse: nobody catches either.      *)
Unreadable(line) == line = <<>> \/ \E i, j \in Measured(line) : i # j

(* requestImageData's data, and the loop of AutoTurnToBoilerBlue: it asks  *)
(* again until the robot is where it should be.                            *)
Aim(line) ==
  LET answer == IF Measured(line) = {} THEN Blank
                ELSE line[CHOOSE i \in Measured(line) : TRUE]
  IN  /\ turn' = Steered(answer)
      /\ IF turn' = "stop"
         THEN robot' = "idle" /\ caller' = "none" /\ UNCHANGED toSend
         ELSE robot' = "sending" /\ toSend' = Words(caller) /\ UNCHANGED caller

(* receivePacket: readLine returns at the end of the stream, as no reply   *)
(* has a newline; then it returns what came before it, or nothing, and a   *)
(* reset throws it away.  On a silent connection it waits as on a live one. *)
ReadLine ==
  /\ robot = "reading" /\ robotSide \notin {"live", "silent"}
  /\ \E line \in {toRobot, <<>>} :
       IF robotSide = "none" \/ (caller = "AutoTurnToBoilerBlue" /\ Unreadable(line))
       THEN RobotEnds("crashed")
       ELSE /\ toRobot' = <<>>
            /\ \/ caller = "AutoTurnToBoilerBlue" /\ Aim(line)
               \/ /\ caller # "AutoTurnToBoilerBlue"
                  /\ robot' = "idle" /\ caller' = "none" /\ UNCHANGED <<toSend, turn>>
            /\ UNCHANGED <<robotSide, nucSide, stale, toNuc>> /\ RobotKept

(* The robot is switched off or its program is restarted.                  *)
RobotKilled ==
  /\ robot \notin {"off", "crashed"}
  /\ RobotEnds("off")

----------------------------------------------------------------------------
(* The NUC.                                                                *)

NucStart ==
  /\ program = "master" /\ nuc = "off"
  /\ nuc' = "connecting"
  /\ UNCHANGED <<tracker, robotVars, link>>

(* create_socket tries until the robot listens.                            *)
NucConnects ==
  /\ nuc = "connecting" /\ robot \notin {"off", "crashed"}
  /\ nuc' = "setup" /\ nucSide' = "queued" /\ toNuc' = <<>>
  /\ UNCHANGED <<tracker, robotVars, robotSide, stale, toRobot>>

(* The program is gone and its end of the connection with it.  The robot's *)
(* end is left "ended" by a program that exits, "silent" by a NUC without  *)
(* power.                                                                  *)
NucEnds(left) ==
  /\ nuc' = "off" /\ nucSide' = "none" /\ toNuc' = <<>>
  /\ robotSide' = IF nucSide = "live" THEN left ELSE robotSide
  /\ stale' = IF nucSide = "queued" /\ stale = "none" THEN left ELSE stale
  /\ TrackerStart
  /\ UNCHANGED <<program, robotVars, toRobot>>

(* image_setup fails without a camera, which ends main.                    *)
NucSetup ==
  /\ nuc = "setup"
  /\ \/ NucEnds("ended")
     \/ /\ nuc' = "loop" /\ image_mode' = "ship"
        /\ UNCHANGED <<program, frame, tapeFound, actualDistance, actualX, robotVars, link>>

(* The mode a message asks for.                                            *)
ModeAsked(message) ==
  CASE message = <<"gear", Newline>> -> "ship"
    [] message = <<"ball", Newline>> -> "boiler"
    [] OTHER -> image_mode

(* receive_message takes what has arrived, of a connection that has ended  *)
(* too; without anything it is called again.                               *)
NucServes ==
  /\ nuc = "loop" /\ nucSide \in {"live", "dead"}
  /\ \E n \in 1 .. Len(toNuc) :
       /\ ImageUpdate(ModeAsked(SubSeq(toNuc, 1, n)))
       /\ toNuc' = SubSeq(toNuc, n + 1, Len(toNuc))
  /\ nuc' = "reply"
  /\ UNCHANGED <<robotVars, robotSide, nucSide, stale, toRobot>>

Reply == IF tapeFound THEN [found |-> TRUE, distance |-> actualDistance, x |-> actualX]
                      ELSE Blank

\* fault: without tape nothing is sent
NucReplyFound ==
  /\ nuc = "reply"
  /\ \/ nucSide = "dead" /\ NucEnds("ended")
     \/ /\ \/ nucSide = "live" /\ tapeFound /\ Len(toRobot) < Buffered
              /\ toRobot' = Append(toRobot, Reply)
           \/ (nucSide = "dead" \/ ~tapeFound) /\ UNCHANGED toRobot
        /\ nuc' = "loop" /\ frame' = NoFrame
        /\ UNCHANGED <<program, image_mode, tapeFound, actualDistance, actualX>>
        /\ UNCHANGED <<robotVars, robotSide, nucSide, stale, toNuc>>

(* send_message: one write without a newline; on a connection that has     *)
(* ended it is lost, or is the signal that ends the program.               *)
NucReply ==
  /\ nuc = "reply"
  /\ \/ nucSide = "dead" /\ NucEnds("ended")
     \/ /\ \/ nucSide = "live" /\ Len(toRobot) < Buffered /\ toRobot' = Append(toRobot, Reply)
           \/ nucSide = "dead" /\ UNCHANGED toRobot
        /\ nuc' = "loop" /\ frame' = NoFrame
        /\ UNCHANGED <<program, image_mode, tapeFound, actualDistance, actualX>>
        /\ UNCHANGED <<robotVars, robotSide, nucSide, stale, toNuc>>

(* The program is killed, or loses its camera: image_update throws on an   *)
(* empty frame.                                                            *)
NucKilled == nuc # "off" /\ NucEnds("ended")

(* The NUC is switched off or loses power, or its cable is pulled: no      *)
(* packet tells the robot.                                                 *)
NucLosesPower == nuc # "off" /\ NucEnds("silent")

(* What the robot sends to a silent connection is not acknowledged, or a   *)
(* NUC that is back refuses it: in the end the connection is reset.        *)
LinkReset ==
  /\ \/ robotSide = "silent" /\ robotSide' = "ended" /\ UNCHANGED stale
     \/ stale = "silent" /\ stale' = "ended" /\ UNCHANGED robotSide
  /\ UNCHANGED <<tracker, robotVars, nucVars, nucSide, toNuc, toRobot>>

----------------------------------------------------------------------------
Viewers == (OpencvTest \/ ImageCallback) /\ UNCHANGED <<robotVars, nucVars, link>>

Robot == RobotStart \/ Accept \/ (\E c \in Callers : Call(c)) \/ SendPacket \/ Sent
           \/ ReadLine \/ RobotKilled
Nuc == NucStart \/ NucConnects \/ NucSetup \/ NucServes \/ NucReply \/ NucKilled
         \/ NucLosesPower

Next == Robot \/ Nuc \/ LinkReset \/ Viewers

Spec == Init /\ [][Next]_vars

(* A started program runs.  Nobody has to start one, press a button or     *)
(* switch anything off; a write to a silent connection may wait for ever,  *)
(* and no timer has to find out that it is silent.                         *)
Fairness ==
  /\ WF_vars(robotSide # "silent" /\ SendPacket) /\ WF_vars(Sent) /\ WF_vars(ReadLine)
  /\ WF_vars(NucConnects) /\ WF_vars(NucSetup) /\ WF_vars(NucServes) /\ WF_vars(NucReply)

FairSpec == Spec /\ Fairness

----------------------------------------------------------------------------
Answers == {Blank} \cup [found : {TRUE}, distance : [actual : {"ship", "boiler"}, apart : Nat],
                         x : 0 .. 6 * Width]
SomeWords == {"ball", "hello world", Newline}

(* The two ends of a connection: what one side holds live the other holds  *)
(* live, only a robot past its constructor has one, and only a NUC past    *)
(* create_socket.  Nothing live is left in the backlog.                    *)
EndsAgree ==
  /\ robotSide = "live" <=> nucSide = "live"
  /\ stale # "live"
  /\ robotSide # "none" => robot \in {"idle", "sending", "reading"}
  /\ nucSide = "none" <=> nuc \in {"off", "connecting"}

(* The types, and the ends of the connection.                              *)
TypeOK ==
  /\ TrackerTypeOK
  /\ robot \in {"off", "accepting", "idle", "sending", "reading", "crashed"}
  /\ caller \in AllCallers \cup {"none"}
  /\ toSend \in Seq(SomeWords) /\ toNuc \in Seq(SomeWords) /\ toRobot \in Seq(Answers)
  /\ turn \in {"none", "search", "forwards", "backwards", "stop", "left", "right"}
  /\ nuc \in {"off", "connecting", "setup", "loop", "reply"}
  /\ robotSide \in {"none", "live", "silent", "ended"} /\ nucSide \in {"none", "queued", "live", "dead"}
  /\ stale \in {"none", "silent", "ended"}
  /\ EndsAgree

(* An answer is about the picture taken for this request: a tape seen in   *)
(* an earlier one (actualDistance and actualX outlive it) is not reported. *)
AnswerFresh ==
  nuc = "reply" =>
    /\ Reply.found <=> Cardinality(FindContours(OnlyGreen(frame))) > 1
    /\ Reply.found =>
         \E a, b \in FindContours(OnlyGreen(frame)) :
           /\ a # b
           /\ Reply.x = Middle(MinAreaRect(a), MinAreaRect(b))
           /\ Reply.distance = Distance(MinAreaRect(a), MinAreaRect(b), image_mode)

(* The NUC does its part: a robot that waits on a connection that stays up *)
(* has an answer under way in the end, in whatever pieces its request was  *)
(* read, with tape or without, and though other commands may have left     *)
(* replies nobody reads.                                                   *)
RequestServed ==
  robot = "reading" /\ robotSide = "live" ~> toRobot # <<>> \/ robotSide # "live"

(* What AutoTurnToBoilerBlue.java:38 says of requestImageData, "get        *)
(* distance and x position": on a connection that stays up the request is  *)
(* answered.  It is not: readLine waits for a newline no reply has.        *)
RequestAnswered ==
  robot = "reading" /\ robotSide = "live" ~> robot # "reading" \/ robotSide # "live"

(* The middle of the tape is nearer to the middle of the picture than the  *)
(* tolerance of AutoTurnToBoilerBlue.                                      *)
TapeAhead(picture) ==
  \A pair \in FirstTwo(FindContours(OnlyGreen(picture))) :
    Apart(MinAreaRect(pair[1]).center[1] + MinAreaRect(pair[2]).center[1], 2 * (Width - 1))
      < Tolerance

(* What AutoTurnToBoilerBlue.java:47 says, "if not in centre, turn", and   *)
(* its line 58, "if not in center": a robot that never has the tape but in *)
(* the centre does not turn.  It does: the two minuses of the measurement  *)
(* cancel, and the centre it is compared with is 5 pixels.                 *)
CentredIsNotTurned ==
  (\A picture \in Frames : TapeAhead(picture)) => turn \notin {"left", "right"}
=============================================================================
