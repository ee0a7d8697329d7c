---------------------------- MODULE NucLinkProofs ----------------------------
(***************************************************************************)
(* Theorems about NucLink, for every frame, kernel and set of callers.     *)
(*                                                                         *)
(* What they need to know of contours is proved in TapeTrackerProofs.      *)
(***************************************************************************)
EXTENDS NucLink, TapeTrackerProofs

----------------------------------------------------------------------------
(* Strips of tape.  GapsAreWide holds of every picture, so of the one the  *)
(* tracker works on: nothing has to be known of earlier steps.             *)

(* Two contours in one row or one column are more than a whole filter      *)
(* apart, in every state of every run, for every frame and kernel.         *)
THEOREM GapsAreAlwaysWide == Spec => []GapWiderThanKernel
BY GapsAreWide, PTL

----------------------------------------------------------------------------
(* The connection.  Every action leaves both ends alone, ends the robot's  *)
(* or the NUC's program, or is one of two that make a connection.          *)

Up == {"idle", "sending", "reading"}
Unconnected == {"off", "connecting"}

(* All but these leave both ends of the connection as they are.            *)
LEMMA LinkSteps ==
  ASSUME Next
  PROVE  \/ /\ UNCHANGED <<robotSide, nucSide, stale>>
            /\ robot \in Up => robot' \in Up
            /\ nuc \in Unconnected <=> nuc' \in Unconnected
         \/ \E how \in {"off", "crashed"} : RobotEnds(how)
         \/ \E left \in {"ended", "silent"} : NucEnds(left)
         \/ LinkReset
         \/ Accept
         \/ NucConnects
<1> USE DEF Up, Unconnected
<1>1. CASE Robot
  <2>1. CASE RobotStart
    BY <2>1 DEF RobotStart, RobotKept, link, nucVars
  <2>2. CASE \E c \in Callers : Call(c)
    BY <2>2 DEF Call, RobotKept, link, nucVars
  <2>3. CASE SendPacket
    BY <2>3 DEF SendPacket, RobotKept, nucVars
  <2>4. CASE Sent
    BY <2>4 DEF Sent, RobotKept, link, nucVars
  <2>5. CASE ReadLine
    BY <2>5 DEF ReadLine, Aim, RobotKept, nucVars
  <2>6. CASE RobotKilled
    BY <2>6 DEF RobotKilled
  <2>7. QED BY <1>1, <2>1, <2>2, <2>3, <2>4, <2>5, <2>6 DEF Robot
<1>2. CASE Nuc
  <2>1. CASE \E left \in {"ended", "silent"} : NucEnds(left)
    BY <2>1
  <2>2. CASE ~\E left \in {"ended", "silent"} : NucEnds(left)
    BY <1>2, <2>2 DEF Nuc, NucStart, NucSetup, NucServes, NucReply, NucKilled, NucLosesPower,
                      robotVars, link
  <2>3. QED BY <2>1, <2>2
<1>3. CASE Viewers
  BY <1>3 DEF Viewers, robotVars, nucVars, link
<1>4. QED BY <1>1, <1>2, <1>3 DEF Next

(* Accept and NucConnects make both ends of what they make; a program that *)
(* ends takes its own end with it and changes the other's.                 *)
LEMMA EndsStep == EndsAgree /\ [Next]_vars => EndsAgree'
<1> SUFFICES ASSUME EndsAgree, [Next]_vars PROVE EndsAgree'
  OBVIOUS
<1> USE DEF EndsAgree, Up, Unconnected
<1>1. CASE UNCHANGED vars
  BY <1>1 DEF vars, robotVars, nucVars, link
<1>2. CASE /\ UNCHANGED <<robotSide, nucSide, stale>>
           /\ robot \in Up => robot' \in Up
           /\ nuc \in Unconnected <=> nuc' \in Unconnected
  BY <1>2
<1>3. CASE \E how \in {"off", "crashed"} : RobotEnds(how)
  BY <1>3 DEF RobotEnds, RobotKept, nucVars
<1>4. CASE \E left \in {"ended", "silent"} : NucEnds(left)
  BY <1>4 DEF NucEnds, robotVars
<1>5. CASE Accept
  <2>1. CASE UNCHANGED nucSide /\ robotSide' # "live"
    BY <1>5, <2>1 DEF Accept, RobotKept, nucVars
  <2>2. CASE ~(UNCHANGED nucSide /\ robotSide' # "live")
    BY <1>5, <2>2 DEF Accept, RobotKept, nucVars
  <2>3. QED BY <2>1, <2>2
<1>6. CASE NucConnects
  BY <1>6 DEF NucConnects, robotVars
<1>7. CASE LinkReset
  BY <1>7 DEF LinkReset, robotVars, nucVars
<1>8. QED BY <1>1, <1>2, <1>3, <1>4, <1>5, <1>6, <1>7, LinkSteps

(* Whoever is killed when: an end is live exactly as long as the other is, *)
(* and none is left to a program that does not run.                        *)
THEOREM EndsAlwaysAgree == Spec => []EndsAgree
<1>1. Init => EndsAgree
  BY DEF Init, EndsAgree
<1>2. QED BY <1>1, EndsStep, PTL DEF Spec

(* accept is called once: a robot past its constructor whose connection is *)
(* not live gets no live one until its program restarts, though a NUC that *)
(* starts again is connected to its backlog and polls for requests.        *)
LostUntilRestart ==
  [][(robot \in Up /\ robotSide # "live") => robotSide' # "live"]_vars

(* A connection that was lost stays lost until the robot program starts    *)
(* again: nothing but the constructor accepts one.                         *)
THEOREM LostStaysLost == Spec => LostUntilRestart
<1>1. [Next]_vars => [(robot \in Up /\ robotSide # "live") => robotSide' # "live"]_vars
  <2> SUFFICES ASSUME [Next]_vars, robot \in Up, robotSide # "live"
               PROVE  robotSide' # "live"
    OBVIOUS
  <2>1. CASE UNCHANGED vars
    BY <2>1 DEF vars, link
  <2>2. CASE \E how \in {"off", "crashed"} : RobotEnds(how)
    BY <2>2 DEF RobotEnds
  <2>3. CASE (\E left \in {"ended", "silent"} : NucEnds(left)) \/ LinkReset
    BY <2>3 DEF NucEnds, LinkReset
  <2>4. CASE NucConnects \/ UNCHANGED <<robotSide, nucSide, stale>>
    BY <2>4 DEF NucConnects
  <2>5. CASE Accept
    BY <2>5 DEF Accept, Up
  <2>6. QED BY <2>1, <2>2, <2>3, <2>4, <2>5, LinkSteps
<1>2. QED BY <1>1, PTL DEF Spec, LostUntilRestart

----------------------------------------------------------------------------
(* Aiming.                                                                 *)

(* Whatever lies right of the picture's middle lies beyond the tolerance.  *)
LEMMA FarIsRight ==
  ASSUME NEW answer, answer.found, answer.x \in Int, answer.x >= 4 * (Width \div 2)
  PROVE  Steered(answer) = "right"
<1>1. /\ Center \in Int /\ Tolerance \in Nat /\ Tolerance >= 4 /\ Width \div 2 \in Int
      /\ Center + Tolerance <= 4 * (Width \div 2)
  BY LinkAssumption, TrackerAssumption
<1>2. ~(answer.x < Center + Tolerance) /\ ~(answer.x < Center + 4)
  BY <1>1
<1>3. QED BY <1>2 DEF Steered

(* Two strips of tape anywhere in the picture are to the right of where    *)
(* AutoTurnToBoilerBlue wants them: it turns, whatever their distance.     *)
THEOREM TapeIsAlwaysRight ==
  ASSUME NEW rect1 \in [size : Nat, center : Nat \X Nat],
         NEW rect2 \in [size : Nat, center : Nat \X Nat],
         NEW distance
  PROVE  Steered([found |-> TRUE, distance |-> distance, x |-> Middle(rect1, rect2)]) = "right"
<1>1. Middle(rect1, rect2) \in Int /\ Middle(rect1, rect2) >= 4 * (Width \div 2)
  BY TrackerAssumption DEF Middle
<1>2. QED BY <1>1, FarIsRight

----------------------------------------------------------------------------
(* Answers.  The invariant needs that the viewers, which use the tracker's *)
(* state too, are other programs.                                          *)

NucIsMaster == nuc # "off" => program = "master"

(* Between the picture and its reply nothing touches the tracker.          *)
LEMMA ReplySteps ==
  ASSUME NucIsMaster, [Next]_vars, nuc' = "reply"
  PROVE  \/ \E mode \in {"ship", "boiler", image_mode} : ImageUpdate(mode)
         \/ nuc = "reply" /\ UNCHANGED tracker
<1>1. CASE UNCHANGED vars
  BY <1>1 DEF vars, nucVars
<1>2. CASE Robot
  BY <1>2 DEF Robot, RobotStart, Accept, Call, SendPacket, Sent, ReadLine, RobotKilled, RobotEnds,
              RobotKept, nucVars
<1>3. CASE NucServes
  <2>1. PICK n \in 1 .. Len(toNuc) : ImageUpdate(ModeAsked(SubSeq(toNuc, 1, n)))
    BY <1>3 DEF NucServes
  <2>2. ModeAsked(SubSeq(toNuc, 1, n)) \in {"ship", "boiler", image_mode}
    BY DEF ModeAsked
  <2>3. QED BY <2>1, <2>2
<1>4. CASE NucStart \/ NucConnects \/ NucSetup \/ NucReply \/ NucKilled \/ NucLosesPower
  BY <1>4 DEF NucStart, NucConnects, NucSetup, NucReply, NucKilled, NucLosesPower, NucEnds
<1>5. CASE Viewers \/ LinkReset
  BY <1>5 DEF Viewers, OpencvTest, ImageCallback, LinkReset, NucIsMaster, nucVars
<1>6. QED BY <1>1, <1>2, <1>3, <1>4, <1>5 DEF Next, Nuc

(* A NUC that runs is master.cpp, and stays it.                            *)
LEMMA MasterStep == NucIsMaster /\ [Next]_vars => NucIsMaster'
<1> SUFFICES ASSUME NucIsMaster, [Next]_vars PROVE NucIsMaster'
  OBVIOUS
<1> USE DEF NucIsMaster
<1>1. CASE UNCHANGED vars
  BY <1>1 DEF vars, tracker, nucVars
<1>2. CASE Robot
  BY <1>2 DEF Robot, RobotStart, Accept, Call, SendPacket, Sent, ReadLine, RobotKilled, RobotEnds,
              RobotKept, nucVars, tracker
<1>3. CASE Nuc
  BY <1>3 DEF Nuc, NucStart, NucConnects, NucSetup, NucServes, ImageUpdate, NucReply, NucKilled,
              NucLosesPower, NucEnds, tracker
<1>4. CASE Viewers \/ LinkReset
  BY <1>4 DEF Viewers, OpencvTest, ImageCallback, LinkReset, nucVars, tracker
<1>5. QED BY <1>1, <1>2, <1>3, <1>4 DEF Next

(* A picture that was measured: what the reply will say is about it.       *)
LEMMA UpdateIsFresh ==
  ASSUME NEW mode, ImageUpdate(mode)
  PROVE  AnswerFresh'
<1> DEFINE contours == FindContours(OnlyGreen(frame'))
<1>1. CASE Cardinality(contours) > 1
  <2>1. PICK pair \in FirstTwo(contours) :
          /\ actualDistance' = Distance(MinAreaRect(pair[1]), MinAreaRect(pair[2]), image_mode')
          /\ actualX' = Middle(MinAreaRect(pair[1]), MinAreaRect(pair[2]))
          /\ tapeFound' = TRUE
    BY <1>1 DEF ImageUpdate, Contours
  <2>2. pair[1] \in contours /\ pair[2] \in contours /\ pair[1] # pair[2]
    BY <2>1 DEF FirstTwo
  <2>3. Reply' = [found |-> TRUE, distance |-> actualDistance', x |-> actualX']
    BY <2>1 DEF Reply
  <2>4. QED BY <1>1, <2>1, <2>2, <2>3 DEF AnswerFresh
<1>2. CASE ~(Cardinality(contours) > 1)
  <2>1. Reply' = Blank
    BY <1>2 DEF ImageUpdate, Contours, Reply
  <2>2. QED BY <1>2, <2>1 DEF AnswerFresh, Blank
<1>3. QED BY <1>1, <1>2

(* Every reply is about the picture taken for it, whatever was measured    *)
(* before, in whatever pieces the requests come, and in the mode of the    *)
(* request: the globals that outlive a picture never reach a reply.        *)
THEOREM AnswersAreFresh == Spec => []AnswerFresh
<1>1. Init => NucIsMaster /\ AnswerFresh
  BY DEF Init, NucIsMaster, AnswerFresh
<1>2. NucIsMaster /\ AnswerFresh /\ [Next]_vars => AnswerFresh'
  <2> SUFFICES ASSUME NucIsMaster, AnswerFresh, [Next]_vars PROVE AnswerFresh'
    OBVIOUS
  <2>1. CASE nuc' # "reply"
    BY <2>1 DEF AnswerFresh
  <2>2. CASE \E mode : ImageUpdate(mode)
    BY <2>2, UpdateIsFresh
  <2>3. CASE nuc' = "reply" /\ nuc = "reply" /\ UNCHANGED tracker
    BY <2>3 DEF AnswerFresh, Reply, tracker
  <2>4. QED BY <2>1, <2>2, <2>3, ReplySteps
<1>3. QED BY <1>1, <1>2, MasterStep, PTL DEF Spec
----------------------------------------------------------------------------
(* Types, and what the robot makes of the answers.                         *)

RightHalf(x) == x >= 4 * (Width \div 2)

(* A picture's contours, measured: the first two found give a distance and *)
(* a middle in the right half, fewer give no tape.                         *)
LEMMA ContoursTyped ==
  ASSUME TrackerTypeOK, NEW image \in SUBSET Pixels, Contours(image),
         image_mode' \in {"ship", "boiler"}
  PROVE  /\ tapeFound' \in BOOLEAN /\ actualX' \in 0 .. 6 * Width
         /\ actualDistance' \in [actual : {"ship", "boiler"}, apart : Nat]
         /\ tapeFound' => RightHalf(actualX')
<1>1. CASE tapeFound' = FALSE /\ UNCHANGED <<actualDistance, actualX>>
  BY <1>1 DEF TrackerTypeOK
<1>2. CASE \E pair \in FirstTwo(FindContours(image)) :
             /\ actualDistance' = Distance(MinAreaRect(pair[1]), MinAreaRect(pair[2]), image_mode')
             /\ actualX' = Middle(MinAreaRect(pair[1]), MinAreaRect(pair[2]))
             /\ tapeFound' = TRUE
  <2>1. PICK pair \in FirstTwo(FindContours(image)) :
          /\ actualDistance' = Distance(MinAreaRect(pair[1]), MinAreaRect(pair[2]), image_mode')
          /\ actualX' = Middle(MinAreaRect(pair[1]), MinAreaRect(pair[2]))
          /\ tapeFound' = TRUE
    BY <1>2
  <2> DEFINE rect1 == MinAreaRect(pair[1])  rect2 == MinAreaRect(pair[2])
  <2>2. pair[1] \in FindContours(image) /\ pair[2] \in FindContours(image)
    BY <2>1 DEF FirstTwo
  <2>3. /\ rect1.center[1] \in 0 .. 2 * Width - 2 /\ rect1.center[2] \in 0 .. 2 * Height - 2
        /\ rect2.center[1] \in 0 .. 2 * Width - 2 /\ rect2.center[2] \in 0 .. 2 * Height - 2
    <3>1. /\ rect1.center \in (0 .. 2 * Width - 2) \X (0 .. 2 * Height - 2)
          /\ rect2.center \in (0 .. 2 * Width - 2) \X (0 .. 2 * Height - 2)
      BY <2>2, BoxesInFrame
    <3>2. QED BY <3>1
  <2> HIDE DEF rect1, rect2
  <2>4. Width \in Nat /\ Height \in Nat /\ 4 * (Width \div 2) \in 0 .. 2 * Width
    BY TrackerAssumption
  <2>5. Middle(rect1, rect2) \in 0 .. 6 * Width /\ RightHalf(Middle(rect1, rect2))
    BY <2>3, <2>4 DEF Middle, RightHalf
  <2>6. Distance(rect1, rect2, image_mode') \in [actual : {"ship", "boiler"}, apart : Nat]
    <3>1. \A n \in Int : Square(n) \in Nat
      BY DEF Square
    <3>2. /\ Square(rect1.center[1] - rect2.center[1]) \in Nat
          /\ Square(rect1.center[2] - rect2.center[2]) \in Nat
      BY <2>3, <2>4, <3>1
    <3>3. QED BY <3>2 DEF Distance
  <2>7. QED BY <2>1, <2>5, <2>6 DEF rect1, rect2
<1>3. QED BY <1>1, <1>2 DEF Contours

(* The same of a whole image_update.                                       *)
LEMMA UpdateTyped ==
  ASSUME TrackerTypeOK, NEW mode \in {"ship", "boiler"}, ImageUpdate(mode)
  PROVE  TrackerTypeOK' /\ (tapeFound' => RightHalf(actualX'))
<1>1. frame' \in [Pixels -> Colours] /\ image_mode' \in {"ship", "boiler"} /\ UNCHANGED program
  BY TrackerAssumption DEF ImageUpdate
<1>2. OnlyGreen(frame') \in SUBSET Pixels
  BY DEF OnlyGreen, Erosion
<1>3. Contours(OnlyGreen(frame'))
  BY DEF ImageUpdate
<1>4. QED BY <1>1, <1>2, <1>3, ContoursTyped DEF TrackerTypeOK

(* Of buffers and requests.                                                *)
LEMMA EmptySeq == \A S : <<>> \in Seq(S)
OBVIOUS

(* Every command sends a sequence of words.                                *)
LEMMA WordsTyped == \A c \in AllCallers : Words(c) \in Seq(SomeWords)
<1> SUFFICES ASSUME NEW c \in AllCallers PROVE Words(c) \in Seq(SomeWords)
  OBVIOUS
<1>1. "ball" \in SomeWords /\ "hello world" \in SomeWords /\ Newline \in SomeWords
  BY DEF SomeWords
<1>2. \A S : \A a, b \in S : <<a>> \in Seq(S) /\ <<a, b>> \in Seq(S)
  OBVIOUS
<1>3. /\ <<"ball", Newline>> \in Seq(SomeWords) /\ <<"ball">> \in Seq(SomeWords)
      /\ <<"hello world">> \in Seq(SomeWords)
  BY <1>1, <1>2
<1>4. Words(c) \in {<<"ball", Newline>>, <<"ball">>, <<"hello world">>, <<>>}
  BY Zenon DEF AllCallers, Words
<1>5. QED BY <1>3, <1>4, EmptySeq

(* Any message leaves the tracker in one of its two modes.                 *)
LEMMA ModeTyped == \A message : TrackerTypeOK => ModeAsked(message) \in {"ship", "boiler"}
BY DEF ModeAsked, TrackerTypeOK

(* The types but EndsAgree, which is proved above.                         *)
LinkTypes ==
  /\ TrackerTypeOK
  /\ robot \in {"off", "accepting", "idle", "sending", "reading", "crashed"}
  /\ caller \in AllCallers \cup {"none"}
  /\ robot \in {"sending", "reading"} => caller \in AllCallers
  /\ toSend \in Seq(SomeWords) /\ toNuc \in Seq(SomeWords) /\ toRobot \in Seq(Answers)
  /\ turn \in {"none", "search", "forwards", "backwards", "stop", "left", "right"}
  /\ nuc \in {"off", "connecting", "setup", "loop", "reply"}
  /\ robotSide \in {"none", "live", "silent", "ended"}
  /\ nucSide \in {"none", "queued", "live", "dead"}
  /\ stale \in {"none", "silent", "ended"}

(* No program runs and nothing is under way.                               *)
LEMMA TypesInit == Init => LinkTypes
<1> SUFFICES ASSUME Init PROVE LinkTypes
  OBVIOUS
<1>1. program \in {"master", "image_subscriber", "opencv_test"}
  BY TrackerAssumption DEF Init, TrackerInit
<1>2. 0 \in 0 .. 6 * Width /\ 0 \in Nat
  BY TrackerAssumption
<1>3. TrackerTypeOK
  BY <1>1, <1>2 DEF Init, TrackerInit, TrackerTypeOK
<1>4. QED BY <1>3, EmptySeq DEF Init, LinkTypes

(* Every answer makes AutoTurnToBoilerBlue do something.                   *)
LEMMA SteeredTyped ==
  \A answer : Steered(answer) \in {"search", "forwards", "backwards", "stop", "left", "right"}
BY DEF Steered

(* After an answer it asks again, or is done.                              *)
LEMMA AimTyped ==
  ASSUME LinkTypes, robot = "reading", NEW line, Aim(line)
  PROVE  /\ robot' \in {"idle", "sending"} /\ caller' \in AllCallers \cup {"none"}
         /\ robot' = "sending" => caller' \in AllCallers
         /\ toSend' \in Seq(SomeWords)
         /\ turn' \in {"search", "forwards", "backwards", "stop", "left", "right"}
<1>1. turn' \in {"search", "forwards", "backwards", "stop", "left", "right"}
  BY SteeredTyped DEF Aim
<1>2. /\ \/ robot' = "idle" /\ caller' = "none" /\ UNCHANGED toSend
         \/ robot' = "sending" /\ toSend' = Words(caller) /\ UNCHANGED caller
  BY DEF Aim
<1>3. caller \in AllCallers
  BY DEF LinkTypes
<1>4. QED BY <1>1, <1>2, <1>3, WordsTyped DEF LinkTypes

(* Action by action, the robot keeps the types, ...                        *)
LEMMA RobotTyped == LinkTypes /\ Robot => LinkTypes'
<1> SUFFICES ASSUME LinkTypes, Robot PROVE LinkTypes'
  OBVIOUS
<1> USE DEF RobotKept, tracker, nucVars, link
<1>1. ASSUME NEW how \in {"off", "crashed"}, RobotEnds(how)
      PROVE  LinkTypes'
  <2>1. TrackerTypeOK'
    BY <1>1 DEF RobotEnds, LinkTypes, TrackerTypeOK
  <2>2. toSend' \in Seq(SomeWords) /\ toNuc' \in Seq(SomeWords) /\ toRobot' \in Seq(Answers)
    BY <1>1, EmptySeq DEF RobotEnds, LinkTypes
  <2>3. QED BY <1>1, <2>1, <2>2 DEF RobotEnds, LinkTypes
<1>2. CASE RobotStart
  BY <1>2 DEF RobotStart, LinkTypes, TrackerTypeOK
<1>3. CASE Accept
  <2>1. TrackerTypeOK' /\ UNCHANGED <<caller, toSend, turn, toNuc, toRobot, nuc>> /\ robot' = "idle"
    BY <1>3 DEF Accept, LinkTypes, TrackerTypeOK
  <2>2. /\ robotSide' \in {"none", "live", "silent", "ended"}
        /\ nucSide' \in {"none", "queued", "live", "dead"}
        /\ stale' \in {"none", "silent", "ended"}
    BY <1>3 DEF Accept, LinkTypes
  <2>3. QED BY <2>1, <2>2 DEF LinkTypes
<1>4. CASE \E c \in Callers : Call(c)
  <2>1. PICK c \in Callers : Call(c)
    BY <1>4
  <2>2. c \in AllCallers /\ Words(c) \in Seq(SomeWords)
    BY LinkAssumption, WordsTyped
  <2>3. QED BY <2>1, <2>2 DEF Call, LinkTypes, TrackerTypeOK
<1>5. CASE SendPacket
  <2>1. CASE RobotEnds("crashed")
    BY <1>1, <2>1
  <2>2. CASE ~RobotEnds("crashed")
    <3>1. Head(toSend) \in SomeWords /\ Tail(toSend) \in Seq(SomeWords)
      BY <1>5 DEF SendPacket, LinkTypes
    <3>2. Append(toNuc, Head(toSend)) \in Seq(SomeWords)
      BY <3>1 DEF LinkTypes
    <3>3. toSend' \in Seq(SomeWords) /\ toNuc' \in Seq(SomeWords)
      <4>1. CASE toNuc' = Append(toNuc, Head(toSend)) /\ toSend' = Tail(toSend)
        BY <3>1, <3>2, <4>1
      <4>2. CASE toSend' \in {Tail(toSend), <<>>} /\ UNCHANGED toNuc   \* silent or ended
        BY <3>1, <4>2, EmptySeq DEF LinkTypes
      <4>3. QED BY <1>5, <2>2, <4>1, <4>2 DEF SendPacket
    <3>4. UNCHANGED <<tracker, nuc, robot, caller, turn, robotSide, nucSide, stale, toRobot>>
      BY <1>5, <2>2 DEF SendPacket
    <3>5. QED BY <3>3, <3>4 DEF LinkTypes, TrackerTypeOK
  <2>3. QED BY <2>1, <2>2
<1>6. CASE Sent
  BY <1>6 DEF Sent, LinkTypes, TrackerTypeOK
<1>7. CASE ReadLine
  <2>1. CASE RobotEnds("crashed")
    BY <1>1, <2>1
  <2>2. CASE ~RobotEnds("crashed")
    <3>1. /\ toRobot' = <<>> /\ UNCHANGED <<tracker, nuc, robotSide, nucSide, stale, toNuc>>
          /\ \/ \E line : Aim(line)
             \/ robot' = "idle" /\ caller' = "none" /\ UNCHANGED <<toSend, turn>>
      BY <1>7, <2>2 DEF ReadLine
    <3>2. robot = "reading"
      BY <1>7 DEF ReadLine
    <3>3. QED BY <3>1, <3>2, AimTyped DEF LinkTypes, TrackerTypeOK
  <2>3. QED BY <2>1, <2>2
<1>8. CASE RobotKilled
  BY <1>1, <1>8 DEF RobotKilled
<1>9. QED BY <1>2, <1>3, <1>4, <1>5, <1>6, <1>7, <1>8 DEF Robot

(* ... the NUC, ...                                                        *)
LEMMA NucTyped == LinkTypes /\ Nuc => LinkTypes'
<1> SUFFICES ASSUME LinkTypes, Nuc PROVE LinkTypes'
  OBVIOUS
<1> USE DEF tracker, robotVars, link
<1>1. ASSUME NEW left \in {"ended", "silent"}, NucEnds(left) PROVE LinkTypes'
  <2>1. 0 \in 0 .. 6 * Width /\ 0 \in Nat
    BY TrackerAssumption
  <2>2. TrackerTypeOK'
    BY <1>1, <2>1 DEF NucEnds, TrackerStart, TrackerTypeOK, LinkTypes
  <2>3. QED BY <1>1, <2>2, EmptySeq DEF NucEnds, LinkTypes
<1>2. CASE NucStart \/ NucConnects
  <2>1. TrackerTypeOK' /\ toNuc' \in Seq(SomeWords)
    BY <1>2, EmptySeq DEF NucStart, NucConnects, LinkTypes, TrackerTypeOK
  <2>2. QED BY <1>2, <2>1 DEF NucStart, NucConnects, LinkTypes
<1>3. CASE NucSetup
  <2>1. CASE NucEnds("ended")
    BY <1>1, <2>1
  <2>2. CASE ~NucEnds("ended")
    BY <1>3, <2>2 DEF NucSetup, LinkTypes, TrackerTypeOK
  <2>3. QED BY <2>1, <2>2
<1>4. CASE NucServes
  <2>1. PICK n \in 1 .. Len(toNuc) :
          /\ ImageUpdate(ModeAsked(SubSeq(toNuc, 1, n)))
          /\ toNuc' = SubSeq(toNuc, n + 1, Len(toNuc))
    BY <1>4 DEF NucServes
  <2>2. TrackerTypeOK'
    BY <2>1, ModeTyped, UpdateTyped DEF LinkTypes
  <2>3. toNuc' \in Seq(SomeWords)
    BY <2>1 DEF LinkTypes
  <2>4. QED BY <1>4, <2>2, <2>3 DEF NucServes, LinkTypes
<1>5. CASE NucReply
  <2>1. CASE NucEnds("ended")
    BY <1>1, <2>1
  <2>2. CASE ~NucEnds("ended")
    <3>1. Reply \in Answers
      BY DEF Reply, Answers, LinkTypes, TrackerTypeOK
    <3>2. Append(toRobot, Reply) \in Seq(Answers)
      BY <3>1 DEF LinkTypes
    <3>3. QED BY <1>5, <2>2, <3>2 DEF NucReply, LinkTypes, TrackerTypeOK
  <2>3. QED BY <2>1, <2>2
<1>6. CASE NucKilled \/ NucLosesPower
  BY <1>1, <1>6 DEF NucKilled, NucLosesPower
<1>7. QED BY <1>2, <1>3, <1>4, <1>5, <1>6 DEF Nuc

(* ... a reset that comes late, ...                                        *)
LEMMA ResetTyped == LinkTypes /\ LinkReset => LinkTypes'
BY DEF LinkReset, LinkTypes, TrackerTypeOK, tracker, robotVars, nucVars

(* ... and the viewers, which change nothing of the link.                  *)
LEMMA ViewersTyped == LinkTypes /\ Viewers => LinkTypes'
<1>1. \A original : OpencvTestLine(original) \in BOOLEAN /\ SubscriberLine(original) \in BOOLEAN
  BY DEF OpencvTestLine, SubscriberLine
<1>2. QED BY <1>1, TrackerAssumption DEF Viewers, OpencvTest, ImageCallback, LinkTypes, TrackerTypeOK,
             robotVars, nucVars, link

(* So every step keeps the types.                                          *)
LEMMA TypesStep == LinkTypes /\ [Next]_vars => LinkTypes'
<1>1. LinkTypes /\ UNCHANGED vars => LinkTypes'
  BY DEF LinkTypes, TrackerTypeOK, vars, tracker, robotVars, nucVars, link
<1>2. QED BY <1>1, RobotTyped, NucTyped, ResetTyped, ViewersTyped DEF Next

(* Every variable of both programs keeps its type, and the ends of the     *)
(* connection agree, for every frame, kernel, buffer and set of callers.   *)
THEOREM TypeCorrect == Spec => []TypeOK
<1>1. LinkTypes /\ [Next]_vars => LinkTypes'
  BY TypesStep
<1>2. Spec => []LinkTypes
  BY <1>1, TypesInit, PTL DEF Spec
<1>3. LinkTypes /\ EndsAgree => TypeOK
  BY DEF LinkTypes, TypeOK
<1>4. QED BY <1>2, <1>3, EndsAlwaysAgree, PTL
----------------------------------------------------------------------------
(* Where the robot aims.  Whatever is measured lies in the right half of   *)
(* the picture, in the tracker and in the replies under way.               *)

(* The program that aims turns the same way whatever the camera sees, or   *)
(* searches.  This is how it comes about that CentredIsNotTurned is        *)
(* violated: the sign in contours puts every measurement in the right half *)
(* of the picture, and AutoTurnToBoilerBlue compares it with 5 pixels.     *)
AimsOneWay == turn \in {"none", "search", "right"}

RightOnly ==
  /\ program = "master" /\ tapeFound => RightHalf(actualX)
  /\ \A i \in DOMAIN toRobot : toRobot[i].found => RightHalf(toRobot[i].x)
  /\ AimsOneWay

(* Every line readLine may return is the replies under way, or nothing.    *)
LEMMA AimIsRight ==
  ASSUME LinkTypes, RightOnly, NEW line \in {toRobot, <<>>}, Aim(line)
  PROVE  turn' \in {"search", "right"}
<1>1. CASE Measured(line) = {}
  BY <1>1 DEF Aim, Steered, Blank
<1>2. CASE Measured(line) # {}
  <2> DEFINE i == CHOOSE i \in Measured(line) : TRUE
             answer == line[i]
  <2>1. i \in DOMAIN line /\ answer.found
    BY <1>2 DEF Measured
  <2>2. line = toRobot /\ line \in Seq(Answers)
    BY <2>1 DEF LinkTypes
  <2>3. answer \in Answers
    BY <2>1, <2>2
  <2>4. answer.x \in Int /\ RightHalf(answer.x)
    <3>1. answer.x \in 0 .. 6 * Width
      <4>1. \A a \in Answers : a.found => a.x \in 0 .. 6 * Width
        <5> SUFFICES ASSUME NEW a \in Answers, a.found PROVE a.x \in 0 .. 6 * Width
          OBVIOUS
        <5>1. a # Blank
          BY DEF Blank
        <5>2. PICK D : a \in [found : {TRUE}, distance : D, x : 0 .. 6 * Width]
          BY <5>1, Zenon DEF Answers
        <5>3. QED BY <5>2
      <4>2. QED BY <2>1, <2>3, <4>1
    <3>2. QED BY <2>1, <2>2, <3>1, TrackerAssumption DEF RightOnly
  <2>5. turn' = Steered(answer)
    BY <1>2 DEF Aim
  <2> HIDE DEF i, answer
  <2>6. QED BY <2>1, <2>4, <2>5, FarIsRight DEF RightHalf
<1>3. QED BY <1>1, <1>2

(* The robot only empties what is under way, and turns by what it read.    *)
LEMMA RightRobot == LinkTypes /\ RightOnly /\ Robot => RightOnly'
<1> SUFFICES ASSUME LinkTypes, RightOnly, Robot PROVE RightOnly'
  OBVIOUS
<1> USE DEF RobotKept, tracker, link, AimsOneWay
<1>1. CASE ReadLine /\ ~RobotEnds("crashed")
  <2>1. /\ toRobot' = <<>> /\ UNCHANGED tracker
        /\ UNCHANGED turn \/ \E line \in {toRobot, <<>>} : Aim(line)
    BY <1>1 DEF ReadLine
  <2>2. turn' \in {"none", "search", "right"}
    BY <2>1, AimIsRight DEF RightOnly
  <2>3. QED BY <2>1, <2>2 DEF RightOnly
<1>2. CASE \E how \in {"off", "crashed"} : RobotEnds(how)
  BY <1>2 DEF RobotEnds, RightOnly
<1>3. CASE ~ReadLine /\ ~(\E how \in {"off", "crashed"} : RobotEnds(how))
  <2>1. UNCHANGED <<tracker, toRobot, turn>>
    BY <1>3 DEF Robot, RobotStart, Accept, Call, SendPacket, Sent, RobotKilled
  <2>2. QED BY <2>1 DEF RightOnly
<1>4. QED BY <1>1, <1>2, <1>3

(* The NUC measures anew, or replies what it has measured.                 *)
LEMMA RightNuc == LinkTypes /\ NucIsMaster /\ RightOnly /\ Nuc => RightOnly'
<1> SUFFICES ASSUME LinkTypes, NucIsMaster, RightOnly, Nuc PROVE RightOnly'
  OBVIOUS
<1> USE DEF tracker, robotVars, link, AimsOneWay
<1>1. CASE \E left \in {"ended", "silent"} : NucEnds(left)
  BY <1>1 DEF NucEnds, TrackerStart, RightOnly
<1>2. CASE NucServes
  <2>1. PICK mode \in {"ship", "boiler"} : ImageUpdate(mode)
    BY <1>2, ModeTyped DEF NucServes, LinkTypes
  <2>2. tapeFound' => RightHalf(actualX')
    BY <2>1, UpdateTyped DEF LinkTypes
  <2>3. QED BY <1>2, <2>2 DEF NucServes, RightOnly
<1>3. CASE NucReply /\ ~NucEnds("ended")
  <2>1. UNCHANGED <<program, tapeFound, actualX, turn>> /\ toRobot' \in {toRobot, Append(toRobot, Reply)}
    BY <1>3 DEF NucReply
  <2>2. Reply.found => RightHalf(Reply.x)
    BY <1>3 DEF NucReply, NucIsMaster, RightOnly, Reply, Blank
  <2>3. \A i \in DOMAIN toRobot' : toRobot'[i].found => RightHalf(toRobot'[i].x)
    <3>1. CASE toRobot' = Append(toRobot, Reply)
      <4>1. toRobot \in Seq(Answers)
        BY DEF LinkTypes
      <4>2. \A i \in DOMAIN toRobot' : toRobot'[i] = Reply \/ (i \in DOMAIN toRobot /\ toRobot'[i] = toRobot[i])
        BY <3>1, <4>1
      <4>3. QED BY <2>2, <4>2 DEF RightOnly
    <3>2. QED BY <2>1, <3>1 DEF RightOnly
  <2>4. QED BY <2>1, <2>3 DEF RightOnly, RightHalf
<1>4. CASE (NucStart \/ NucConnects \/ NucSetup) /\ ~NucEnds("ended")
  BY <1>4 DEF NucStart, NucConnects, NucSetup, RightOnly
<1>5. QED BY <1>1, <1>2, <1>3, <1>4 DEF Nuc, NucKilled, NucLosesPower

(* The program that aims never sees the boiler in front: with tape in      *)
(* sight it turns the same way, without it searches, for every camera,     *)
(* every distance it wants and every order of requests and failures.       *)
THEOREM AimIsOneWay == Spec => []AimsOneWay
<1> DEFINE Inv == LinkTypes /\ NucIsMaster /\ RightOnly
<1>1. Init => Inv
  <2>1. Init => NucIsMaster /\ RightOnly
    BY DEF Init, TrackerInit, NucIsMaster, RightOnly, AimsOneWay
  <2>2. QED BY <2>1, TypesInit
<1>2. Inv /\ [Next]_vars => Inv'
  <2>1. RightOnly /\ UNCHANGED vars => RightOnly'
    BY DEF RightOnly, AimsOneWay, RightHalf, vars, tracker, robotVars, link
  <2>2. RightOnly /\ (Viewers \/ LinkReset) => RightOnly'
    BY DEF RightOnly, AimsOneWay, RightHalf, Viewers, OpencvTest, ImageCallback, LinkReset, robotVars,
           link, tracker
  <2>3. QED BY <2>1, <2>2, TypesStep, MasterStep, RightRobot, RightNuc DEF Next
<1>3. Inv => AimsOneWay
  BY DEF RightOnly
<1>4. QED BY <1>1, <1>2, <1>3, PTL DEF Spec

----------------------------------------------------------------------------
(* What the answers are good for: readLine gives none up while the         *)
(* connection is open, and all of them, once, when it has ended.           *)

Open == {"live", "silent"}

WaitsWhileOpen ==
  robot = "reading" /\ robotSide \in Open /\ robotSide' \in Open => robot' = "reading"

SteersAtTheEnd ==
  turn' # turn => robotSide = "ended" /\ toRobot # <<>> /\ toRobot' = <<>>

SpentWhenRead ==
  (robot \in Up /\ robotSide = "ended" /\ toRobot = <<>>)
    => /\ toRobot' = <<>> /\ turn' = turn
       /\ robotSide' = "ended" \/ robot' \in {"off", "crashed"}

(* The robot writes what it does with the drive only in readLine, and      *)
(* readLine never returns while its connection is open.                    *)
LEMMA RobotReads ==
  ASSUME LinkTypes, EndsAgree, Robot
  PROVE  WaitsWhileOpen /\ SteersAtTheEnd /\ SpentWhenRead
<1> USE DEF WaitsWhileOpen, Open, SteersAtTheEnd, SpentWhenRead, Up, RobotKept, link
<1>1. CASE \E how \in {"off", "crashed"} : RobotEnds(how)
  BY <1>1 DEF RobotEnds
<1>2. CASE ReadLine /\ ~RobotEnds("crashed")
  <2>1. PICK line \in {toRobot, <<>>} :
          /\ toRobot' = <<>> /\ UNCHANGED robotSide
          /\ robotSide \notin {"live", "silent", "none"}
          /\ \/ turn' = turn
             \/ line # <<>>
    <3>1. Unreadable(<<>>)
      BY DEF Unreadable
    <3>2. QED BY <1>2, <3>1 DEF ReadLine
  <2>2. robotSide = "ended"
    BY <2>1 DEF LinkTypes
  <2>3. QED BY <2>1, <2>2
<1>3. CASE ~ReadLine /\ ~(\E how \in {"off", "crashed"} : RobotEnds(how))
  <2>1. UNCHANGED <<turn, toRobot>>
    BY <1>3 DEF Robot, RobotStart, Accept, Call, SendPacket, Sent, RobotKilled
  <2>2. robot = "reading" => robot' = "reading"
    BY <1>3 DEF Robot, RobotStart, Accept, Call, SendPacket, Sent, RobotKilled
  <2>3. robot \in Up => UNCHANGED robotSide
    BY <1>3 DEF Robot, RobotStart, Accept, Call, SendPacket, Sent, RobotKilled
  <2>4. QED BY <2>1, <2>2, <2>3
<1>4. QED BY <1>1, <1>2, <1>3

(* The NUC answers only on a live connection, and moves no robot.          *)
LEMMA NucAnswers ==
  ASSUME EndsAgree, Nuc \/ LinkReset \/ Viewers \/ UNCHANGED vars
  PROVE  WaitsWhileOpen /\ SteersAtTheEnd /\ SpentWhenRead
<1> USE DEF WaitsWhileOpen, Open, SteersAtTheEnd, SpentWhenRead, robotVars, link
<1>1. UNCHANGED <<robot, turn>>
  BY DEF Nuc, NucStart, NucConnects, NucSetup, NucServes, NucReply, NucKilled, NucLosesPower, NucEnds,
         LinkReset, Viewers, vars
<1>2. CASE NucReply /\ ~NucEnds("ended")
  <2>1. UNCHANGED robotSide /\ (UNCHANGED toRobot \/ nucSide = "live")
    BY <1>2 DEF NucReply
  <2>2. nucSide = "live" <=> robotSide = "live"
    BY DEF EndsAgree
  <2>3. QED BY <1>1, <2>1, <2>2
<1>3. CASE \E left \in {"ended", "silent"} : NucEnds(left)
  <2>1. UNCHANGED toRobot /\ (UNCHANGED robotSide \/ nucSide = "live")
    BY <1>3 DEF NucEnds
  <2>2. nucSide = "live" => robotSide = "live"
    BY DEF EndsAgree
  <2>3. QED BY <1>1, <2>1, <2>2
<1>4. CASE LinkReset
  <2>1. UNCHANGED toRobot /\ robotSide' \in {"ended", robotSide}
    BY <1>4 DEF LinkReset
  <2>2. QED BY <1>1, <2>1
<1>5. CASE /\ ~NucReply /\ ~LinkReset
           /\ ~\E left \in {"ended", "silent"} : NucEnds(left)
  <2>1. UNCHANGED <<toRobot, robotSide>>
    BY <1>5 DEF Nuc, NucStart, NucConnects, NucSetup, NucServes, NucKilled, NucLosesPower, Viewers,
                vars
  <2>2. QED BY <1>1, <2>1
<1>6. QED BY <1>2, <1>3, <1>4, <1>5

(* A robot that waits for an answer waits as long as the connection is     *)
(* open: no reply of the NUC and no other program lets it go on, and a NUC *)
(* without power does not either, as readLine has no timeout.              *)
THEOREM LiveRequestsHang == Spec => [][WaitsWhileOpen]_vars
<1>1. LinkTypes /\ EndsAgree /\ [Next]_vars => [WaitsWhileOpen]_vars
  BY RobotReads, NucAnswers DEF Next
<1>2. Spec => []LinkTypes
  BY TypesInit, TypesStep, PTL DEF Spec
<1>3. QED BY <1>1, <1>2, EndsAlwaysAgree, PTL DEF Spec

(* What aiming asks of the drive changes only after the connection has     *)
(* ended, and only once for each: readLine takes all that was answered,    *)
(* and until the robot's program restarts there is nothing more.           *)
THEOREM SteersOncePerConnection == Spec => [][SteersAtTheEnd /\ SpentWhenRead]_vars
<1>1. LinkTypes /\ EndsAgree /\ [Next]_vars => [SteersAtTheEnd /\ SpentWhenRead]_vars
  BY RobotReads, NucAnswers DEF Next
<1>2. Spec => []LinkTypes
  BY TypesInit, TypesStep, PTL DEF Spec
<1>3. QED BY <1>1, <1>2, EndsAlwaysAgree, PTL DEF Spec
=============================================================================
