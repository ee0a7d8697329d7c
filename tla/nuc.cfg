SPECIFICATION FairSpec
CONSTANTS
  Width = 10
  Height = 2
  Kernel = 1
  Colours <- SomeColours
  Frames <- SomeFrames
  Pictures <- AllPictures
  Programs = {"master", "image_subscriber", "opencv_test"}
  Callers = {"AutoTurnToBoilerBlue", "TestNucOutput", "SendUDPPacket"}
  Center = 2
  Tolerance = 10
  TooFar = 400
  Buffered = 2
INVARIANTS TypeOK GapWiderThanKernel AnswerFresh
PROPERTY RequestServed
CHECK_DEADLOCK FALSE
