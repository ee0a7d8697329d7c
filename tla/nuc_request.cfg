SPECIFICATION FairSpec
CONSTANTS
  Width = 10
  Height = 2
  Kernel = 1
  Colours <- SomeColours
  Frames <- SomeFrames
  Pictures <- AllPictures
  Programs = {"master"}
  Callers = {"AutoTurnToBoilerBlue"}
  Center = 2
  Tolerance = 10
  TooFar = 400
  Buffered = 2
PROPERTY RequestAnswered
CHECK_DEADLOCK FALSE
