SPECIFICATION Spec
CONSTANTS
  Width = 10
  Height = 2
  Kernel = 1
  Colours <- SomeColours
  Frames <- CentredFrames
  Pictures <- AllPictures
  Programs = {"master"}
  Callers = {"AutoTurnToBoilerBlue"}
  Center = 2
  Tolerance = 10
  TooFar = 400
  Buffered = 2
INVARIANT CentredIsNotTurned
CHECK_DEADLOCK FALSE
