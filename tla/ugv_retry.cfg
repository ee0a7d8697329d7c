SPECIFICATION FairSpec
CONSTANTS
  Topics <- OnlyCmdVel
  Lamps <- NoLamps
  CmdVelTimeout = 2
  VbatEstopDecimation = 3
  TopSpeed = 1
  LightsWanted = FALSE
  SendsFail = FALSE
  FdLimit = 3
PROPERTIES RetryConnects
CHECK_DEADLOCK FALSE
