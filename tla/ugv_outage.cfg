SPECIFICATION Spec
CONSTANTS
  Topics <- OnlyCmdVel
  Lamps <- NoLamps
  CmdVelTimeout = 2
  VbatEstopDecimation = 3
  TopSpeed = 1
  LightsWanted = FALSE
  SendsFail = TRUE
  FdLimit = 1
PROPERTIES WheelsFollowFresh
CHECK_DEADLOCK FALSE
