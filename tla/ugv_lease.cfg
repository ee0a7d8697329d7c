SPECIFICATION FairSpec
CONSTANTS
  Topics <- CmdVelAndLights
  Lamps <- BatteryLamp
  CmdVelTimeout = 2
  VbatEstopDecimation = 2
  TopSpeed = 2
  LightsWanted = TRUE
  SendsFail = FALSE
  FdLimit = 1
INVARIANTS ExitDark
PROPERTIES LowBatteryFlashes VelocityLeased SilenceStopsWheels EstopStops
CHECK_DEADLOCK FALSE
