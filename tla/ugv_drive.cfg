SPECIFICATION Spec
CONSTANTS
  Topics <- CmdVelAndSafety
  Lamps <- SafetyLamp
  CmdVelTimeout = 2
  VbatEstopDecimation = 2
  TopSpeed = 1
  LightsWanted = TRUE
  SendsFail = TRUE
  FdLimit = 1
INVARIANTS TypeOK EstopFresh IntegralFresh DarkWhenDisabled
PROPERTIES WatchdogPatient
CHECK_DEADLOCK FALSE
