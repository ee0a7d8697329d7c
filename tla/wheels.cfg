SPECIFICATION FairSpec
CONSTANTS
  Copies = {"mbzirc", "roborio_bridge"}
  Accel = 2
  Cap = 1
  Kp = 1
  Ki = 1
  Kffp = 0
  Kffd = 0
  Unit = 1
  Least = 0
  Kick = 2
  IntMax = 3
  Twists <- SomeTwists
  MaxLinear = 2
  MaxAngular = 1
  WheelDistance = 1
  Statuses <- SomeStatuses
  Room = 3
INVARIANTS TypeOK HeadingFromWheels OnLine
PROPERTIES RampsAsOutlined StandsStill StreamResumes
CHECK_DEADLOCK FALSE
