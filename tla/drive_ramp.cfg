SPECIFICATION FairSpec
CONSTANTS
  One = 10
  Readings <- Driven
INVARIANTS TypeOK PowerInRange ReleasedArcadeStops
PROPERTIES DrivesAsOutlined HeldSettles
