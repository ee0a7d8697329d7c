SPECIFICATION FairSpec
CONSTANT Wired <- SharedMotors
INVARIANTS TypeOK MotorOwned TestModeStopped
PROPERTIES HeldKeepsRunning ReleasedStops HeldRuns DisabledDrains
