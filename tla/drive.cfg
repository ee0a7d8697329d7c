SPECIFICATION FairSpec
CONSTANT Wired <- NucFlipDrive
INVARIANTS DriveExclusive
PROPERTIES EarlierButtonWins DriveLostToDisable TeleopDrives ReleasedStaysUp FlipSettles
