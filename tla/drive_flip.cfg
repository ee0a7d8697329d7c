SPECIFICATION FairSpec
CONSTANTS
  One = 10
  Readings <- Turned
PROPERTIES TurnTurns
