SPECIFICATION FairSpec
CONSTANTS
  None = None
  MaxMail = 1
  FileName <- OwnNames
  Worlds <- Unilateral
PROPERTIES IdleEnds
CHECK_DEADLOCK FALSE
