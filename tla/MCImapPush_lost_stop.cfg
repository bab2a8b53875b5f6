SPECIFICATION FairSpec
CONSTANTS
  None = None
  MaxMail = 1
  FileName <- OwnNames
  Worlds <- Quiet
PROPERTIES StopEndsThread
CHECK_DEADLOCK FALSE
