SPECIFICATION FairSpec
CONSTANTS
  None = None
  MaxMail = 2
  FileName <- OwnNames
  Worlds <- AllWorlds
INVARIANTS TypeOK InStep StateChangesAlone
PROPERTIES MailSaved ShutsDown
CHECK_DEADLOCK FALSE
