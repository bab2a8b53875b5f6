SPECIFICATION Spec
CONSTANTS
  c1 = c1  c2 = c2
  f1 = f1  f2 = f2
  p1 = p1  p2 = p2
  b = b  n = n
  None = None
  Inotify = Inotify
  Listener = Listener
  IsClient = FALSE
  Fd <- TwoFds
  Ptr <- TwoPtrs
  Conn <- TwoConns
  Tag <- ThreeTags
  Body <- OneBody
  Name <- OneName
  Mails <- ServerMails
  StaleTags = FALSE
  MayStall = TRUE
  Forks = TRUE
  MaxEvents = 4
  MaxRx = 1
  MaxTx = 1
  MaxMailq = 1
SYMMETRY Symmetry
INVARIANTS TablesAgree RegistrationsLive NeverDeaf
CHECK_DEADLOCK FALSE
