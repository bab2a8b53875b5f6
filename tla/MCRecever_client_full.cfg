SPECIFICATION FairSpec
CONSTANTS
  c1 = c1  c2 = c2
  f1 = f1  f2 = f2
  p1 = p1  p2 = p2
  b = b  n = n
  None = None
  Inotify = Inotify
  Listener = Listener
  IsClient = TRUE
  Fd <- OneFd
  Ptr <- TwoPtrs
  Conn <- TwoConns
  Tag <- TwoTags
  Body <- OneBody
  Name <- OneName
  Mails <- ClientMails
  StaleTags = FALSE
  MayStall = FALSE
  Forks = FALSE
  MaxEvents = 4
  MaxRx = 1
  MaxTx = 1
  MaxMailq = 1
PROPERTIES ReadEventually MailTakenUp
CHECK_DEADLOCK FALSE
