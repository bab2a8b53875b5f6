SPECIFICATION ObservedSpec
CONSTANTS
  n = n
  x1 = x1  x2 = x2  y1 = y1  u1 = u1  v1 = v1 
  None = None
  Inotify = Inotify
  Listener = Listener
  Fd <- Two
  Ptr <- Two
  Tag <- ThreeTags
  Body <- AllBodies
  Name <- OneName
  MaxEvents = 2
  Browser <- Three
  Proxy <- Three
  Worlds <- FewWorlds
INVARIANTS TypeOK OneBrowser OneProxy AnswersExpected AddressExpected
PROPERTIES StreamSpec  EndReachesBrowser EndReachesProxy
CHECK_DEADLOCK FALSE
