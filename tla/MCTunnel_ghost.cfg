SPECIFICATION ObservedSpec
CONSTANTS
  n = n
  x1 = x1  x2 = x2  y1 = y1  u1 = u1  v1 = v1
  None = None
  Inotify = Inotify
  Listener = Listener
  Fd <- One
  Ptr <- One
  Tag <- OneTag
  Body <- AllBodies
  Name <- OneName
  MaxEvents = 2
  Browser <- One
  Proxy <- One
  Worlds <- Leaving
PROPERTIES ErrTearsDown
CHECK_DEADLOCK FALSE
