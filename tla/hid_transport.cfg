\* One Wiimote, one path, two threads of it.
CONSTANTS
  d1 = d1
  p1 = p1
  Devices = {d1}
  Paths = {p1}
  None = None
  Home <- EveryPath
  IdleDeadline = 3
  MaxThreads = 2
  MaxQueue = 2
  MaxWrites = 2
SPECIFICATION TransportFairSpec
INVARIANTS
  TransportTypeOK
  AtMostOneLateReport
PROPERTIES
  ImplementsSessions
  UselessThreadsEnd
