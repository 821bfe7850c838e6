\* A scan window binds a connected Wiimote to another path.
CONSTANTS
  d1 = d1
  d2 = d2
  p1 = p1
  p2 = p2
  Devices = {d1}
  Paths = {p1, p2}
  None = None
  Home <- AnyPath
  MaxThreads = 1
  MaxQueue = 1
  Profiles = {"auto"}
  DefaultProfile = "auto"
  Extensions = {}
  NumSlots = 1
  NoSerial = {}
  InitialFiles <- EmptyFile
  Commands = {"StartScan"}
  BtRecovery = FALSE
SPECIFICATION FairSpec
PROPERTY QuietDeviceIsLost
