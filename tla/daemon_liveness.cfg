\* One Wiimote, every command, Bluetooth recovery, two generations of its I/O thread, a fair loop and fair threads.
CONSTANTS
  d1 = d1
  d2 = d2
  p1 = p1
  p2 = p2
  Devices = {d1}
  Paths = {p1}
  None = None
  Home <- OwnPath
  MaxThreads = 2
  MaxQueue = 1
  Profiles = {"auto", "guitar"}
  DefaultProfile = "auto"
  Extensions = {}
  NumSlots = 1
  NoSerial = {}
  InitialFiles <- EmptyFile
  Commands = {"Connect", "Disconnect", "Forget", "StartScan", "SetMappingProfile"}
  BtRecovery = TRUE
SPECIFICATION FairSpec
PROPERTIES
  PendingIsResolved
  QuietDeviceIsLost
  AutoConnects
