\* One Wiimote, every command, Bluetooth recovery, restarts at any step.
CONSTANTS
  d1 = d1
  p1 = p1
  p2 = p2
  Devices = {d1}
  Paths = {p1}
  None = None
  Home <- AnyPath
  MaxThreads = 1
  MaxQueue = 1
  Profiles = {"auto", "guitar"}
  DefaultProfile = "auto"
  Extensions = {"nunchuk"}
  NumSlots = 1
  NoSerial = {}
  InitialFiles <- SomeFiles
  Commands = {"Connect", "Disconnect", "Forget", "StartScan", "SetMappingProfile"}
  BtRecovery = TRUE
  Restarts = TRUE
  SaveMayFail = FALSE
SPECIFICATION ProcessSpec
INVARIANTS
  PadIsRightOrRetried
  MemoOnlyInWindow
  UiStaleIsFlagged
  DiskStaleIsFlagged
  StaleDiskIsFlushed
