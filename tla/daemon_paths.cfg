\* One Wiimote that comes back at another path, known to old files by a path.
CONSTANTS
  d1 = d1
  p1 = p1
  p2 = p2
  Devices = {d1}
  Paths = {p1, p2}
  None = None
  Home <- AnyPath
  MaxThreads = 1
  MaxQueue = 1
  Profiles = {"auto", "guitar"}
  DefaultProfile = "auto"
  Extensions = {}
  NumSlots = 1
  NoSerial = {}
  InitialFiles <- SomeFiles
  Commands = {"Forget", "SetMappingProfile"}
  BtRecovery = FALSE
  Restarts = FALSE
  SaveMayFail = FALSE
SPECIFICATION ProcessSpec
PROPERTY ScansKeepSettings
