\* The OS gives one Wiimote's old path to another one.
CONSTANTS
  d1 = d1
  d2 = d2
  p1 = p1
  p2 = p2
  Devices = {d1, d2}
  Paths = {p1, p2}
  None = None
  Home <- AnyPath
  MaxThreads = 1
  MaxQueue = 1
  Profiles = {"auto"}
  DefaultProfile = "auto"
  Extensions = {}
  NumSlots = 2
  NoSerial = {}
  InitialFiles <- EmptyFile
  Commands = {}
  BtRecovery = FALSE
SPECIFICATION Spec
PROPERTY ReportsAreCreditedRight
