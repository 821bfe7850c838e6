\* Two Wiimotes that keep their paths compete for one slot.
CONSTANTS
  d1 = d1
  d2 = d2
  p1 = p1
  p2 = p2
  Devices = {d1, d2}
  Paths = {p1, p2}
  None = None
  Home <- OwnPath
  MaxThreads = 2
  MaxQueue = 1
  Profiles = {"auto"}
  DefaultProfile = "auto"
  Extensions = {}
  NumSlots = 1
  NoSerial = {}
  InitialFiles <- EmptyFile
  Commands = {"Connect", "Disconnect"}
  BtRecovery = FALSE
SPECIFICATION Spec
INVARIANTS
  TypeOK
  SlotsAreExclusive
  SlotIffConnected
  DisabledStaysDown
  SessionIsWatched
  HandlesAreOwned
SYMMETRY Exchange
