CONSTANTS
  None = None
  Addrs <- OneAddr
  Reasons = {"other"}
  Banners = {}
  OsRefuses = FALSE
  MaxQueue = 1
  MaxUi = 1
  MaxCommands = 1
SPECIFICATION RecoverySpec
PROPERTY ForgetUnpairs
