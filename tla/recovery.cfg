\* One Wiimote, any contract-keeping scanner, a user who may click anything.
CONSTANTS
  None = None
  Addrs <- OneAddr
  Reasons = {"Page Timeout", "AuthenticateDeviceEx 0x1f"}
  Banners = {"pair_timeout", "auto_recovery"}
  OsRefuses = TRUE
  MaxQueue = 1
  MaxUi = 2
  MaxCommands = 1
SPECIFICATION RecoveryFairSpec
INVARIANTS
  RecoveryTypeOK
  WatchFollowsScanner
PROPERTIES
  HungPairIsAnnounced
  StaleIsRecovered
