\* Two Wiimotes with mutually reversed addresses, on each platform.
CONSTANTS
  None = None
  Wiimotes <- TwoWiimotes
  Foreign = {}
  MaxQueue = 1
  Platforms = {"linux", "windows", "macos"}
SPECIFICATION ScannersFairSpec
INVARIANTS
  ScannersTypeOK
  PinSetIsOwnPair
  CallbackContextLives
PROPERTIES
  KeepsContract
  PinIsAnswered
  ObeysItsFlags
