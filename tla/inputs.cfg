\* One Wiimote with four extensions on each platform.
CONSTANTS
  None = None
  Systems = {"windows", "linux", "macos"}
  Chosen = {"Auto", "GuitarXplorer", "GuitarKeyboard"}
  Pluggable = {"Nunchuk", "Guitar", "Drums", "ClassicController"}
  Holds <- SomeHolds
  Motions <- SomeMotions
  Plays <- MCPlays
SPECIFICATION PipelineSpec
INVARIANTS
  PipelineTypeOK
  DecodedIsSent
  RestIsNeutral
PROPERTIES
  WhammyFollowsBar
