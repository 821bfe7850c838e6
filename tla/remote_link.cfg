\* Two extensions, two slots, up to three messages on their way.
CONSTANTS
  nunchuk = nunchuk
  guitar = guitar
  None = None
  Unknown = Unknown
  Extensions = {nunchuk, guitar}
  NumSlots = 2
  MaxPipe = 3
SPECIFICATION LinkFairSpec
INVARIANTS
  ModeIsReaffirmed
  IdentityIsRight
  InputsDecodedRight
  LedsShowSlot
  MotorIsWatched
PROPERTIES
  NewsIsSaved
  ExtensionIsIdentified
