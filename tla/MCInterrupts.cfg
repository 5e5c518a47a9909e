CONSTANTS
  BUFFER_HEIGHT = 2
  BUFFER_WIDTH = 2
  Printable = {"a", "b", "c", "k", "F"}
  Texts <- MCTexts
  Keys <- MCKeys
  MaxTicks = 2
  MaxKeys = 2
  MaxPrints = 4

SPECIFICATION InterruptsSpec

INVARIANTS
  OnlyWriterContended
  PrintsAreWhole
  ScreenShowsTail

PROPERTIES
  ServedUnlessLockedOut
  LockedOutForever
