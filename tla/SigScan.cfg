SPECIFICATION FairSpec
CONSTANTS
  Byte = {x, y}
  Wild = Wild
  ImageLen = 7
  Sections <- MCSections
  Limit = 2
  MaxPatLen = 4
INVARIANTS
  AmbiguityIsReal
  CompleteWhenUnbordered
  AgreesWithFunction
PROPERTIES
  Implements
CHECK_DEADLOCK FALSE
