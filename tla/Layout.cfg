SPECIFICATION SlotSpec
CONSTANTS
  Class = {"R", "B", "M", "D", "V"}
  Programs <- MCAllPrograms
  Ptr = 2
  MaxSteps = 3
  NoView = NoView
  NoSize = NoSize
  NoModule = NoModule
  NoName = NoName
  NoOwner = NoOwner
  NoCode = NoCode
  Codes <- MCCodes
INVARIANTS
  SameByte
  SharedFieldsMeet
  DeletedSizeWins
  NamedFieldsReached
  VirtualsTold
PROPERTIES
  SlotsKeepNames
CHECK_DEADLOCK FALSE
