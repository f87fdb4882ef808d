SPECIFICATION FileSpec
CONSTANTS
  Byte = {0, 1}
  Wild = Wild
  NoCapture = NoCapture
  CapLen <- MCCapLen
  ModuleOrder <- MCModuleOrder
  Default = "GeometryDash.exe"
  Words <- MCWords
  Sigs <- MCSigs
  Extras <- MCExtras
  MaxSigs = 2
  MaxExtras = 2
  HandFiles <- MCHandFiles
INVARIANT
  DocumentedRecordsRead
CHECK_DEADLOCK FALSE
