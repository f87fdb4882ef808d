SPECIFICATION LifeSpec
CONSTANTS
  Byte = {0, 1}
  Base = 2
  Wild = Wild
  NoCands = NoCands
  NoValue = NoValue
  ImageLen = 8
  Sections <- MCSections
  RelLen = 2
  MinFixed = 2
  CandCap = 3
  MaxSig = 5
  MaxInsnLen = 4
  Deltas = {0, 3}
  NoCapture = NoCapture
  CapLen <- MCCapLen
  ModuleOrder <- MCModuleOrder
  Default = "GeometryDash.exe"
  Words <- MCWords
  Sigs <- MCSigs
  Extras <- MCExtras
  MaxSigs = 2
  MaxExtras = 2
  HandFiles = {}
  Name <- MCName
  Others <- MCOthers
INVARIANTS
  RoundTrip
  RereadIsSame
  SignatureSurvives
CHECK_DEADLOCK FALSE
