SPECIFICATION Spec
CONSTANTS
  Rva = {f, g}
  Exec = {f}
  NameId = {1, 2, 3}
  NoName = NoName
  MaxCalls = 5
INVARIANTS
  Canonical
  AliasesComplete
PROPERTY
  NeverDemoted
CHECK_DEADLOCK FALSE
