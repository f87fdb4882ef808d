SPECIFICATION Spec
CONSTANTS
  Func = {1, 2, 3}
  Class = {"R", "X", "U", "H", "N", "D"}
  Bases <- MCBases
  Programs <- MCPrograms
  NoOwner = NoOwner
  MaxRounds = 8
INVARIANTS
  EvidenceWins
  OwnerFitsCallers
PROPERTY
  OnlyWidens
CHECK_DEADLOCK FALSE
