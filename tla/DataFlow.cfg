SPECIFICATION Spec
CONSTANTS
  Regs <- MCRegs
  Volatile <- MCVolatile
  MaxObj = 2
  MaxAlloc = 2
  VTables <- MCVTables
  Programs <- MCPrograms
  MaxTurns = 2
INVARIANTS
  Sound
  FactsHold
  AccessesFound
  UsesFound
  PrologueKept
CHECK_DEADLOCK FALSE
