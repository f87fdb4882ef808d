SPECIFICATION Spec
CONSTANTS
  N = 4
  Sweep = 3
  Rounds = 3
  Hops = 3
  Codes <- MCCodes
  Tables <- MCTables
  Extras <- MCExtras
  Entries = {0, 4}
  MaxAdds = 2
INVARIANTS
  ClosedButForTheLast
  OverlapIsLate
  StaleOnlyTooLong
PROPERTY
  FactsStay
CHECK_DEADLOCK FALSE
