SPECIFICATION LoadSpec
CONSTANTS
  Images <- MCImages
  Programs <- MCPrograms
  TypeInfo = 1
  MaxEntries = 2
  MinVotes = 2
  Share = 1
  MinSize = 8
  MaxSize = 64
INVARIANTS
  NothingLost
  TablesApart
  OwnerLeadsBack
  TreeRecovered
  StructorsTold
  SizeOfDelete
  KeptIsMostDerived
CHECK_DEADLOCK FALSE
