SPECIFICATION Spec
CONSTANTS
  FieldName = {"a", "b", "c", "plain"}
  Member = {"a", "b", "c"}
  Slot = {"method"}
  NoSlot = NoSlot
  NoOff = NoOff
  Records <- MCRecords
  MaxRecords = 3
  Signed = {2}
  MaxPasses = 2
  Half = 4
INVARIANTS
  AppliedOnce
  RelationsHold
  ShallowChainsResolve
CHECK_DEADLOCK FALSE
