CONSTANTS
  Objects = {o1, o2, o3}
  PageSize = 2
  SlotSpan = 5
  SeedCount = 3
  MaxSlots = 4
  Window = 4
  Garbage = {0}
SPECIFICATION StockSpec
SYMMETRY Symmetry
CHECK_DEADLOCK FALSE
INVARIANTS
  MapsIds
