SPECIFICATION DataSpec
CONSTANTS
  Objects = {o1, o2, o3}
  PageSize = 2
  SlotSpan = 5
  SeedCount = 3
  MaxSlots = 4
  Window = 4
  Garbage = {0}
  x = x
  y = y
  Entries = {x, y}
  Junk = Junk
  MinPage = 2
  MaxCells = 4
  PageBlocks = 2
  Sizes = {1, 2}
  MaxPages = 2
  Base = 4
  SizeT = 4
  PtrSize = 4
  InfoSize = 3
  VecSize = 2
  Codes = {"m"}
  Contents = {"a", "b", "nothing"}
  Senders <- MCSenders
  Infos <- MCInfos
  Unset = Unset
  Second = 4
  Wrap32 = 8
  Now <- MCNow
  Chars = {"-", "d", "f", "m", "o", "x"}
  Lines <- MCLines
  OptStrings <- MCOptStrings
  Threads = {t1, t2, t3, t4}
  MaxCount = 6
  Owner = owner
  Others = {t1, t2}
  FreshRefc = {0, 1, 2, 9, 15}
  Wrap = 16
INVARIANTS
  FreeListExact
  LiveIdsResolve
  NoEarlyReuse
  BlocksExact
  PacketFits
  PacketCarries
  TimeExact
  ParseExact
  BlocksNotEmpty
  WaitersCounted
  NoLostPost
  CountsHandles
  NoLeak
PROPERTIES
  DeletedUnheld
  ImplementsSemaphore
  ImplementsIdMap
  ImplementsList
