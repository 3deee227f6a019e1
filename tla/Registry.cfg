CONSTANTS
  qa = qa
  qb = qb
  qc = qc
  ta = ta
  tb = tb
  tc = tc
  td = td
  NoQueue = NoQueue
  Queues = {qa, qb}
  Threads = {ta, tb, td}
  ModuleOf <- SharedQueue
  QueueOf <- SharedQueue
  Names = {m, n}
  MaxCode = 2
  MaxPackets = 1
  MayExit = {qb}
  Wrapped = {tb}
SPECIFICATION PlusSpec
SYMMETRY Symmetry
CHECK_DEADLOCK FALSE
INVARIANTS
  RegistryExact
  RosterListsReceived
  MapsMirror
PROPERTIES
  IdFixed
  HandedByName
