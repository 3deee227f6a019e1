CONSTANTS
  qa = qa
  qb = qb
  qc = qc
  ta = ta
  tb = tb
  tc = tc
  td = td
  NoQueue = NoQueue
  Queues = {qa, qb}
  Threads = {ta, tb, td}
  ModuleOf <- SharedQueue
  QueueOf <- OneAttached
  Names = {m}
  MaxCode = 2
  MaxPackets = 1
  MayExit = {qb}
  Wrapped = {tb}
SPECIFICATION PlusSpec
CHECK_DEADLOCK FALSE
INVARIANTS
  NoEcho
