CONSTANTS
  qa = qa
  qb = qb
  qc = qc
  ta = ta
  tb = tb
  tc = tc
  td = td
  NoQueue = NoQueue
  Queues = {qa, qb, qc}
  Threads = {ta, tb, tc}
  ModuleOf <- OneThreadEach
  QueueOf <- OneThreadEach
  Names = {m}
  MaxCode = 2
  MaxPackets = 1
  MayExit = {qc}
  Wrapped = {}
SPECIFICATION PlusSpec
CHECK_DEADLOCK FALSE
PROPERTIES
  FirstServed
