CONSTANTS
  a = a
  b = b
  w = w
  None = none
  Modules = {a, b}
  Threads = {}
  MayAsk <- NobodyAsks
  MayNotify <- NobodyAsks
  MayAttach = {}
  MayExit = {}
  MaxPackets = 1
  MaxSignals = 2
  Modes = {"PUC_WAIT"}
  ThreadMayFail = FALSE
SPECIFICATION InterruptedSpec
CHECK_DEADLOCK FALSE
PROPERTIES
  WaitSucceeds
