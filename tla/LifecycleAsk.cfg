CONSTANTS
  a = a
  b = b
  w = w
  None = none
  Modules = {a, b}
  Threads = {}
  MayAsk <- AskOther
  MayNotify <- NobodyAsks
  MayAttach = {}
  MayExit = {}
  MaxPackets = 1
  MaxSignals = 2
  Modes = {"PUC_EMERGENCY"}
  ThreadMayFail = FALSE
SPECIFICATION LifecycleFairSpec
CHECK_DEADLOCK FALSE
PROPERTIES
  EmergencyReturns
