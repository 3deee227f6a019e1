CONSTANTS
  a = a
  b = b
  w = w
  None = none
  Modules = {a, b}
  Threads = {w}
  MayAsk <- AskFromOutside
  MayNotify <- Notice
  MayAttach <- Joins
  MayExit = {a}
  MaxPackets = 1
  MaxSignals = 2
  Modes = {"PUC_NORMAL", "PUC_WAIT", "PUC_EMERGENCY"}
  ThreadMayFail = TRUE
SPECIFICATION LifecycleFairSpec
CHECK_DEADLOCK FALSE
INVARIANTS
  LifecycleTypeOK
  ExitSeen
  ModuleExitAnswers
  ShutdownAfterUnload
PROPERTIES
  EmergencyReturns
