CONSTANTS
  Main = main
  Slaves = {s1, s2}
  Threads = {main, s1, s2}
  Packets = {p1, p2}
  Signals = {unload, sigend}
  Unload = unload
  SigEnd = sigend
  MaxUnloads = 2
  MaxCount = 5
  QueueCount = 4
  AllocMayFail = TRUE
SPECIFICATION MCSpec
CHECK_DEADLOCK FALSE
INVARIANTS
  EntriesCounted
  NoLostWakeup
  SlavesCounted
PROPERTIES
  ImplementsMailbox
  EveryoneTold
  LastQuitSeen
