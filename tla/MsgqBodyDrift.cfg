CONSTANTS
  Threads = {t1}
  Packets = {p1}
  Signals = {s1}
  MaxCount = 2
  AllocMayFail = FALSE
SPECIFICATION BodySpec
INVARIANTS
  ReceiveBlocks
